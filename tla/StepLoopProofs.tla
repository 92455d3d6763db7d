---------------------------- MODULE StepLoopProofs ----------------------------
(***************************************************************************)
(* Proofs about StepLoop, for every set of commands and step requests,     *)
(* every kind of session, every input buffer and every number of sessions. *)
(***************************************************************************)
EXTENDS StepLoop, FiniteSetTheorems, SequenceTheorems, TLAPS

-------------------------------------------------------------------------------
(* Types.                                                                  *)

Starts == [stepped : BOOLEAN, limit : Nat, seeded : BOOLEAN]

Items ==
  [tag : {"started"}, start : Starts]
    \union [tag : {"connected", "disconnected"}, some : BOOLEAN]
    \union [tag : {"ended", "applied"}]
    \union [tag : {"command"}, req : Requests \union {System}, session : Sessions]
    \union [tag : {"step"}, req : StepRequests]

Callbacks ==
  [tag : {"report"}, session : Sessions, req : StepRequests \union {NoRequest}, index : Nat]
    \union [tag : {"failure"}, session : Sessions]
    \union [tag : {"crash"}]

Codes == {"NOT_READY", "REFUSED", "SESSION_ENDED", "RESULT", "COMMAND_FAILED", "ACK", "FAILED"}

\* The input buffer is a sequence, of whatever frames, and within its bound.
Bounded(b) == (\E T : b \in Seq(T)) /\ Len(b) <= Capacity

\* What the runner's loop keeps, and what the two threads share.
RunnerTyped ==
  /\ state \in {"READY", "RUNNING", "CLOSING", "TERMINATED"}
  /\ posted \in Sessions /\ start \in Starts /\ joins \in 0 .. MaxJoins
  /\ client \in BOOLEAN /\ system \in BOOLEAN
  /\ seeding \in {"none", "command", "finish"} /\ startingDone \in BOOLEAN
  /\ request \in [Requests -> [at : Messages, session : Sessions]]
  /\ answers \in [Requests -> Seq(Codes)]
  /\ hops \in Seq(Callbacks) /\ completed \in Nat /\ stepsFailed \in BOOLEAN
  /\ queue \in Seq(Items) /\ Bounded(buffer)

\* What the model thread keeps.
ModelTyped ==
  /\ up \in BOOLEAN /\ started \in Sessions /\ started <= posted
  /\ active \in BOOLEAN /\ seedPending \in BOOLEAN /\ stepped \in BOOLEAN
  /\ connected \in BOOLEAN /\ live \in BOOLEAN
  /\ accepted \in Nat /\ limit \in Nat /\ gateDrops \in Nat
  /\ appState \in Sessions /\ failedCalls \in SUBSET StepRequests
  /\ pending \in StepRequests \union {NoRequest} /\ lock \in {"free", "run", "inbound"}
  /\ inbound \in [at : {"idle", "lock", "await"}, item : Items \union {[tag |-> "none"]}]
  /\ run \in [at : Points, woken : BOOLEAN, drops : Nat, served : Sessions, session : Sessions,
              req : StepRequests \union {NoRequest}]

Typed == RunnerTyped /\ ModelTyped

-------------------------------------------------------------------------------
(* The model thread: what holds of its two tasks while its loop runs.      *)

InHand(tags) == inbound.at = "lock" /\ inbound.item.tag \in tags

\* Where run() is in a pass through the gate, and where it runs a request.
Passing == {"lock", "input", "output", "emit", "sleep"}
Asked == {"request input", "request output"}

\* The lock's holder knows it, and nobody waits for a lock that is free.
LockOK ==
  /\ run.at \in StepPoints => lock = "run"
  /\ lock = "run" => run.at \in StepPoints \union {"lock"}
  /\ lock = "inbound" => inbound.at = "lock"
  /\ lock = "free" => inbound.at # "lock" /\ run.at # "lock"
  /\ inbound.at = "lock" =>
       inbound.item.tag \in {"connected", "disconnected", "started", "ended", "command"}
  /\ inbound.at = "idle" => inbound.item.tag = "none"
  /\ inbound.at = "await" => inbound.item.tag = "step"
  /\ run.at # "over"

\* The gate is what its parts say, and a pass that has seen no drop of it is of
\* the session that runs now.
GateOK ==
  /\ live = (connected /\ active /\ ~seedPending /\ ~stepped)
  /\ active => started > 0
  /\ run.at = "lock" /\ lock = "inbound" => live
  /\ run.at \in Passing =>
       \/ run.drops < gateDrops
       \/ run.drops = gateDrops /\ live /\ run.served = started
  /\ run.at \in {"lock", "input", "output"} => run.served = started /\ ~stepped

\* self.state is the running session's but for the moments the two boundaries
\* wait for the lock, and a step, begun or about to, is the running session's.
AppOK ==
  /\ InHand({"started"}) => active /\ lock = "inbound"
  /\ InHand({"ended"}) => ~active /\ started > 0
  /\ appState = IF (active /\ ~InHand({"started"})) \/ InHand({"ended"}) THEN started ELSE 0
  /\ run.at \in StepPoints => run.session = started /\ appState = started /\ started > 0
  /\ run.at = "lock" /\ lock = "run" => appState = started /\ started > 0

\* A request in run()'s hands is the one the inbound loop waits for, in a
\* session that still takes a step.
AskOK ==
  /\ inbound.at = "await" => active /\ stepped
  /\ pending # NoRequest => inbound.at = "await" /\ run.at \in {"turn", "emit", "sleep"}
  /\ run.at \in Asked => inbound.at = "await" /\ pending = NoRequest /\ run.req # NoRequest
  /\ pending # NoRequest \/ run.at = "request input" => limit = 0 \/ accepted < limit
  /\ run.at = "request output" => limit = 0 \/ accepted <= limit

\* Once the loop is over nothing is in hand.
DownOK ==
  ~up => /\ run.at = "over" /\ inbound = Idle /\ lock = "free" /\ pending = NoRequest
         /\ queue = <<>>

ModelInv == (up => LockOK /\ GateOK /\ AppOK /\ AskOK) /\ DownOK

-------------------------------------------------------------------------------
(* The runner: what holds of its sessions and its messages.                *)

\* The starting input is under way only in a running session, a message wakes
\* in the session it was held in, and one that waits for its upload waits in
\* the session that admitted it.
RunnerInv ==
  /\ startingDone <=> seeding = "none"
  /\ seeding # "none" => state = "RUNNING" /\ start.seeded
  /\ \A r \in Requests :
       /\ request[r].at = "released" => startingDone
       /\ state = "READY" => request[r].at \notin {"released", "cleared"}
       /\ r \in StepRequests /\ request[r].at = "fetching" =>
            state = "RUNNING" /\ startingDone /\ request[r].session = posted
  /\ \A i \in DOMAIN hops : hops[i].tag = "crash" => ~up

-------------------------------------------------------------------------------
(* The operators of the model.                                             *)

LEMMA EmptyIsBounded == Bounded(<<>>)
<1>1. <<>> \in Seq({}) /\ Len(<<>>) = 0 /\ Capacity \in Nat
  BY StepAssumption
<1> QED BY <1>1 DEF Bounded

\* A push keeps the bound, whatever is pushed.
LEMMA PushedIs ==
  ASSUME NEW b, NEW s, Bounded(b)
  PROVE  Bounded(Pushed(b, s))
<1>1. PICK T : b \in Seq(T)
  BY DEF Bounded
<1>0. PICK U : U = T \union {s}
  OBVIOUS
<1>2. Append(b, s) \in Seq(U) /\ Len(Append(b, s)) = Len(b) + 1 /\ Append(b, s) # <<>>
  <2>1. b \in Seq(U) /\ s \in U
    BY <1>0, <1>1
  <2>2. Append(b, s) \in Seq(U) /\ Len(Append(b, s)) = Len(b) + 1 /\ Len(b) \in Nat
    BY <2>1
  <2> QED BY <2>2
<1>3. Len(b) \in Nat /\ Len(b) <= Capacity /\ Capacity \in Nat
  BY <1>1, StepAssumption DEF Bounded
<1>4. Tail(Append(b, s)) \in Seq(U) /\ Len(Tail(Append(b, s))) = Len(b)
  BY <1>2, <1>3
<1> QED BY <1>2, <1>3, <1>4 DEF Pushed, Bounded

\* A reset keeps it too.
LEMMA ResetIs ==
  ASSUME NEW b, NEW s, Bounded(b)
  PROVE  Bounded(Reset(b, s))
<1>1. PICK T : b \in Seq(T)
  BY DEF Bounded
<1> DEFINE later == {i \in DOMAIN b : b[i] > s}
<1> DEFINE frame(k) == b[CHOOSE i \in later : Cardinality({j \in later : j <= i}) = k]
<1> DEFINE n == Cardinality(later)
<1>2. Len(b) \in Nat /\ DOMAIN b = 1 .. Len(b) /\ Len(b) <= Capacity
  BY <1>1 DEF Bounded
<1>3. IsFiniteSet(1 .. Len(b)) /\ Cardinality(1 .. Len(b)) = Len(b)
  <2>1. 1 \in Int /\ Len(b) \in Int
    BY <1>2
  <2>2. /\ IsFiniteSet(1 .. Len(b))
        /\ Cardinality(1 .. Len(b)) = IF 1 > Len(b) THEN 0 ELSE Len(b) - 1 + 1
    BY <2>1, FS_Interval
  <2> QED BY <1>2, <2>2
<1>4. later \in SUBSET (1 .. Len(b))
  BY <1>2
<1>5. n \in Nat /\ n <= Len(b)
  BY <1>2, <1>3, <1>4, FS_Subset, FS_CardinalityType
<1>6. Reset(b, s) = [k \in 1 .. n |-> frame(k)]
  BY DEF Reset
<1> HIDE DEF n, frame
<1>7. PICK F : Reset(b, s) \in Seq(F)
  <2>1. PICK F : F = {frame(k) : k \in 1 .. n}
    OBVIOUS
  <2>2. Reset(b, s) \in [1 .. n -> F]
    BY <1>6, <2>1
  <2>3. Reset(b, s) \in Seq(F)
    BY <2>2, <1>5
  <2> QED BY <2>3
<1>8. Len(Reset(b, s)) = n
  BY <1>5, <1>6, <1>7
<1>9. Capacity \in Nat
  BY StepAssumption
<1> QED BY <1>2, <1>5, <1>7, <1>8, <1>9 DEF Bounded

\* An answer to r, and to nobody else.
LEMMA AnswerIs ==
  ASSUME answers \in [Requests -> Seq(Codes)], NEW r \in Requests, NEW code \in Codes,
         Answer(r, code)
  PROVE  /\ answers' \in [Requests -> Seq(Codes)]
         /\ \A q \in Requests : q # r => answers'[q] = answers[q]
         /\ Len(answers'[r]) = Len(answers[r]) + 1
BY DEF Answer

\* What is posted is queued, in its order.
LEMMA PostIs ==
  ASSUME queue \in Seq(Items), NEW s \in Seq(Items), Post(s)
  PROVE  queue' \in Seq(Items)
BY DEF Post

\* Waking the messages moves none that is over, and types are kept.
LEMMA WakeIs ==
  ASSUME RunnerTyped, NEW b \in BOOLEAN, Wake(b)
  PROVE  /\ request' \in [Requests -> [at : Messages, session : Sessions]]
         /\ \A r \in Requests :
              /\ request'[r].session = request[r].session
              /\ request[r].at \notin {"held", "fetching"} => request'[r] = request[r]
              /\ request[r].at = "held" => request'[r].at = "released"
              /\ request[r].at = "fetching" =>
                   request'[r].at = IF b THEN "cleared" ELSE "fetching"
<1>1. request \in [Requests -> [at : Messages, session : Sessions]]
  BY DEF RunnerTyped
<1>2. CASE b = TRUE
  BY <1>1, <1>2 DEF Wake, Messages
<1>3. CASE b = FALSE
  BY <1>1, <1>3 DEF Wake, Messages
<1> QED BY <1>2, <1>3

\* The items the runner posts.
LEMMA ItemsAre ==
  /\ <<>> \in Seq(Items)
  /\ \A s \in Starts : <<SessionStarted(s)>> \in Seq(Items)
  /\ \A b \in BOOLEAN : \A tag \in {"connected", "disconnected"} :
       <<[tag |-> tag, some |-> b]>> \in Seq(Items)
  /\ <<[tag |-> "ended"]>> \in Seq(Items) /\ <<[tag |-> "applied"]>> \in Seq(Items)
  /\ \A r \in Requests \union {System}, n \in Sessions :
       <<[tag |-> "command", req |-> r, session |-> n]>> \in Seq(Items)
  /\ \A r \in StepRequests : <<[tag |-> "step", req |-> r]>> \in Seq(Items)
<1>1. \A s \in Starts : SessionStarted(s) \in Items
  BY DEF SessionStarted, Items
<1>2. \A b \in BOOLEAN : \A tag \in {"connected", "disconnected"} :
        [tag |-> tag, some |-> b] \in Items
  BY DEF Items
<1>3. [tag |-> "ended"] \in Items /\ [tag |-> "applied"] \in Items
  BY DEF Items
<1>4. \A r \in Requests \union {System}, n \in Sessions :
        [tag |-> "command", req |-> r, session |-> n] \in Items
  BY DEF Items
<1>5. \A r \in StepRequests : [tag |-> "step", req |-> r] \in Items
  BY DEF Items
<1> HIDE DEF Items
<1> QED BY <1>1, <1>2, <1>3, <1>4, <1>5

-------------------------------------------------------------------------------
(* The queue between the threads: which session each item belongs to.      *)

\* How many sessions have started at a place in the queue, and whether the last
\* of them is still open there.
Stages == [n : Nat, on : {"open", "shut"}]
Stage(n, on) == [n |-> n, on |-> IF on THEN "open" ELSE "shut"]

\* An item moves the model from stage p to stage q.
Fits(it, p, q) ==
  /\ it.tag = "started" => p.on = "shut" /\ q.on = "open" /\ q.n = p.n + 1
  /\ it.tag = "ended" => p.on = "open" /\ q.on = "shut" /\ q.n = p.n
  /\ it.tag \notin {"started", "ended"} => q = p

IsStarting(it) == it.tag = "command" /\ it.req = System

\* What the runner knows of an item whose session is stage p's: P sessions were
\* posted, the last from S, its starting input is at d and the messages at R.
ItemOK(it, p, P, S, d, R) ==
  /\ it.tag = "started" /\ p.n = P => it.start = S
  /\ it.tag = "step" => p.on = "open" /\ R[it.req].at = "over" /\ R[it.req].session = p.n
  /\ IsStarting(it) => p.on = "open" /\ it.session = p.n
  /\ it.tag \in {"step", "applied"} => (d = "command" => p.n # P)

\* The starting command y of a session comes, in the queue, after the item x
\* that opens it and not after any that relies on it.
PairOK(x, p, y) ==
  IsStarting(y) =>
    /\ x.tag \in {"step", "applied"} => y.session # p.n
    /\ x.tag = "started" /\ y.session = p.n => x.start.seeded

\* ph is the stage after each item of s.
Numbers(s, ph, a, b) ==
  /\ ph \in [0 .. Len(s) -> Stages] /\ ph[0] = a /\ ph[Len(s)] = b
  /\ \A i \in 1 .. Len(s) : Fits(s[i], ph[i - 1], ph[i])
  /\ \A i, j \in 0 .. Len(s) : i <= j => ph[i].n <= ph[j].n

Settled(s, ph, P, S, d, R) ==
  /\ \A i \in 1 .. Len(s) : ItemOK(s[i], ph[i], P, S, d, R)
  /\ \A i, j \in 1 .. Len(s) : i < j => PairOK(s[i], ph[i], s[j])

\* The queue s takes the model from stage a to stage b.
Tracked(s, a, b, P, S, d, R) ==
  \E ph : Numbers(s, ph, a, b) /\ Settled(s, ph, P, S, d, R)

Now == Stage(started, active)
Then == Stage(posted, state = "RUNNING")

QueueInv == up => Tracked(queue, Now, Then, posted, start, seeding, request)

\* An empty queue leaves the model where it is.
LEMMA TrackedEmpty ==
  ASSUME NEW a \in Stages, NEW P, NEW S, NEW d, NEW R
  PROVE  Tracked(<<>>, a, a, P, S, d, R)
<1> DEFINE ph == [i \in 0 .. 0 |-> a]
<1>1. Len(<<>>) = 0
  OBVIOUS
<1>2. Numbers(<<>>, ph, a, a)
  <2>1. \A i, j \in 0 .. 0 : i <= j => ph[i].n <= ph[j].n
    BY DEF Stages
  <2> QED BY <1>1, <2>1 DEF Numbers
<1>3. Settled(<<>>, ph, P, S, d, R)
  BY <1>1 DEF Settled
<1> QED BY <1>2, <1>3 DEF Tracked

\* Taking the head moves the model one stage on.
LEMMA TrackedTail ==
  ASSUME NEW s \in Seq(Items), s # <<>>, NEW a, NEW b, NEW P, NEW S, NEW d, NEW R,
         Tracked(s, a, b, P, S, d, R)
  PROVE  \E c \in Stages :
           /\ a \in Stages /\ b \in Stages /\ c.n <= b.n
           /\ Fits(Head(s), a, c) /\ ItemOK(Head(s), c, P, S, d, R)
           /\ \A j \in DOMAIN Tail(s) : PairOK(Head(s), c, Tail(s)[j])
           /\ Tracked(Tail(s), c, b, P, S, d, R)
<1>1. PICK ph : Numbers(s, ph, a, b) /\ Settled(s, ph, P, S, d, R)
  BY DEF Tracked
<1>2. PICK n \in Nat : n + 1 = Len(s)
  <2>1. Len(s) \in Nat /\ Len(s) # 0
    OBVIOUS
  <2> QED BY <2>1
<1>3. /\ Tail(s) \in Seq(Items) /\ Len(Tail(s)) = n /\ Head(s) = s[1]
      /\ \A i \in 1 .. n : Tail(s)[i] = s[i + 1]
  BY <1>2
<1>4. /\ ph \in [0 .. n + 1 -> Stages] /\ ph[0] = a /\ ph[n + 1] = b
      /\ \A i \in 1 .. n + 1 : Fits(s[i], ph[i - 1], ph[i])
      /\ \A i, j \in 0 .. n + 1 : i <= j => ph[i].n <= ph[j].n
  BY <1>1, <1>2 DEF Numbers
<1>5. /\ \A i \in 1 .. n + 1 : ItemOK(s[i], ph[i], P, S, d, R)
      /\ \A i, j \in 1 .. n + 1 : i < j => PairOK(s[i], ph[i], s[j])
  BY <1>1, <1>2 DEF Settled
<1> HIDE DEF Fits, ItemOK, PairOK, Stages
<1>6. PICK g : g = [i \in 0 .. n |-> ph[i + 1]]
  OBVIOUS
<1>7. Numbers(Tail(s), g, ph[1], b)
  <2>1. g \in [0 .. n -> Stages] /\ g[0] = ph[1] /\ g[n] = b
    BY <1>4, <1>6
  <2>2. ASSUME NEW i \in 1 .. n PROVE Fits(Tail(s)[i], g[i - 1], g[i])
    <3>1. g[i - 1] = ph[i] /\ g[i] = ph[i + 1] /\ i + 1 \in 1 .. n + 1 /\ (i + 1) - 1 = i
      BY <1>6
    <3> QED BY <3>1, <1>3, <1>4
  <2>3. ASSUME NEW i \in 0 .. n, NEW j \in 0 .. n, i <= j PROVE g[i].n <= g[j].n
    <3>1. g[i] = ph[i + 1] /\ g[j] = ph[j + 1] /\ i + 1 \in 0 .. n + 1 /\ j + 1 \in 0 .. n + 1
          /\ i + 1 <= j + 1
      BY <1>6, <2>3
    <3> QED BY <3>1, <1>4
  <2> QED BY <1>3, <2>1, <2>2, <2>3 DEF Numbers
<1>8. Settled(Tail(s), g, P, S, d, R)
  <2>1. ASSUME NEW i \in 1 .. n PROVE ItemOK(Tail(s)[i], g[i], P, S, d, R)
    <3>1. g[i] = ph[i + 1] /\ i + 1 \in 1 .. n + 1
      BY <1>6
    <3> QED BY <3>1, <1>3, <1>5
  <2>2. ASSUME NEW i \in 1 .. n, NEW j \in 1 .. n, i < j
        PROVE  PairOK(Tail(s)[i], g[i], Tail(s)[j])
    <3>1. g[i] = ph[i + 1] /\ i + 1 \in 1 .. n + 1 /\ j + 1 \in 1 .. n + 1 /\ i + 1 < j + 1
      BY <1>6, <2>2
    <3> QED BY <3>1, <1>3, <1>5
  <2> QED BY <1>3, <2>1, <2>2 DEF Settled
<1>9. Tracked(Tail(s), ph[1], b, P, S, d, R)
  BY <1>7, <1>8 DEF Tracked
<1>10. \A j \in DOMAIN Tail(s) : PairOK(Head(s), ph[1], Tail(s)[j])
  <2>1. ASSUME NEW j \in 1 .. n PROVE PairOK(s[1], ph[1], s[j + 1])
    <3>1. 1 \in 1 .. n + 1 /\ j + 1 \in 1 .. n + 1 /\ 1 < j + 1
      OBVIOUS
    <3> QED BY <3>1, <1>5
  <2> QED BY <1>3, <2>1
<1>11. /\ ph[1] \in Stages /\ a \in Stages /\ b \in Stages /\ ph[1].n <= b.n
       /\ Fits(Head(s), a, ph[1]) /\ ItemOK(Head(s), ph[1], P, S, d, R)
  <2>1. /\ 1 \in 0 .. n + 1 /\ 0 \in 0 .. n + 1 /\ n + 1 \in 0 .. n + 1 /\ 1 \in 1 .. n + 1
        /\ 1 - 1 = 0 /\ 1 <= n + 1
    OBVIOUS
  <2> QED BY <2>1, <1>3, <1>4, <1>5
<1> QED BY <1>9, <1>10, <1>11

\* Adding an item moves the last stage on.
LEMMA TrackedAppend ==
  ASSUME NEW s \in Seq(Items), NEW it \in Items, NEW a, NEW b, NEW c \in Stages,
         NEW P, NEW S, NEW d, NEW R,
         Tracked(s, a, b, P, S, d, R), Fits(it, b, c), ItemOK(it, c, P, S, d, R),
         IsStarting(it) => d = "command" /\ it.session = P /\ S.seeded
  PROVE  Tracked(Append(s, it), a, c, P, S, d, R)
<1>1. PICK ph : Numbers(s, ph, a, b) /\ Settled(s, ph, P, S, d, R)
  BY DEF Tracked
<1>2. PICK n \in Nat : n = Len(s)
  OBVIOUS
<1>3. PICK t : t = Append(s, it)
  OBVIOUS
<1>4. Len(t) = n + 1 /\ t[n + 1] = it /\ \A i \in 1 .. n : t[i] = s[i]
  BY <1>2, <1>3
<1>5. /\ ph \in [0 .. n -> Stages] /\ ph[0] = a /\ ph[n] = b
      /\ \A i \in 1 .. n : Fits(s[i], ph[i - 1], ph[i])
      /\ \A i, j \in 0 .. n : i <= j => ph[i].n <= ph[j].n
  BY <1>1, <1>2 DEF Numbers
<1>6. /\ \A i \in 1 .. n : ItemOK(s[i], ph[i], P, S, d, R)
      /\ \A i, j \in 1 .. n : i < j => PairOK(s[i], ph[i], s[j])
  BY <1>1, <1>2 DEF Settled
<1>7. PICK g : g = [i \in 0 .. n + 1 |-> IF i = n + 1 THEN c ELSE ph[i]]
  OBVIOUS
<1>8. g[n + 1] = c /\ \A i \in 0 .. n : g[i] = ph[i]
  BY <1>7
<1>9. b \in Stages /\ b.n <= c.n
  BY <1>5 DEF Fits, Stages
<1>10. \A i \in 1 .. n : PairOK(s[i], ph[i], it)
  BY <1>6 DEF PairOK, ItemOK
<1>11. \A p \in Stages : p.n \in Nat
  BY DEF Stages
<1> HIDE DEF Fits, ItemOK, PairOK, Stages
<1>12. Numbers(t, g, a, c)
  <2>1. g \in [0 .. n + 1 -> Stages] /\ g[0] = a
    BY <1>5, <1>7
  <2>2. ASSUME NEW i \in 1 .. n + 1 PROVE Fits(t[i], g[i - 1], g[i])
    <3>1. CASE i = n + 1
      <4>1. i - 1 = n /\ g[n] = b
        BY <3>1, <1>5, <1>8
      <4> QED BY <3>1, <4>1, <1>4, <1>8
    <3>2. CASE i \in 1 .. n
      <4>1. i - 1 \in 0 .. n /\ i \in 0 .. n
        BY <3>2
      <4> QED BY <3>2, <4>1, <1>4, <1>5, <1>8
    <3> QED BY <3>1, <3>2
  <2>3. ASSUME NEW i \in 0 .. n + 1, NEW j \in 0 .. n + 1, i <= j PROVE g[i].n <= g[j].n
    <3>1. CASE i = n + 1
      <4>1. j = n + 1
        BY <2>3, <3>1
      <4> QED BY <3>1, <4>1, <1>8, <1>11
    <3>2. CASE i \in 0 .. n /\ j = n + 1
      <4>1. ph[i].n <= b.n
        BY <3>2, <1>5
      <4> QED BY <3>2, <4>1, <1>5, <1>8, <1>9, <1>11
    <3>3. CASE i \in 0 .. n /\ j \in 0 .. n
      BY <2>3, <3>3, <1>5, <1>8
    <3> QED BY <3>1, <3>2, <3>3
  <2> QED BY <1>4, <1>8, <2>1, <2>2, <2>3 DEF Numbers
<1>13. Settled(t, g, P, S, d, R)
  <2>1. ASSUME NEW i \in 1 .. n + 1 PROVE ItemOK(t[i], g[i], P, S, d, R)
    <3>1. CASE i = n + 1
      BY <3>1, <1>4, <1>8
    <3>2. CASE i \in 1 .. n
      BY <3>2, <1>4, <1>6, <1>8
    <3> QED BY <3>1, <3>2
  <2>2. ASSUME NEW i \in 1 .. n + 1, NEW j \in 1 .. n + 1, i < j
        PROVE  PairOK(t[i], g[i], t[j])
    <3>1. i \in 1 .. n
      BY <2>2
    <3>2. CASE j = n + 1
      BY <3>1, <3>2, <1>4, <1>8, <1>10
    <3>3. CASE j \in 1 .. n
      BY <3>1, <3>3, <2>2, <1>4, <1>6, <1>8
    <3> QED BY <3>2, <3>3
  <2> QED BY <1>4, <2>1, <2>2 DEF Settled
<1> QED BY <1>3, <1>12, <1>13 DEF Tracked

\* What the runner does beside the queue leaves the queued items as they are: no
\* message that is over moves, and only a new session's start begins a starting
\* input.
LEMMA TrackedMoves ==
  ASSUME NEW s \in Seq(Items), NEW a, NEW b, NEW P \in Nat, NEW P2, NEW S, NEW S2, NEW d, NEW d2,
         NEW R, NEW R2, Tracked(s, a, b, P, S, d, R),
         \A r \in Requests : R[r].at = "over" => R2[r] = R[r],
         \/ P2 = P /\ S2 = S /\ (d2 = "command" => d = "command")
         \/ P2 = P + 1 /\ b.n <= P
  PROVE  Tracked(s, a, b, P2, S2, d2, R2)
<1>1. PICK ph : Numbers(s, ph, a, b) /\ Settled(s, ph, P, S, d, R)
  BY DEF Tracked
<1>2. PICK n \in Nat : n = Len(s)
  OBVIOUS
<1>3. /\ ph \in [0 .. n -> Stages] /\ \A i \in 0 .. n : ph[i].n <= b.n /\ ph[i].n \in Nat
  <2>1. ph \in [0 .. n -> Stages] /\ ph[n] = b /\ \A i, j \in 0 .. n : i <= j => ph[i].n <= ph[j].n
    BY <1>1, <1>2 DEF Numbers
  <2>2. n \in 0 .. n /\ \A i \in 0 .. n : i <= n
    OBVIOUS
  <2> QED BY <2>1, <2>2 DEF Stages
<1>4. /\ \A i \in 1 .. n : ItemOK(s[i], ph[i], P, S, d, R)
      /\ \A i, j \in 1 .. n : i < j => PairOK(s[i], ph[i], s[j])
  BY <1>1, <1>2 DEF Settled
<1>5. ASSUME NEW i \in 1 .. n PROVE ItemOK(s[i], ph[i], P2, S2, d2, R2)
  <2>1. ItemOK(s[i], ph[i], P, S, d, R) /\ s[i] \in Items
    BY <1>2, <1>4
  <2>2. s[i].tag = "step" => s[i].req \in Requests
    BY <2>1 DEF Items, Requests
  <2>3. ph[i].n \in Nat /\ (P2 = P + 1 /\ b.n <= P => ph[i].n # P2)
    <3>1. ph[i].n <= b.n /\ ph[i].n \in Nat /\ b.n \in Nat
      <4>1. n \in 0 .. n /\ ph[n] = b
        BY <1>1, <1>2 DEF Numbers
      <4>2. i \in 0 .. n
        OBVIOUS
      <4> QED BY <1>3, <4>1, <4>2
    <3> QED BY <3>1
  <2>4. ph[i].n # P2 \/ (P2 = P /\ S2 = S /\ (d2 = "command" => d = "command"))
    BY <2>3
  <2> QED BY <2>1, <2>2, <2>4 DEF ItemOK
<1>6. Settled(s, ph, P2, S2, d2, R2)
  BY <1>2, <1>4, <1>5 DEF Settled
<1> QED BY <1>1, <1>6 DEF Tracked

-------------------------------------------------------------------------------
(* Types: the runner's steps.                                              *)

\* The runner leaves the model thread's state alone.
LEMMA ModelKept ==
  ASSUME Typed, UNCHANGED <<up, model>>, posted' \in Nat, posted <= posted'
  PROVE  ModelTyped'
<1>1. posted \in Nat /\ started \in Nat /\ started <= posted
  BY DEF Typed, RunnerTyped, ModelTyped, Sessions
<1>2. started <= posted'
  BY <1>1
<1> QED BY <1>2 DEF Typed, ModelTyped, model, gate, steps

\* The end of a session, in any of the ways the runner comes to it.
LEMMA EndIs ==
  ASSUME RunnerTyped, NEW to \in {"CLOSING", "TERMINATED"}, End(to)
  PROVE  /\ state' = to /\ seeding' = "none" /\ startingDone' = TRUE
         /\ client' = client /\ system' = FALSE
         /\ request' \in [Requests -> [at : Messages, session : Sessions]]
         /\ \A r \in Requests :
              /\ request'[r].session = request[r].session
              /\ request[r].at \notin {"held", "fetching"} => request'[r] = request[r]
              /\ request[r].at = "held" => request'[r].at = "released"
              /\ request[r].at = "fetching" => request'[r].at = "cleared"
<1>1. Wake(TRUE) /\ TRUE \in BOOLEAN
  BY DEF End
<1>2. /\ request' \in [Requests -> [at : Messages, session : Sessions]]
      /\ \A r \in Requests :
           /\ request'[r].session = request[r].session
           /\ request[r].at \notin {"held", "fetching"} => request'[r] = request[r]
           /\ request[r].at = "held" => request'[r].at = "released"
           /\ request[r].at = "fetching" => request'[r].at = IF TRUE THEN "cleared" ELSE "fetching"
  BY <1>1, WakeIs
<1> QED BY <1>2 DEF End

\* A session that reaches its steps is stopped, and another goes on.
LEMMA StopAtIs ==
  ASSUME RunnerTyped, NEW reached \in BOOLEAN, StopAt(reached)
  PROVE  /\ state' \in {"READY", "RUNNING", "CLOSING", "TERMINATED"}
         /\ client' \in BOOLEAN /\ system' \in BOOLEAN
         /\ seeding' \in {"none", "command", "finish"} /\ startingDone' \in BOOLEAN
         /\ request' \in [Requests -> [at : Messages, session : Sessions]]
         /\ queue' \in Seq(Items)
<1>1. CASE reached
  <2>1. End("CLOSING") /\ Post(<<[tag |-> "ended"]>>)
    BY <1>1 DEF StopAt
  <2>2. queue \in Seq(Items) /\ client \in BOOLEAN
    BY DEF RunnerTyped
  <2> QED BY <2>1, <2>2, EndIs, PostIs, ItemsAre
<1>2. CASE ~reached
  BY <1>2 DEF StopAt, RunnerTyped, seeds
<1> QED BY <1>1, <1>2

\* The outside and the sessions.
LEMMA EnvironmentTyped ==
  ASSUME Typed, StartSession \/ StopSession \/ CleanupComplete \/ ClientConnects \/ ClientLeaves
                  \/ MediaReceived \/ \E r \in Requests : RequestArrives(r)
  PROVE  Typed'
<1> USE DEF Typed
<1>0. /\ posted \in Nat /\ RunnerTyped /\ queue \in Seq(Items)
      /\ client \in BOOLEAN /\ system \in BOOLEAN
  BY DEF RunnerTyped, Sessions
<1>1. CASE StartSession
  <2>1. PICK st \in SteppedKinds, l \in Limits, sd \in Seeds :
          start' = [stepped |-> st, limit |-> l, seeded |-> sd]
    BY <1>1 DEF StartSession
  <2>2. start' \in Starts
    BY <2>1, StepAssumption DEF Starts
  <2>3. PICK S : S = start'
    OBVIOUS
  <2>4. PICK t : t = IF system' THEN <<Connection("connected", FALSE, TRUE)>> ELSE <<>>
    OBVIOUS
  <2>5. <<SessionStarted(S)>> \in Seq(Items) /\ t \in Seq(Items)
    <3>1. PICK b \in BOOLEAN : b = (FALSE \/ TRUE)
      OBVIOUS
    <3>2. Connection("connected", FALSE, TRUE) = [tag |-> "connected", some |-> b]
      BY <3>1 DEF Connection
    <3> QED BY <2>2, <2>3, <2>4, <3>2, ItemsAre
  <2>6. <<SessionStarted(S)>> \o t \in Seq(Items)
    BY <2>5
  <2>7. Post(<<SessionStarted(S)>> \o t)
    BY <1>1, <2>3, <2>4 DEF StartSession
  <2>8. queue' \in Seq(Items)
    BY <1>0, <2>6, <2>7, PostIs
  <2>9. posted' = posted + 1 /\ posted' \in Sessions /\ posted' \in Nat
    BY <1>0, <1>1, StepAssumption DEF StartSession, Sessions
  <2>10. ModelTyped'
    BY <1>0, <1>1, <2>9, ModelKept DEF StartSession
  <2>11. /\ state' = "RUNNING" /\ completed' = 0 /\ stepsFailed' = FALSE
         /\ seeding' \in {"none", "command"} /\ startingDone' = ~start'.seeded
         /\ UNCHANGED <<client, joins, request, answers, hops, buffer>>
    BY <1>1 DEF StartSession, asks
  <2>12. startingDone' \in BOOLEAN /\ system' \in BOOLEAN
    <3>1. system' = (start'.seeded \/ Unattended(start'))
      BY <1>1 DEF StartSession
    <3> QED BY <2>11, <3>1
  <2> QED BY <2>2, <2>8, <2>9, <2>10, <2>11, <2>12 DEF RunnerTyped
<1>2. CASE StopSession
  <2>1. End("CLOSING") /\ Post(<<[tag |-> "ended"]>>)
    BY <1>2 DEF StopSession
  <2>2. queue' \in Seq(Items)
    BY <1>0, <2>1, PostIs, ItemsAre
  <2>3. ModelTyped'
    BY <1>0, <1>2, ModelKept DEF StopSession
  <2> QED BY <1>0, <1>2, <2>1, <2>2, <2>3, EndIs DEF StopSession, RunnerTyped, records
<1>3. CASE CleanupComplete
  <2>1. ModelTyped'
    BY <1>0, <1>3, ModelKept DEF CleanupComplete
  <2> QED BY <1>0, <1>3, <2>1 DEF CleanupComplete, RunnerTyped, seeds, asks, records
<1>4. CASE ClientConnects
  <2>1. <<Connection("connected", TRUE, system)>> \in Seq(Items)
    <3>1. PICK b \in BOOLEAN : b = (TRUE \/ system)
      OBVIOUS
    <3>2. Connection("connected", TRUE, system) = [tag |-> "connected", some |-> b]
      BY <3>1 DEF Connection
    <3> QED BY <3>2, ItemsAre
  <2>2. queue' \in Seq(Items)
    BY <1>0, <1>4, <2>1, PostIs DEF ClientConnects
  <2>3. ModelTyped'
    BY <1>0, <1>4, ModelKept DEF ClientConnects
  <2>4. joins' \in 0 .. MaxJoins
    BY <1>0, <1>4, StepAssumption DEF ClientConnects, RunnerTyped
  <2> QED BY <1>0, <1>4, <2>2, <2>3, <2>4 DEF ClientConnects, RunnerTyped, seeds, asks, records
<1>5. CASE ClientLeaves
  <2>1. <<Connection("disconnected", FALSE, system)>> \in Seq(Items)
    <3>1. PICK b \in BOOLEAN : b = (FALSE \/ system)
      OBVIOUS
    <3>2. Connection("disconnected", FALSE, system) = [tag |-> "disconnected", some |-> b]
      BY <3>1 DEF Connection
    <3> QED BY <3>2, ItemsAre
  <2>2. queue' \in Seq(Items)
    BY <1>0, <1>5, <2>1, PostIs DEF ClientLeaves
  <2>3. ModelTyped'
    BY <1>0, <1>5, ModelKept DEF ClientLeaves
  <2> QED BY <1>0, <1>5, <2>2, <2>3 DEF ClientLeaves, RunnerTyped, seeds, asks, records
<1>6. CASE MediaReceived
  <2>1. Bounded(buffer')
    BY <1>0, <1>6, PushedIs DEF MediaReceived, RunnerTyped
  <2>2. ModelTyped'
    BY <1>0, <1>6, ModelKept DEF MediaReceived, runner, session
  <2> QED BY <1>0, <1>6, <2>1, <2>2
          DEF MediaReceived, RunnerTyped, runner, session, seeds, asks, records
<1>7. CASE \E r \in Requests : RequestArrives(r)
  <2>1. PICK r \in Requests : RequestArrives(r)
    BY <1>7
  <2>2. ModelTyped'
    BY <1>0, <2>1, ModelKept DEF RequestArrives, session
  <2> QED BY <1>0, <2>1, <2>2 DEF RequestArrives, RunnerTyped, session, seeds, records, Messages
<1> QED BY <1>1, <1>2, <1>3, <1>4, <1>5, <1>6, <1>7

\* The starting input.
LEMMA StartingInputTyped ==
  ASSUME Typed, StartingInput
  PROVE  Typed'
<1> USE DEF Typed
<1>0. /\ posted \in Nat /\ RunnerTyped /\ queue \in Seq(Items)
      /\ client \in BOOLEAN /\ system \in BOOLEAN
  BY DEF RunnerTyped, Sessions
<1>1. CASE StartingCommandSubmitted
  <2>1. <<[tag |-> "command", req |-> System, session |-> posted]>> \in Seq(Items)
    BY <1>0, ItemsAre DEF RunnerTyped
  <2>2. queue' \in Seq(Items)
    BY <1>0, <1>1, <2>1, PostIs DEF StartingCommandSubmitted
  <2>3. ModelTyped'
    BY <1>0, <1>1, ModelKept DEF StartingCommandSubmitted, session
  <2> QED BY <1>0, <1>1, <2>2, <2>3 DEF StartingCommandSubmitted, RunnerTyped, session, asks, records
<1>2. CASE StartingCommandRefused
  <2>1. ModelTyped'
    BY <1>0, <1>2, ModelKept DEF StartingCommandRefused
  <2>2. CASE Unattended(start)
    <3>1. End("CLOSING") /\ Post(<<[tag |-> "ended"]>>)
      BY <1>2, <2>2 DEF StartingCommandRefused
    <3>2. queue' \in Seq(Items)
      BY <1>0, <3>1, PostIs, ItemsAre
    <3> QED BY <1>0, <1>2, <2>1, <3>1, <3>2, EndIs DEF StartingCommandRefused, RunnerTyped, records
  <2>3. CASE ~Unattended(start)
    BY <1>0, <1>2, <2>1, <2>3 DEF StartingCommandRefused, RunnerTyped, records
  <2> QED BY <2>2, <2>3
<1>3. CASE StartingInputApplied
  <2>1. Wake(FALSE) /\ FALSE \in BOOLEAN
    BY <1>3 DEF StartingInputApplied
  <2>2. request' \in [Requests -> [at : Messages, session : Sessions]]
    BY <1>0, <2>1, WakeIs
  <2>3. PICK t : t = IF system' = system THEN <<>>
                     ELSE <<Connection("disconnected", client, FALSE)>>
    OBVIOUS
  <2>4. t \in Seq(Items) /\ <<[tag |-> "applied"]>> \in Seq(Items)
    <3>1. PICK b \in BOOLEAN : b = (client \/ FALSE)
      OBVIOUS
    <3>2. Connection("disconnected", client, FALSE) = [tag |-> "disconnected", some |-> b]
      BY <3>1 DEF Connection
    <3> QED BY <2>3, <3>2, ItemsAre
  <2>5. t \o <<[tag |-> "applied"]>> \in Seq(Items)
    BY <2>4
  <2>6. Post(t \o <<[tag |-> "applied"]>>)
    BY <1>3, <2>3 DEF StartingInputApplied
  <2>7. queue' \in Seq(Items)
    BY <1>0, <2>5, <2>6, PostIs
  <2>8. ModelTyped'
    BY <1>0, <1>3, ModelKept DEF StartingInputApplied
  <2>9. system' \in BOOLEAN
    BY <1>3 DEF StartingInputApplied
  <2> QED BY <1>0, <1>3, <2>2, <2>7, <2>8, <2>9 DEF StartingInputApplied, RunnerTyped, records
<1> QED BY <1>1, <1>2, <1>3 DEF StartingInput

\* What the runner makes of the model thread's callbacks.
LEMMA ReportsTyped ==
  ASSUME Typed, Reports
  PROVE  Typed'
<1> USE DEF Typed
<1>0. /\ posted \in Nat /\ RunnerTyped /\ queue \in Seq(Items) /\ hops \in Seq(Callbacks)
      /\ answers \in [Requests -> Seq(Codes)] /\ completed \in Nat
  BY DEF RunnerTyped, Sessions
<1>1. hops # <<>> /\ hops' = Tail(hops)
  BY DEF Reports, RecordStep, EmitHandlerFailure, EvictOnFailure
<1>2. hops' \in Seq(Callbacks) /\ Head(hops) \in Callbacks
  BY <1>0, <1>1
<1>3. CASE RecordStep
  <2>1. PICK h \in Callbacks : h = Head(hops) /\ h.tag = "report"
    BY <1>2, <1>3 DEF RecordStep
  <2>2. h.req \in StepRequests \union {NoRequest} /\ h.index \in Nat
    BY <2>1 DEF Callbacks
  <2>3. completed' \in Nat
    BY <1>0, <1>3, <2>1, <2>2 DEF RecordStep
  <2>4. answers' \in [Requests -> Seq(Codes)]
    <3>1. CASE h.req = NoRequest
      BY <1>0, <1>3, <2>1, <3>1 DEF RecordStep
    <3>2. CASE h.req # NoRequest
      <4>1. h.req \in Requests
        BY <2>2, <3>2 DEF Requests
      <4>2. PICK code \in Codes : Answer(h.req, code)
        <5>1. CASE Late(h)
          BY <1>3, <2>1, <3>2, <5>1 DEF RecordStep, Codes
        <5>2. CASE ~Late(h)
          BY <1>3, <2>1, <3>2, <5>2 DEF RecordStep, Codes
        <5> QED BY <5>1, <5>2
      <4> QED BY <1>0, <4>1, <4>2, AnswerIs
    <3> QED BY <3>1, <3>2
  <2>5. PICK b \in BOOLEAN : StopAt(b)
    BY <1>3, <2>1 DEF RecordStep
  <2>6. ModelTyped'
    BY <1>0, <1>3, ModelKept DEF RecordStep
  <2> QED BY <1>0, <1>2, <1>3, <2>3, <2>4, <2>5, <2>6, StopAtIs DEF RecordStep, RunnerTyped
<1>4. CASE EmitHandlerFailure
  <2>1. PICK b \in BOOLEAN : StopAt(b) /\ stepsFailed' = (stepsFailed \/ b)
                             /\ completed' = IF b THEN start.limit ELSE completed
    <3> DEFINE f == Unattended(start) /\ Head(hops).session = posted /\ state = "RUNNING"
    <3>1. f \in BOOLEAN /\ StopAt(f) /\ stepsFailed' = (stepsFailed \/ f)
          /\ completed' = IF f THEN start.limit ELSE completed
      BY <1>4 DEF EmitHandlerFailure
    <3> QED BY <3>1
  <2>2. completed' \in Nat /\ stepsFailed' \in BOOLEAN
    BY <1>0, <2>1 DEF RunnerTyped, Starts
  <2>3. ModelTyped'
    BY <1>0, <1>4, ModelKept DEF EmitHandlerFailure
  <2> QED BY <1>0, <1>2, <1>4, <2>1, <2>2, <2>3, StopAtIs DEF EmitHandlerFailure, RunnerTyped
<1>5. CASE EvictOnFailure
  <2>1. End("TERMINATED")
    BY <1>5 DEF EvictOnFailure
  <2>2. ModelTyped'
    BY <1>0, <1>5, ModelKept DEF EvictOnFailure
  <2> QED BY <1>0, <1>2, <1>5, <2>1, <2>2, EndIs DEF EvictOnFailure, RunnerTyped, records
<1> QED BY <1>3, <1>4, <1>5 DEF Reports

-------------------------------------------------------------------------------
(* A client's messages.                                                    *)

CallOf(r) == [tag |-> "command", req |-> r, session |-> posted]
StepOf(r) == [tag |-> "step", req |-> r]

\* One item posted, or two.
LEMMA PostOne ==
  ASSUME queue \in Seq(Items), NEW x \in Items, Post(<<x>>)
  PROVE  queue' = IF up THEN Append(queue, x) ELSE queue
BY AppendIsConcat DEF Post

LEMMA PostTwo ==
  ASSUME queue \in Seq(Items), NEW x \in Items, NEW y \in Items, Post(<<x>> \o <<y>>)
  PROVE  queue' = IF up THEN Append(Append(queue, x), y) ELSE queue
<1>1. <<x>> \in Seq(Items) /\ <<y>> \in Seq(Items) /\ Append(queue, x) \in Seq(Items)
  OBVIOUS
<1>2. Append(queue, x) = queue \o <<x>>
  BY AppendIsConcat
<1>3. Append(Append(queue, x), y) = Append(queue, x) \o <<y>>
  BY <1>1, AppendIsConcat
<1>4. (queue \o <<x>>) \o <<y>> = queue \o (<<x>> \o <<y>>)
  BY <1>1, ConcatAssociative
<1> QED BY <1>2, <1>3, <1>4 DEF Post

\* A message given to the model: a command, or a step behind its call.
LEMMA SubmittedIs ==
  ASSUME RunnerTyped, NEW r \in Requests, Submitted(r)
  PROVE  /\ answers' = answers /\ CallOf(r) \in Items
         /\ ~up => queue' = queue
         /\ up /\ r \notin StepRequests => queue' = Append(queue, CallOf(r))
         /\ r \in StepRequests =>
              /\ StepOf(r) \in Items
              /\ up => \/ queue' = Append(queue, StepOf(r))
                       \/ queue' = Append(Append(queue, CallOf(r)), StepOf(r))
<1>0. queue \in Seq(Items) /\ posted \in Sessions
  BY DEF RunnerTyped
<1>1. PICK c \in Items : c = CallOf(r)
  BY <1>0 DEF CallOf, Items
<1>2. PICK calls \in IF r \in StepRequests THEN {0, 1} ELSE {1} :
        Post([i \in 1 .. calls |-> [tag |-> "command", req |-> r, session |-> posted]]
             \o IF r \in StepRequests THEN <<[tag |-> "step", req |-> r]>> ELSE <<>>)
  BY DEF Submitted
<1>3. [i \in 1 .. 1 |-> c] = <<c>> /\ [i \in 1 .. 0 |-> c] = <<>>
  OBVIOUS
<1>4. CASE r \notin StepRequests
  <2>1. calls = 1
    BY <1>2, <1>4
  <2>2. Post(<<c>> \o <<>>)
    BY <1>1, <1>2, <1>3, <1>4, <2>1 DEF CallOf
  <2>3. Post(<<c>>)
    <3>1. <<c>> \o <<>> = <<c>>
      OBVIOUS
    <3> QED BY <2>2, <3>1
  <2> QED BY <1>0, <1>1, <1>4, <2>3, PostOne DEF Submitted
<1>5. CASE r \in StepRequests
  <2>1. PICK s \in Items : s = StepOf(r)
    BY <1>5 DEF StepOf, Items
  <2>2. CASE calls = 0
    <3>1. Post(<<>> \o <<s>>)
      BY <1>1, <1>2, <1>3, <1>5, <2>1, <2>2 DEF CallOf, StepOf
    <3>2. <<>> \o <<s>> = <<s>>
      OBVIOUS
    <3>3. Post(<<s>>)
      BY <3>1, <3>2
    <3> QED BY <1>0, <1>1, <1>5, <2>1, <3>3, PostOne DEF Submitted
  <2>3. CASE calls = 1
    <3>1. Post(<<c>> \o <<s>>)
      BY <1>1, <1>2, <1>3, <1>5, <2>1, <2>3 DEF CallOf, StepOf
    <3> QED BY <1>0, <1>1, <1>5, <2>1, <3>1, PostTwo DEF Submitted
  <2> QED BY <1>2, <1>5, <2>2, <2>3
<1> QED BY <1>4, <1>5

\* Where a message may go from: it is answered, given to the model, or waits for
\* its upload; a step request only in a running session that steps.
LEMMA AdmitIs ==
  ASSUME RunnerTyped, NEW r \in Requests, Admit(r)
  PROVE  \/ \E code \in Codes : Rejected(r, code)
         \/ /\ request' = [request EXCEPT ![r] = [at |-> "over", session |-> posted]]
            /\ Submitted(r) /\ (r \in StepRequests => state = "RUNNING")
         \/ /\ request' = [request EXCEPT ![r] = [at |-> "fetching", session |-> posted]]
            /\ UNCHANGED <<answers, queue>> /\ (r \in StepRequests => state = "RUNNING")
<1>1. CASE r \in StepRequests /\ state # "RUNNING"
  BY <1>1 DEF Admit, Codes
<1>2. CASE r \in StepRequests /\ state = "RUNNING" /\ ~start.stepped
  BY <1>2 DEF Admit, Codes
<1>3. CASE /\ ~ (r \in StepRequests /\ state # "RUNNING")
           /\ ~ (r \in StepRequests /\ state = "RUNNING" /\ ~start.stepped)
  BY <1>3 DEF Admit, Codes
<1> QED BY <1>1, <1>2, <1>3

\* What a message's own step does: to its request, its answers and the queue.
MessageStep(r) ==
  /\ \A q \in Requests : q # r => request'[q] = request[q]
  /\ \/ \E code \in Codes :
          /\ Answer(r, code) /\ queue' = queue
          /\ request'[r] = [request[r] EXCEPT !.at = "over"]
     \/ /\ Submitted(r) /\ request'[r].at = "over"
        /\ request'[r].session = posted \/ request'[r].session = request[r].session
        /\ r \in StepRequests =>
             state = "RUNNING" /\ seeding # "command" /\ request'[r].session = posted
     \/ /\ UNCHANGED <<answers, queue>> /\ request'[r].at = "held" /\ ~startingDone
        /\ request'[r].session = request[r].session
     \/ /\ UNCHANGED <<answers, queue>> /\ request'[r] = [at |-> "fetching", session |-> posted]
        /\ startingDone /\ (r \in StepRequests => state = "RUNNING")

LEMMA MessageIs ==
  ASSUME Typed, RunnerInv, NEW r \in Requests, ClientMessage(r)
  PROVE  /\ MessageStep(r) /\ request[r].at \notin {"new", "over"}
         /\ request' \in [Requests -> [at : Messages, session : Sessions]]
         /\ UNCHANGED <<session, seeds, records, hops, buffer, up, model>>
<1>0. /\ RunnerTyped /\ request \in [Requests -> [at : Messages, session : Sessions]]
      /\ posted \in Sessions
  BY DEF Typed, RunnerTyped
<1>1. "over" \in Messages /\ "held" \in Messages /\ "fetching" \in Messages
  BY DEF Messages
<1>2. UNCHANGED <<session, seeds, records, hops, buffer, up, model>>
  BY DEF ClientMessage, RequestEnters, RequestReleased, UploadArrives, UploadMissing
<1>3. ASSUME NEW code \in Codes, Rejected(r, code)
      PROVE  MessageStep(r) /\ request' \in [Requests -> [at : Messages, session : Sessions]]
  <2>1. Answer(r, code) /\ queue' = queue /\ request' = [request EXCEPT ![r].at = "over"]
    BY <1>3 DEF Rejected, Leaves
  <2>2. request'[r] = [request[r] EXCEPT !.at = "over"]
    BY <1>0, <2>1
  <2> QED BY <1>0, <1>1, <2>1, <2>2 DEF MessageStep
<1>4. ASSUME Admit(r), startingDone
      PROVE  MessageStep(r) /\ request' \in [Requests -> [at : Messages, session : Sessions]]
  <2>1. CASE \E code \in Codes : Rejected(r, code)
    BY <2>1, <1>3
  <2>2. CASE /\ request' = [request EXCEPT ![r] = [at |-> "over", session |-> posted]]
             /\ Submitted(r) /\ (r \in StepRequests => state = "RUNNING")
    <3>1. seeding # "command"
      BY <1>4 DEF RunnerInv
    <3>2. request'[r].at = "over" /\ request'[r].session = posted
      BY <1>0, <2>2
    <3> QED BY <1>0, <1>1, <2>2, <3>1, <3>2 DEF MessageStep
  <2>3. CASE /\ request' = [request EXCEPT ![r] = [at |-> "fetching", session |-> posted]]
             /\ UNCHANGED <<answers, queue>> /\ (r \in StepRequests => state = "RUNNING")
    BY <1>0, <1>1, <1>4, <2>3 DEF MessageStep
  <2> QED BY <1>0, <1>4, <2>1, <2>2, <2>3, AdmitIs
<1>5. CASE RequestEnters(r)
  <2>1. CASE startingDone
    BY <1>2, <1>4, <1>5, <2>1 DEF RequestEnters
  <2>2. CASE ~startingDone
    <3>1. request' = [request EXCEPT ![r].at = "held"] /\ UNCHANGED <<answers, queue>>
      BY <1>5, <2>2 DEF RequestEnters
    <3> QED BY <1>0, <1>1, <1>2, <1>5, <2>2, <3>1 DEF MessageStep, RequestEnters
  <2> QED BY <2>1, <2>2
<1>6. CASE RequestReleased(r)
  <2>1. startingDone
    BY <1>6 DEF RequestReleased, RunnerInv
  <2> QED BY <1>2, <1>4, <1>6, <2>1 DEF RequestReleased
<1>7. CASE UploadArrives(r)
  <2>1. request' = [request EXCEPT ![r].at = "over"] /\ Submitted(r) /\ request[r].at = "fetching"
    BY <1>7 DEF UploadArrives, Leaves
  <2>2. r \in StepRequests => state = "RUNNING" /\ seeding # "command" /\ request[r].session = posted
    BY <2>1 DEF RunnerInv
  <2>3. request'[r].at = "over" /\ request'[r].session = request[r].session
    BY <1>0, <2>1
  <2> QED BY <1>0, <1>1, <1>2, <2>1, <2>2, <2>3 DEF MessageStep
<1>8. CASE UploadMissing(r)
  <2>1. Rejected(r, "REFUSED") /\ "REFUSED" \in Codes
    BY <1>8 DEF UploadMissing, Codes
  <2> QED BY <1>2, <1>3, <1>8, <2>1 DEF UploadMissing
<1> QED BY <1>5, <1>6, <1>7, <1>8 DEF ClientMessage

LEMMA MessageTyped ==
  ASSUME Typed, RunnerInv, NEW r \in Requests, ClientMessage(r)
  PROVE  Typed'
<1>0. /\ MessageStep(r) /\ request' \in [Requests -> [at : Messages, session : Sessions]]
      /\ UNCHANGED <<session, seeds, records, hops, buffer, up, model>>
  BY MessageIs
<1>1. /\ RunnerTyped /\ queue \in Seq(Items) /\ answers \in [Requests -> Seq(Codes)]
      /\ posted \in Nat
  BY DEF Typed, RunnerTyped, Sessions
<1>2. answers' \in [Requests -> Seq(Codes)] /\ queue' \in Seq(Items)
  <2>1. CASE \E code \in Codes : Answer(r, code) /\ queue' = queue
    BY <1>1, <2>1, AnswerIs
  <2>2. CASE Submitted(r)
    <3>1. queue' = queue \/ queue' = Append(queue, CallOf(r))
          \/ (r \in StepRequests /\ queue' = Append(queue, StepOf(r)))
          \/ (r \in StepRequests /\ queue' = Append(Append(queue, CallOf(r)), StepOf(r)))
      BY <1>1, <2>2, SubmittedIs DEF Typed, ModelTyped
    <3>2. answers' = answers /\ CallOf(r) \in Items /\ (r \in StepRequests => StepOf(r) \in Items)
      BY <1>1, <2>2, SubmittedIs
    <3>3. Append(queue, CallOf(r)) \in Seq(Items)
      BY <1>1, <3>2
    <3>4. r \in StepRequests =>
            /\ Append(queue, StepOf(r)) \in Seq(Items)
            /\ Append(Append(queue, CallOf(r)), StepOf(r)) \in Seq(Items)
      BY <1>1, <3>2, <3>3
    <3> QED BY <1>1, <3>1, <3>2, <3>3, <3>4
  <2>3. CASE UNCHANGED <<answers, queue>>
    BY <1>1, <2>3
  <2> QED BY <1>0, <2>1, <2>2, <2>3 DEF MessageStep
<1>3. ModelTyped'
  BY <1>0, <1>1, ModelKept DEF session
<1> QED BY <1>0, <1>1, <1>2, <1>3 DEF Typed, RunnerTyped, session, seeds, records

-------------------------------------------------------------------------------
(* The model thread's steps: the inbound loop.                             *)

RunTypes == [at : Points, woken : BOOLEAN, drops : Nat, served : Sessions, session : Sessions,
             req : StepRequests \union {NoRequest}]

\* The item in hand, and what is left of the queue.
LEMMA NextItem ==
  ASSUME Typed, NEW tag, NextIs(tag)
  PROVE  /\ up /\ inbound.at = "idle" /\ queue # <<>> /\ queue \in Seq(Items)
         /\ Head(queue) \in Items /\ Head(queue).tag = tag
         /\ queue' = Tail(queue) /\ queue' \in Seq(Items)
BY DEF Typed, RunnerTyped, NextIs

\* The gate follows its parts, a drop of it is counted, and run() stays where it
\* is.
LEMMA UpdateLiveIs ==
  ASSUME Typed, UpdateLive, connected' \in BOOLEAN, active' \in BOOLEAN,
         seedPending' \in BOOLEAN, stepped' \in BOOLEAN
  PROVE  /\ live' \in BOOLEAN /\ live' = (connected' /\ active' /\ ~seedPending' /\ ~stepped')
         /\ gateDrops' \in Nat
         /\ gateDrops' = IF live /\ ~live' THEN gateDrops + 1 ELSE gateDrops
         /\ run' \in RunTypes
         /\ run'.at = run.at /\ run'.drops = run.drops /\ run'.served = run.served
         /\ run'.session = run.session /\ run'.req = run.req
<1>1. PICK open \in BOOLEAN : open = (connected' /\ active' /\ ~seedPending' /\ ~stepped')
  OBVIOUS
<1>2. /\ live' = open /\ gateDrops' = gateDrops + (IF live /\ ~open THEN 1 ELSE 0)
      /\ run' = [run EXCEPT !.woken = @ \/ (run.at = "turn" /\ open)]
  BY <1>1 DEF UpdateLive
<1>3. run \in RunTypes /\ gateDrops \in Nat /\ live \in BOOLEAN
  BY DEF Typed, ModelTyped, RunTypes
<1>4. PICK k \in BOOLEAN : k = (run.woken \/ (run.at = "turn" /\ open))
  OBVIOUS
<1>5. run' = [run EXCEPT !.woken = k]
  BY <1>2, <1>4
<1>6. /\ run' \in RunTypes
      /\ run'.at = run.at /\ run'.drops = run.drops /\ run'.served = run.served
      /\ run'.session = run.session /\ run'.req = run.req
  BY <1>3, <1>5 DEF RunTypes
<1> QED BY <1>1, <1>2, <1>3, <1>6

\* The dispatch comes to the lock with its item.
LEMMA WantsLockIs ==
  ASSUME Typed, queue # <<>>, WantsLock
  PROVE  /\ inbound'.at = "lock" /\ inbound'.item = Head(queue)
         /\ inbound' \in [at : {"idle", "lock", "await"}, item : Items \union {[tag |-> "none"]}]
         /\ lock' = IF lock = "free" THEN "inbound" ELSE lock
         /\ lock' \in {"free", "run", "inbound"}
<1>1. Head(queue) \in Items
  BY DEF Typed, RunnerTyped
<1> QED BY <1>1 DEF WantsLock, Typed, ModelTyped

\* Where the model is, and where its next item takes it.
LEMMA HeadMoves ==
  ASSUME Typed, QueueInv, up, queue # <<>>
  PROVE  \E c \in Stages :
           /\ Now \in Stages /\ Then \in Stages /\ c.n <= posted
           /\ Fits(Head(queue), Now, c)
           /\ ItemOK(Head(queue), c, posted, start, seeding, request)
           /\ \A j \in DOMAIN Tail(queue) : PairOK(Head(queue), c, Tail(queue)[j])
           /\ Tracked(Tail(queue), c, Then, posted, start, seeding, request)
<1>1. PICK a, b : a = Now /\ b = Then
  OBVIOUS
<1>2. queue \in Seq(Items) /\ b.n = posted
  BY <1>1 DEF Typed, RunnerTyped, Then, Stage
<1>3. Tracked(queue, a, b, posted, start, seeding, request)
  BY <1>1 DEF QueueInv
<1>4. \E c \in Stages :
           /\ a \in Stages /\ b \in Stages /\ c.n <= b.n
           /\ Fits(Head(queue), a, c) /\ ItemOK(Head(queue), c, posted, start, seeding, request)
           /\ \A j \in DOMAIN Tail(queue) : PairOK(Head(queue), c, Tail(queue)[j])
           /\ Tracked(Tail(queue), c, b, posted, start, seeding, request)
  BY <1>2, <1>3, TrackedTail
<1> QED BY <1>1, <1>2, <1>4

\* A session starts only after the one before has ended, and ends once.
LEMMA BoundariesAlternate ==
  ASSUME Typed, QueueInv, up, queue # <<>>
  PROVE  /\ Head(queue).tag = "started" => ~active /\ started + 1 <= posted
         /\ Head(queue).tag = "ended" => active
<1>1. PICK c \in Stages : c.n <= posted /\ Fits(Head(queue), Now, c)
  BY HeadMoves
<1>2. active \in BOOLEAN /\ Now.n = started /\ Now.on = IF active THEN "open" ELSE "shut"
  BY DEF Typed, ModelTyped, Now, Stage
<1> QED BY <1>1, <1>2 DEF Fits

\* Clients come and go.
LEMMA ConnectionStep ==
  ASSUME Typed, ModelInv, DispatchConnection
  PROVE  Typed' /\ ModelInv'
<1>1. PICK tag \in {"connected", "disconnected"} : NextIs(tag)
  BY DEF DispatchConnection
<1>2. /\ up /\ inbound.at = "idle" /\ queue # <<>> /\ Head(queue) \in Items /\ Head(queue).tag = tag
      /\ queue' \in Seq(Items)
  BY <1>1, NextItem
<1>3. connected' = Head(queue).some /\ connected' \in BOOLEAN
  BY <1>1, <1>2 DEF DispatchConnection, Items
<1>4. /\ UpdateLive /\ UNCHANGED <<active, seedPending, stepped>>
      /\ active' \in BOOLEAN /\ seedPending' \in BOOLEAN /\ stepped' \in BOOLEAN
  BY DEF DispatchConnection, Typed, ModelTyped
<1>5. /\ live' \in BOOLEAN /\ live' = (connected' /\ active' /\ ~seedPending' /\ ~stepped')
      /\ gateDrops' \in Nat
      /\ gateDrops' = IF live /\ ~live' THEN gateDrops + 1 ELSE gateDrops
      /\ run' \in RunTypes
      /\ run'.at = run.at /\ run'.drops = run.drops /\ run'.served = run.served
      /\ run'.session = run.session /\ run'.req = run.req
  BY <1>3, <1>4, UpdateLiveIs
<1>6. /\ UNCHANGED <<started, accepted, limit, failedCalls, appState, pending>>
      /\ UNCHANGED <<runner, answers, hops, buffer, up>>
  BY DEF DispatchConnection
<1>7. /\ inbound' \in [at : {"idle", "lock", "await"}, item : Items \union {[tag |-> "none"]}]
      /\ lock' \in {"free", "run", "inbound"}
      /\ \/ inbound' = inbound /\ lock' = lock
         \/ /\ inbound'.at = "lock" /\ inbound'.item = Head(queue)
            /\ lock' = IF lock = "free" THEN "inbound" ELSE lock
  <2>1. CASE WantsLock
    BY <1>2, <2>1, WantsLockIs
  <2>2. CASE Done
    BY <2>2 DEF Done, Typed, ModelTyped
  <2> QED BY <2>1, <2>2 DEF DispatchConnection
<1>8. Typed'
  BY <1>2, <1>3, <1>4, <1>5, <1>6, <1>7
     DEF Typed, RunnerTyped, ModelTyped, RunTypes, runner, session, seeds, asks, records
<1>9. LockOK'
  BY <1>1, <1>2, <1>5, <1>6, <1>7 DEF ModelInv, LockOK, StepPoints
<1>10. GateOK'
  BY <1>2, <1>4, <1>5, <1>6, <1>7 DEF Typed, ModelTyped, ModelInv, LockOK, GateOK, Passing
<1>11. AppOK'
  BY <1>1, <1>2, <1>4, <1>5, <1>6, <1>7 DEF ModelInv, LockOK, AppOK, InHand, StepPoints
<1>12. AskOK'
  BY <1>2, <1>4, <1>5, <1>6, <1>7 DEF ModelInv, LockOK, AskOK, Asked
<1> QED BY <1>2, <1>6, <1>8, <1>9, <1>10, <1>11, <1>12 DEF ModelInv, DownOK

\* A session starts: the one before left nothing of its own.
LEMMA SessionStartedStep ==
  ASSUME Typed, ModelInv, QueueInv, DispatchSessionStarted
  PROVE  Typed' /\ ModelInv'
<1>1. NextIs("started")
  BY DEF DispatchSessionStarted
<1>2. /\ up /\ inbound.at = "idle" /\ queue # <<>> /\ Head(queue) \in Items
      /\ Head(queue).tag = "started" /\ queue' \in Seq(Items)
  BY <1>1, NextItem
<1>3. ~active /\ started + 1 <= posted
  BY <1>2, BoundariesAlternate
<1>4. /\ Head(queue).start \in Starts /\ seedPending' = Head(queue).start.seeded
      /\ stepped' = Head(queue).start.stepped /\ limit' = Head(queue).start.limit
      /\ UpdateLive /\ started' = started + 1 /\ active' = TRUE /\ accepted' = 0
      /\ connected' = connected
  BY <1>2 DEF DispatchSessionStarted, Items
<1>5. /\ seedPending' \in BOOLEAN /\ stepped' \in BOOLEAN /\ limit' \in Nat /\ active' \in BOOLEAN
      /\ connected' \in BOOLEAN
  BY <1>4 DEF Starts, Typed, ModelTyped
<1>6. /\ live' \in BOOLEAN /\ live' = (connected' /\ active' /\ ~seedPending' /\ ~stepped')
      /\ gateDrops' \in Nat
      /\ gateDrops' = IF live /\ ~live' THEN gateDrops + 1 ELSE gateDrops
      /\ run' \in RunTypes
      /\ run'.at = run.at /\ run'.drops = run.drops /\ run'.served = run.served
      /\ run'.session = run.session /\ run'.req = run.req
  BY <1>4, <1>5, UpdateLiveIs
<1>7. UNCHANGED <<failedCalls, appState, pending, runner, answers, hops, buffer, up>>
  BY DEF DispatchSessionStarted
<1>8. /\ inbound'.at = "lock" /\ inbound'.item = Head(queue)
      /\ inbound' \in [at : {"idle", "lock", "await"}, item : Items \union {[tag |-> "none"]}]
      /\ lock' = IF lock = "free" THEN "inbound" ELSE lock
      /\ lock' \in {"free", "run", "inbound"}
  BY <1>2, WantsLockIs DEF DispatchSessionStarted
<1>9. /\ started \in Nat /\ posted \in Nat /\ started' \in Sessions /\ started' <= posted
      /\ MaxSessions \in Nat
  BY <1>3, <1>4, StepAssumption DEF Typed, RunnerTyped, ModelTyped, Sessions
<1>10. Typed'
  BY <1>2, <1>4, <1>5, <1>6, <1>7, <1>8, <1>9
     DEF Typed, RunnerTyped, ModelTyped, RunTypes, runner, session, seeds, asks, records
<1>11. /\ LockOK /\ GateOK /\ AppOK /\ AskOK
  BY <1>2 DEF ModelInv
<1>12. ~live /\ appState = 0 /\ pending = NoRequest
  BY <1>2, <1>3, <1>9, <1>11 DEF GateOK, AppOK, AskOK, InHand
<1>13. run.at \notin StepPoints \union {"lock"} /\ lock = "free"
  <2>1. run.at \notin StepPoints
    BY <1>9, <1>11, <1>12 DEF AppOK
  <2>2. lock # "inbound"
    BY <1>2, <1>11 DEF LockOK
  <2>3. ~ (run.at = "lock" /\ lock = "run")
    BY <1>9, <1>11, <1>12 DEF AppOK
  <2>4. lock \in {"free", "run", "inbound"}
    BY DEF Typed, ModelTyped
  <2> QED BY <2>1, <2>2, <2>3, <2>4, <1>11 DEF LockOK
<1>14. run.at \in Passing => run.drops < gateDrops
  BY <1>11, <1>12 DEF GateOK
<1>15. LockOK'
  BY <1>2, <1>6, <1>8, <1>11, <1>13 DEF LockOK, StepPoints
<1>16. GateOK'
  <2>1. run'.at \notin {"lock", "input", "output"}
    BY <1>6, <1>13 DEF StepPoints
  <2>2. run'.at \in Passing => run'.drops < gateDrops'
    BY <1>6, <1>12, <1>14
  <2>3. started' > 0
    BY <1>4, <1>9
  <2> QED BY <1>6, <2>1, <2>2, <2>3 DEF GateOK
<1>17. AppOK'
  BY <1>2, <1>4, <1>6, <1>7, <1>8, <1>12, <1>13 DEF AppOK, InHand
<1>18. AskOK'
  BY <1>6, <1>7, <1>8, <1>12, <1>13 DEF AskOK, Asked, StepPoints
<1> QED BY <1>2, <1>7, <1>10, <1>15, <1>16, <1>17, <1>18 DEF ModelInv, DownOK

\* The starting input is in.
LEMMA InputAppliedStep ==
  ASSUME Typed, ModelInv, DispatchStartingInputApplied
  PROVE  Typed' /\ ModelInv'
<1>1. NextIs("applied")
  BY DEF DispatchStartingInputApplied
<1>2. up /\ inbound.at = "idle" /\ queue' \in Seq(Items)
  BY <1>1, NextItem
<1>3. /\ UpdateLive /\ UNCHANGED <<active, connected, stepped>> /\ seedPending' = FALSE
      /\ active' \in BOOLEAN /\ connected' \in BOOLEAN /\ stepped' \in BOOLEAN
      /\ seedPending' \in BOOLEAN
  BY DEF DispatchStartingInputApplied, Typed, ModelTyped
<1>4. /\ live' \in BOOLEAN /\ live' = (connected' /\ active' /\ ~seedPending' /\ ~stepped')
      /\ gateDrops' \in Nat
      /\ gateDrops' = IF live /\ ~live' THEN gateDrops + 1 ELSE gateDrops
      /\ run' \in RunTypes
      /\ run'.at = run.at /\ run'.drops = run.drops /\ run'.served = run.served
      /\ run'.session = run.session /\ run'.req = run.req
  BY <1>3, UpdateLiveIs
<1>5. /\ UNCHANGED <<started, accepted, limit, failedCalls, appState, pending, inbound, lock>>
      /\ UNCHANGED <<runner, answers, hops, buffer, up>>
  BY DEF DispatchStartingInputApplied, Done
<1>6. Typed'
  BY <1>2, <1>3, <1>4, <1>5
     DEF Typed, RunnerTyped, ModelTyped, RunTypes, runner, session, seeds, asks, records
<1>7. LockOK'
  BY <1>2, <1>4, <1>5 DEF ModelInv, LockOK, StepPoints
<1>8. GateOK'
  BY <1>2, <1>3, <1>4, <1>5 DEF Typed, ModelTyped, ModelInv, LockOK, GateOK, Passing
<1>9. AppOK'
  BY <1>2, <1>3, <1>4, <1>5 DEF ModelInv, AppOK, InHand, StepPoints
<1>10. AskOK'
  BY <1>2, <1>3, <1>4, <1>5 DEF ModelInv, AskOK, Asked
<1> QED BY <1>2, <1>5, <1>6, <1>7, <1>8, <1>9, <1>10 DEF ModelInv, DownOK

\* A session ends: the gate drops before its hook has the lock.
LEMMA SessionEndedStep ==
  ASSUME Typed, ModelInv, QueueInv, DispatchSessionEnded
  PROVE  Typed' /\ ModelInv'
<1>1. NextIs("ended")
  BY DEF DispatchSessionEnded
<1>2. /\ up /\ inbound.at = "idle" /\ queue # <<>> /\ Head(queue) \in Items
      /\ Head(queue).tag = "ended" /\ queue' \in Seq(Items)
  BY <1>1, NextItem
<1>3. active
  BY <1>2, BoundariesAlternate
<1>4. /\ UpdateLive /\ active' = FALSE /\ seedPending' = FALSE /\ connected' = FALSE
      /\ failedCalls' = {} /\ stepped' = stepped
      /\ active' \in BOOLEAN /\ connected' \in BOOLEAN /\ stepped' \in BOOLEAN
      /\ seedPending' \in BOOLEAN
  BY DEF DispatchSessionEnded, Typed, ModelTyped
<1>5. /\ live' \in BOOLEAN /\ live' = (connected' /\ active' /\ ~seedPending' /\ ~stepped')
      /\ gateDrops' \in Nat
      /\ gateDrops' = IF live /\ ~live' THEN gateDrops + 1 ELSE gateDrops
      /\ run' \in RunTypes
      /\ run'.at = run.at /\ run'.drops = run.drops /\ run'.served = run.served
      /\ run'.session = run.session /\ run'.req = run.req
  BY <1>4, UpdateLiveIs
<1>6. UNCHANGED <<started, accepted, limit, appState, pending, runner, answers, hops, buffer, up>>
  BY DEF DispatchSessionEnded
<1>7. /\ inbound'.at = "lock" /\ inbound'.item = Head(queue)
      /\ inbound' \in [at : {"idle", "lock", "await"}, item : Items \union {[tag |-> "none"]}]
      /\ lock' = IF lock = "free" THEN "inbound" ELSE lock
      /\ lock' \in {"free", "run", "inbound"}
  BY <1>2, WantsLockIs DEF DispatchSessionEnded
<1>8. Typed'
  BY <1>2, <1>4, <1>5, <1>6, <1>7
     DEF Typed, RunnerTyped, ModelTyped, RunTypes, runner, session, seeds, asks, records
<1>9. LockOK /\ GateOK /\ AppOK /\ AskOK /\ gateDrops \in Nat /\ run.drops \in Nat
  BY <1>2 DEF ModelInv, Typed, ModelTyped
<1>10. LockOK'
  BY <1>2, <1>5, <1>7, <1>9 DEF LockOK, StepPoints
<1>11. GateOK'
  <2>1. lock # "inbound"
    BY <1>2, <1>9 DEF LockOK
  <2>2. ~ (run'.at = "lock" /\ lock' = "inbound")
    BY <1>5, <1>7, <1>9, <2>1 DEF LockOK
  <2>3. run'.at \in Passing => run'.drops < gateDrops'
    BY <1>4, <1>5, <1>9 DEF GateOK
  <2> QED BY <1>4, <1>5, <1>6, <1>9, <2>2, <2>3 DEF GateOK
<1>12. AppOK'
  BY <1>2, <1>3, <1>4, <1>5, <1>6, <1>7, <1>9 DEF LockOK, GateOK, AppOK, InHand, StepPoints
<1>13. AskOK'
  BY <1>2, <1>4, <1>5, <1>6, <1>7, <1>9 DEF AskOK, Asked
<1> QED BY <1>2, <1>6, <1>8, <1>10, <1>11, <1>12, <1>13 DEF ModelInv, DownOK

\* A command comes to the lock, or is skipped.
LEMMA DispatchCommandStep ==
  ASSUME Typed, ModelInv, DispatchCommand
  PROVE  Typed' /\ ModelInv'
<1>1. /\ up /\ inbound.at = "idle" /\ queue # <<>> /\ Head(queue) \in Items
      /\ Head(queue).tag = "command" /\ queue' \in Seq(Items)
  BY NextItem DEF DispatchCommand
<1>2. /\ UNCHANGED <<started, gate, steps, appState, pending, run>>
      /\ UNCHANGED <<runner, answers, hops, buffer, up>>
  BY DEF DispatchCommand
<1>3. /\ inbound' \in [at : {"idle", "lock", "await"}, item : Items \union {[tag |-> "none"]}]
      /\ lock' \in {"free", "run", "inbound"}
      /\ \/ inbound' = inbound /\ lock' = lock
         \/ /\ inbound'.at = "lock" /\ inbound'.item = Head(queue)
            /\ lock' = IF lock = "free" THEN "inbound" ELSE lock
  <2>1. CASE WantsLock
    BY <1>1, <2>1, WantsLockIs
  <2>2. CASE Done
    BY <2>2 DEF Done, Typed, ModelTyped
  <2> QED BY <2>1, <2>2 DEF DispatchCommand
<1>4. Typed'
  BY <1>1, <1>2, <1>3
     DEF Typed, RunnerTyped, ModelTyped, gate, steps, runner, session, seeds, asks, records
<1>5. LockOK'
  BY <1>1, <1>2, <1>3 DEF ModelInv, LockOK
<1>6. GateOK'
  BY <1>1, <1>2, <1>3 DEF ModelInv, LockOK, GateOK, gate, steps
<1>7. AppOK'
  BY <1>1, <1>2, <1>3 DEF ModelInv, LockOK, AppOK, InHand, gate
<1>8. AskOK'
  BY <1>1, <1>2, <1>3 DEF ModelInv, LockOK, AskOK, gate, steps
<1> QED BY <1>1, <1>2, <1>4, <1>5, <1>6, <1>7, <1>8 DEF ModelInv, DownOK

\* A refusal is an answer.
LEMMA RefusalIs ==
  ASSUME Typed, NEW r \in Requests, NEW s, NEW code \in Codes, Refusal(r, s, code)
  PROVE  \E k \in Codes : Answer(r, k)
<1>1. "SESSION_ENDED" \in Codes
  BY DEF Codes
<1>2. CASE s = posted
  BY <1>2 DEF Refusal
<1>3. CASE s # posted
  BY <1>1, <1>3 DEF Refusal
<1> QED BY <1>2, <1>3

\* A step's dispatch answers it, or hands it to run().
LEMMA DispatchStepIs ==
  ASSUME Typed, ModelInv, DispatchStep
  PROVE  \E r \in StepRequests :
           /\ r = Head(queue).req /\ queue # <<>> /\ Head(queue).tag = "step" /\ up
           /\ inbound.at = "idle" /\ queue' = Tail(queue) /\ queue' \in Seq(Items)
           /\ UNCHANGED <<started, gate, stepped, accepted, limit, appState, lock>>
           /\ UNCHANGED <<runner, hops, buffer, up>>
           /\ failedCalls' \in SUBSET StepRequests
           /\ \/ (\E k \in Codes : Answer(r, k)) /\ UNCHANGED <<inbound, pending, run>>
              \/ /\ ~StepClosed /\ answers' = answers /\ pending' = r
                 /\ inbound'.at = "await" /\ inbound'.item = Head(queue)
                 /\ inbound' \in [at : {"idle", "lock", "await"},
                                  item : Items \union {[tag |-> "none"]}]
                 /\ run' \in RunTypes
                 /\ run'.at = run.at /\ run'.drops = run.drops /\ run'.served = run.served
                 /\ run'.session = run.session /\ run'.req = run.req
<1>1. /\ up /\ inbound.at = "idle" /\ queue # <<>> /\ Head(queue) \in Items
      /\ Head(queue).tag = "step" /\ queue' = Tail(queue) /\ queue' \in Seq(Items)
  BY NextItem DEF DispatchStep
<1>2. PICK r \in StepRequests : r = Head(queue).req
  BY <1>1 DEF Items
<1>3. r \in Requests /\ {"COMMAND_FAILED", "REFUSED", "NOT_READY"} \in SUBSET Codes
  BY DEF Requests, Codes
<1>4. /\ UNCHANGED <<started, gate, stepped, accepted, limit, appState>>
      /\ UNCHANGED <<runner, hops, buffer, up>> /\ failedCalls' = failedCalls \ {r}
  BY <1>2 DEF DispatchStep
<1>5. failedCalls' \in SUBSET StepRequests
  BY <1>4 DEF Typed, ModelTyped
<1>6. CASE r \in failedCalls
  <2>1. Refusal(r, started, "COMMAND_FAILED") /\ UNCHANGED <<inbound, lock, pending, run>>
    BY <1>2, <1>6 DEF DispatchStep, Done
  <2>2. \E k \in Codes : Answer(r, k)
    BY <1>3, <2>1, RefusalIs
  <2> QED BY <1>1, <1>2, <1>4, <1>5, <2>1, <2>2
<1>7. CASE r \notin failedCalls /\ StepClosed
  <2>1. PICK code \in Codes : Refusal(r, started, code)
    <3>1. CASE active
      BY <1>2, <1>3, <1>7, <3>1 DEF DispatchStep
    <3>2. CASE ~active
      BY <1>2, <1>3, <1>7, <3>2 DEF DispatchStep
    <3> QED BY <3>1, <3>2
  <2>2. \E k \in Codes : Answer(r, k)
    BY <1>3, <2>1, RefusalIs
  <2>3. UNCHANGED <<inbound, lock, pending, run>>
    BY <1>2, <1>7 DEF DispatchStep, Done
  <2> QED BY <1>1, <1>2, <1>4, <1>5, <2>2, <2>3
<1>8. CASE r \notin failedCalls /\ ~StepClosed
  <2>1. /\ pending' = r /\ inbound' = [at |-> "await", item |-> Head(queue)]
        /\ run' = [run EXCEPT !.woken = @ \/ run.at = "turn"] /\ UNCHANGED <<lock, answers>>
    BY <1>2, <1>8 DEF DispatchStep
  <2>2. PICK k \in BOOLEAN : k = (run.woken \/ run.at = "turn")
    OBVIOUS
  <2>3. run' = [run EXCEPT !.woken = k] /\ run \in RunTypes
    BY <2>1, <2>2 DEF Typed, ModelTyped, RunTypes
  <2>4. /\ run' \in RunTypes
        /\ run'.at = run.at /\ run'.drops = run.drops /\ run'.served = run.served
        /\ run'.session = run.session /\ run'.req = run.req
    BY <2>3 DEF RunTypes
  <2>5. /\ inbound'.at = "await" /\ inbound'.item = Head(queue)
        /\ inbound' \in [at : {"idle", "lock", "await"}, item : Items \union {[tag |-> "none"]}]
    BY <1>1, <2>1
  <2> QED BY <1>1, <1>2, <1>4, <1>5, <1>8, <2>1, <2>4, <2>5
<1> QED BY <1>6, <1>7, <1>8

LEMMA DispatchStepStep ==
  ASSUME Typed, ModelInv, DispatchStep
  PROVE  Typed' /\ ModelInv'
<1>1. PICK r \in StepRequests :
           /\ r = Head(queue).req /\ queue # <<>> /\ Head(queue).tag = "step" /\ up
           /\ inbound.at = "idle" /\ queue' = Tail(queue) /\ queue' \in Seq(Items)
           /\ UNCHANGED <<started, gate, stepped, accepted, limit, appState, lock>>
           /\ UNCHANGED <<runner, hops, buffer, up>>
           /\ failedCalls' \in SUBSET StepRequests
           /\ \/ (\E k \in Codes : Answer(r, k)) /\ UNCHANGED <<inbound, pending, run>>
              \/ /\ ~StepClosed /\ answers' = answers /\ pending' = r
                 /\ inbound'.at = "await" /\ inbound'.item = Head(queue)
                 /\ inbound' \in [at : {"idle", "lock", "await"},
                                  item : Items \union {[tag |-> "none"]}]
                 /\ run' \in RunTypes
                 /\ run'.at = run.at /\ run'.drops = run.drops /\ run'.served = run.served
                 /\ run'.session = run.session /\ run'.req = run.req
  BY DispatchStepIs
<1>2. r \in Requests /\ r # NoRequest
  BY StepAssumption DEF Requests
<1>3. LockOK /\ GateOK /\ AppOK /\ AskOK /\ answers \in [Requests -> Seq(Codes)]
  BY <1>1 DEF ModelInv, Typed, RunnerTyped
<1>4. CASE (\E k \in Codes : Answer(r, k)) /\ UNCHANGED <<inbound, pending, run>>
  <2>1. answers' \in [Requests -> Seq(Codes)]
    BY <1>2, <1>3, <1>4, AnswerIs
  <2>2. Typed'
    BY <1>1, <1>4, <2>1
       DEF Typed, RunnerTyped, ModelTyped, gate, runner, session, seeds, asks, records
  <2>3. LockOK' /\ GateOK' /\ AppOK' /\ AskOK'
    BY <1>1, <1>3, <1>4 DEF LockOK, GateOK, AppOK, AskOK, InHand, gate
  <2> QED BY <1>1, <2>2, <2>3 DEF ModelInv, DownOK
<1>5. CASE /\ ~StepClosed /\ answers' = answers /\ pending' = r
           /\ inbound'.at = "await" /\ inbound'.item = Head(queue)
           /\ inbound' \in [at : {"idle", "lock", "await"}, item : Items \union {[tag |-> "none"]}]
           /\ run' \in RunTypes
           /\ run'.at = run.at /\ run'.drops = run.drops /\ run'.served = run.served
           /\ run'.session = run.session /\ run'.req = run.req
  <2>1. Typed'
    BY <1>1, <1>3, <1>5
       DEF Typed, RunnerTyped, ModelTyped, RunTypes, gate, runner, session, seeds, asks, records
  <2>2. active /\ stepped /\ (limit = 0 \/ accepted < limit) /\ limit \in Nat /\ accepted \in Nat
    BY <1>5 DEF StepClosed, Typed, ModelTyped
  <2>3. ~live /\ run.at \in Points
    BY <1>3, <2>2 DEF GateOK, Typed, ModelTyped
  <2>4. run.at \notin Asked /\ run.at # "over" /\ lock # "inbound"
    BY <1>1, <1>3 DEF LockOK, AskOK
  <2>5. run.at \notin {"lock", "input", "output"}
    BY <1>3, <2>2 DEF GateOK
  <2>6. LockOK'
    BY <1>1, <1>3, <1>5 DEF LockOK
  <2>7. GateOK'
    BY <1>1, <1>3, <1>5 DEF GateOK, gate
  <2>8. AppOK'
    BY <1>1, <1>3, <1>5 DEF AppOK, InHand, gate
  <2>9. AskOK'
    BY <1>1, <1>2, <1>5, <2>2, <2>3, <2>4, <2>5 DEF AskOK, gate, Points, Asked
  <2> QED BY <1>1, <2>1, <2>6, <2>7, <2>8, <2>9 DEF ModelInv, DownOK
<1> QED BY <1>1, <1>4, <1>5

\* The dispatch in hand is over, and the lock goes to run() if it waits.
LEMMA LockedIs ==
  ASSUME Typed, ModelInv, NEW tags, Locked(tags)
  PROVE  /\ up /\ lock = "inbound" /\ inbound.at = "lock" /\ inbound.item.tag \in tags
         /\ inbound' = Idle /\ lock' = (IF run.at = "lock" THEN "run" ELSE "free")
         /\ inbound' \in [at : {"idle", "lock", "await"}, item : Items \union {[tag |-> "none"]}]
         /\ inbound'.at = "idle" /\ inbound'.item.tag = "none"
         /\ lock' \in {"free", "run", "inbound"}
         /\ LockOK /\ GateOK /\ AppOK /\ AskOK
BY DEF Locked, ReleasedByInbound, ModelInv, LockOK, Idle

LEMMA ConnectionHookStep ==
  ASSUME Typed, ModelInv, ConnectionHookRuns
  PROVE  Typed' /\ ModelInv'
<1>1. /\ up /\ lock = "inbound" /\ inbound.at = "lock"
      /\ inbound.item.tag \in {"connected", "disconnected"}
      /\ inbound' = Idle /\ lock' = (IF run.at = "lock" THEN "run" ELSE "free")
      /\ inbound' \in [at : {"idle", "lock", "await"}, item : Items \union {[tag |-> "none"]}]
      /\ inbound'.at = "idle" /\ inbound'.item.tag = "none"
      /\ lock' \in {"free", "run", "inbound"}
      /\ LockOK /\ GateOK /\ AppOK /\ AskOK
  BY LockedIs DEF ConnectionHookRuns
<1>2. /\ UNCHANGED <<started, gate, steps, appState, pending, run>>
      /\ UNCHANGED <<runner, answers, hops, queue, buffer, up>>
  BY DEF ConnectionHookRuns
<1>3. Typed'
  BY <1>1, <1>2
     DEF Typed, RunnerTyped, ModelTyped, gate, steps, runner, session, seeds, asks, records
<1>4. LockOK'
  BY <1>1, <1>2 DEF LockOK, StepPoints
<1>5. GateOK'
  BY <1>1, <1>2 DEF GateOK, gate, steps
<1>6. AppOK'
  BY <1>1, <1>2 DEF GateOK, AppOK, InHand, gate
<1>7. AskOK'
  BY <1>1, <1>2 DEF AskOK, gate, steps
<1> QED BY <1>1, <1>2, <1>3, <1>4, <1>5, <1>6, <1>7 DEF ModelInv, DownOK

LEMMA SessionStartedRunsStep ==
  ASSUME Typed, ModelInv, SessionStartedRuns
  PROVE  Typed' /\ ModelInv'
<1>1. /\ up /\ lock = "inbound" /\ inbound.at = "lock" /\ inbound.item.tag \in {"started"}
      /\ inbound' = Idle /\ lock' = (IF run.at = "lock" THEN "run" ELSE "free")
      /\ inbound' \in [at : {"idle", "lock", "await"}, item : Items \union {[tag |-> "none"]}]
      /\ inbound'.at = "idle" /\ inbound'.item.tag = "none"
      /\ lock' \in {"free", "run", "inbound"}
      /\ LockOK /\ GateOK /\ AppOK /\ AskOK
  BY LockedIs DEF SessionStartedRuns
<1>2. /\ UNCHANGED <<started, gate, steps, pending, run>> /\ appState' = started
      /\ UNCHANGED <<runner, answers, hops, queue, buffer, up>>
  BY DEF SessionStartedRuns
<1>3. Typed'
  BY <1>1, <1>2
     DEF Typed, RunnerTyped, ModelTyped, gate, steps, runner, session, seeds, asks, records
<1>4. LockOK'
  BY <1>1, <1>2 DEF LockOK, StepPoints
<1>5. GateOK'
  BY <1>1, <1>2 DEF GateOK, gate, steps
<1>6. AppOK'
  BY <1>1, <1>2 DEF LockOK, GateOK, AppOK, InHand, gate
<1>7. AskOK'
  BY <1>1, <1>2 DEF AskOK, gate, steps
<1> QED BY <1>1, <1>2, <1>3, <1>4, <1>5, <1>6, <1>7 DEF ModelInv, DownOK

\* The end of a session clears self.state when no step runs on it.
LEMMA SessionEndedRunsStep ==
  ASSUME Typed, ModelInv, SessionEndedRuns
  PROVE  Typed' /\ ModelInv'
<1>1. /\ up /\ lock = "inbound" /\ inbound.at = "lock" /\ inbound.item.tag \in {"ended"}
      /\ inbound' = Idle /\ lock' = (IF run.at = "lock" THEN "run" ELSE "free")
      /\ inbound' \in [at : {"idle", "lock", "await"}, item : Items \union {[tag |-> "none"]}]
      /\ inbound'.at = "idle" /\ inbound'.item.tag = "none"
      /\ lock' \in {"free", "run", "inbound"}
      /\ LockOK /\ GateOK /\ AppOK /\ AskOK
  BY LockedIs DEF SessionEndedRuns
<1>2. /\ UNCHANGED <<started, gate, accepted, limit, failedCalls, pending, run>>
      /\ appState' = 0 /\ stepped' = FALSE
      /\ UNCHANGED <<runner, answers, hops, queue, up>>
  BY DEF SessionEndedRuns
<1>3. Bounded(buffer')
  BY EmptyIsBounded DEF SessionEndedRuns, Typed, RunnerTyped
<1>4. 0 \in Sessions
  BY StepAssumption DEF Sessions
<1>5. Typed'
  <2>1. RunnerTyped'
    BY <1>2, <1>3 DEF Typed, RunnerTyped, runner, session, seeds, asks, records
  <2>2. posted' = posted /\ stepped' \in BOOLEAN /\ appState' \in Sessions
    BY <1>2, <1>4 DEF runner, session
  <2>3. ModelTyped'
    BY <1>1, <1>2, <2>2 DEF Typed, ModelTyped, gate
  <2> QED BY <2>1, <2>3 DEF Typed
<1>6. ~active /\ ~live /\ run.at # "lock" /\ run.at \notin StepPoints
  <2>1. ~active
    BY <1>1 DEF AppOK, InHand
  <2>2. ~live
    BY <1>1, <2>1 DEF GateOK
  <2> QED BY <1>1, <2>1, <2>2 DEF GateOK, LockOK
<1>7. LockOK'
  BY <1>1, <1>2, <1>6 DEF LockOK, StepPoints
<1>8. GateOK'
  BY <1>1, <1>2, <1>6 DEF GateOK, gate
<1>9. AppOK'
  BY <1>1, <1>2, <1>6 DEF AppOK, InHand, gate
<1>10. AskOK'
  BY <1>1, <1>2, <1>6 DEF AskOK, gate
<1> QED BY <1>1, <1>2, <1>5, <1>7, <1>8, <1>9, <1>10 DEF ModelInv, DownOK

\* What a command's handler leaves.
LEMMA CommandIs ==
  ASSUME Typed, ModelInv, CommandRuns
  PROVE  \E r \in Requests \union {System} :
           /\ r = inbound.item.req /\ inbound.item.tag = "command" /\ inbound.item.session \in Sessions
           /\ failedCalls' \in SUBSET StepRequests
           /\ \/ r \in Commands /\ \E k \in Codes : Answer(r, k)
              \/ r \notin Commands /\ answers' = answers
           /\ \/ hops' = hops
              \/ hops' = Append(hops, [tag |-> "failure", session |-> inbound.item.session])
<1>1. /\ inbound.item.tag = "command"
      /\ inbound \in [at : {"idle", "lock", "await"}, item : Items \union {[tag |-> "none"]}]
  BY DEF CommandRuns, Locked, Typed, ModelTyped
<1>2. inbound.item \in Items
  <2>1. inbound.item \in Items \union {[tag |-> "none"]} /\ inbound.item.tag # "none"
    BY <1>1
  <2> QED BY <2>1
<1>3. PICK r \in Requests \union {System} : r = inbound.item.req /\ inbound.item.session \in Sessions
  BY <1>1, <1>2 DEF Items
<1>4. PICK failed \in BOOLEAN :
       /\ failedCalls' = IF failed THEN FailedCall(r) ELSE failedCalls
       /\ IF r \in Commands THEN Answer(r, IF failed THEN "FAILED" ELSE "ACK")
          ELSE UNCHANGED answers
       /\ hops' = IF failed /\ r = System
                  THEN Append(hops, [tag |-> "failure", session |-> inbound.item.session])
                  ELSE hops
  BY <1>3 DEF CommandRuns
<1>5. failedCalls' \in SUBSET StepRequests
  BY <1>4 DEF FailedCall, Typed, ModelTyped
<1>6. \/ r \in Commands /\ \E k \in Codes : Answer(r, k)
      \/ r \notin Commands /\ answers' = answers
  <2>1. "FAILED" \in Codes /\ "ACK" \in Codes
    BY DEF Codes
  <2>2. CASE r \in Commands /\ failed
    BY <1>4, <2>1, <2>2
  <2>3. CASE r \in Commands /\ ~failed
    BY <1>4, <2>1, <2>3
  <2>4. CASE r \notin Commands
    BY <1>4, <2>4
  <2> QED BY <2>2, <2>3, <2>4
<1> QED BY <1>1, <1>3, <1>4, <1>5, <1>6

LEMMA CommandRunsStep ==
  ASSUME Typed, ModelInv, CommandRuns
  PROVE  Typed' /\ ModelInv'
<1>1. /\ up /\ lock = "inbound" /\ inbound.at = "lock" /\ inbound.item.tag \in {"command"}
      /\ inbound' = Idle /\ lock' = (IF run.at = "lock" THEN "run" ELSE "free")
      /\ inbound' \in [at : {"idle", "lock", "await"}, item : Items \union {[tag |-> "none"]}]
      /\ inbound'.at = "idle" /\ inbound'.item.tag = "none"
      /\ lock' \in {"free", "run", "inbound"}
      /\ LockOK /\ GateOK /\ AppOK /\ AskOK
  BY LockedIs DEF CommandRuns
<1>2. /\ UNCHANGED <<started, gate, stepped, accepted, limit, appState, pending, run>>
      /\ UNCHANGED <<runner, queue, buffer, up>>
  BY DEF CommandRuns
<1>3. PICK r \in Requests \union {System} :
           /\ r = inbound.item.req /\ inbound.item.tag = "command" /\ inbound.item.session \in Sessions
           /\ failedCalls' \in SUBSET StepRequests
           /\ \/ r \in Commands /\ \E k \in Codes : Answer(r, k)
              \/ r \notin Commands /\ answers' = answers
           /\ \/ hops' = hops
              \/ hops' = Append(hops, [tag |-> "failure", session |-> inbound.item.session])
  BY CommandIs
<1>4. answers' \in [Requests -> Seq(Codes)]
  <2>1. answers \in [Requests -> Seq(Codes)]
    BY DEF Typed, RunnerTyped
  <2>2. r \in Commands => r \in Requests
    BY DEF Requests
  <2> QED BY <1>3, <2>1, <2>2, AnswerIs
<1>5. hops' \in Seq(Callbacks)
  <2>1. hops \in Seq(Callbacks)
    BY DEF Typed, RunnerTyped
  <2>2. PICK f \in Callbacks : f = [tag |-> "failure", session |-> inbound.item.session]
    BY <1>3 DEF Callbacks
  <2> QED BY <1>3, <2>1, <2>2
<1>6. Typed'
  BY <1>1, <1>2, <1>3, <1>4, <1>5
     DEF Typed, RunnerTyped, ModelTyped, gate, runner, session, seeds, asks, records
<1>7. LockOK'
  BY <1>1, <1>2 DEF LockOK, StepPoints
<1>8. GateOK'
  BY <1>1, <1>2 DEF GateOK, gate
<1>9. AppOK'
  BY <1>1, <1>2 DEF GateOK, AppOK, InHand, gate
<1>10. AskOK'
  BY <1>1, <1>2 DEF AskOK, gate
<1> QED BY <1>1, <1>2, <1>6, <1>7, <1>8, <1>9, <1>10 DEF ModelInv, DownOK

-------------------------------------------------------------------------------
(* The model thread's steps: run().                                        *)

\* The top of run()'s loop: a request, a pass through the gate, or a wait.
LEMMA TurnIs ==
  ASSUME Typed, NEW lk \in {"free", "inbound"}, NEW b, Bounded(b), Turn(lk, b)
  PROVE  /\ run' \in RunTypes /\ pending' = NoRequest /\ Bounded(buffer')
         /\ \/ /\ pending # NoRequest /\ lock' = "run" /\ run'.at = "request input"
               /\ run'.session = started /\ run'.req = pending
            \/ /\ pending = NoRequest /\ live /\ lk = "free" /\ lock' = "run" /\ run'.at = "input"
               /\ run'.session = started /\ run'.drops = gateDrops /\ run'.served = started
            \/ /\ pending = NoRequest /\ live /\ lk = "inbound" /\ lock' = "inbound"
               /\ run'.at = "lock" /\ run'.drops = gateDrops /\ run'.served = started
            \/ pending = NoRequest /\ ~live /\ lock' = lk /\ run'.at = "turn"
<1>0. /\ started \in Sessions /\ gateDrops \in Nat /\ pending \in StepRequests \union {NoRequest}
      /\ 0 \in Sessions /\ live \in BOOLEAN
      /\ "turn" \in Points /\ "lock" \in Points /\ "input" \in Points /\ "request input" \in Points
  <2>1. 0 \in Sessions
    BY StepAssumption DEF Sessions
  <2> QED BY <2>1 DEF Typed, ModelTyped, Points
<1>1. PICK t \in RunTypes : /\ t = RunAt("turn") /\ t.at = "turn"
                            /\ t = [at |-> "turn", woken |-> FALSE, drops |-> 0, served |-> 0,
                                    session |-> 0, req |-> NoRequest]
  BY <1>0 DEF RunAt, RunTypes
<1>2. CASE pending # NoRequest
  <2>1. /\ run' = [t EXCEPT !.at = "request input", !.session = started, !.req = pending]
        /\ lock' = "run" /\ pending' = NoRequest /\ buffer' \in {b, Pushed(b, started)}
    BY <1>1, <1>2 DEF Turn
  <2>2. /\ run' \in RunTypes /\ run'.at = "request input" /\ run'.session = started
        /\ run'.req = pending
    BY <1>0, <1>1, <2>1 DEF RunTypes
  <2> QED BY <1>2, <2>1, <2>2, PushedIs
<1>3. CASE pending = NoRequest /\ live
  <2>0. PICK u : u = [t EXCEPT !.drops = gateDrops, !.served = started]
    OBVIOUS
  <2>1. /\ u \in RunTypes /\ u = [t EXCEPT !.drops = gateDrops, !.served = started]
        /\ u.drops = gateDrops /\ u.served = started
    BY <1>0, <1>1, <2>0 DEF RunTypes
  <2>2. AsksLock(u, lk) /\ buffer' = b /\ pending' = pending
    BY <1>1, <1>3, <2>1 DEF Turn
  <2>3. CASE lk = "free"
    <3>1. run' = [u EXCEPT !.at = "input", !.session = started] /\ lock' = "run"
      BY <2>2, <2>3 DEF AsksLock
    <3>2. /\ run' \in RunTypes /\ run'.at = "input" /\ run'.session = started
          /\ run'.drops = gateDrops /\ run'.served = started
      BY <1>0, <2>1, <3>1 DEF RunTypes
    <3> QED BY <1>3, <2>2, <2>3, <3>1, <3>2
  <2>4. CASE lk = "inbound"
    <3>1. run' = [u EXCEPT !.at = "lock"] /\ lock' = lk
      BY <2>2, <2>4 DEF AsksLock
    <3>2. run' \in RunTypes /\ run'.at = "lock" /\ run'.drops = gateDrops /\ run'.served = started
      BY <1>0, <2>1, <3>1 DEF RunTypes
    <3> QED BY <1>3, <2>2, <2>4, <3>1, <3>2
  <2> QED BY <2>3, <2>4
<1>4. CASE pending = NoRequest /\ ~live
  BY <1>1, <1>4 DEF Turn
<1> QED BY <1>2, <1>3, <1>4

ModelOK == LockOK /\ GateOK /\ AppOK /\ AskOK

\* From the top of the loop the two tasks are as they should be: run() turns
\* while the inbound loop does what it did, or as its request is over.
LEMMA TurnKeeps ==
  ASSUME Typed, ModelOK, NEW lk \in {"free", "inbound"}, NEW b, Bounded(b), Turn(lk, b),
         UNCHANGED <<started, gate, steps, appState>>,
         \/ inbound' = inbound /\ lk = lock
         \/ inbound' = Idle /\ lk = "free" /\ run.at \in Asked
  PROVE  ModelOK'
<1>1. /\ run' \in RunTypes /\ pending' = NoRequest
      /\ \/ /\ pending # NoRequest /\ lock' = "run" /\ run'.at = "request input"
            /\ run'.session = started /\ run'.req = pending
         \/ /\ pending = NoRequest /\ live /\ lk = "free" /\ lock' = "run" /\ run'.at = "input"
            /\ run'.session = started /\ run'.drops = gateDrops /\ run'.served = started
         \/ /\ pending = NoRequest /\ live /\ lk = "inbound" /\ lock' = "inbound"
            /\ run'.at = "lock" /\ run'.drops = gateDrops /\ run'.served = started
         \/ pending = NoRequest /\ ~live /\ lock' = lk /\ run'.at = "turn"
  BY TurnIs
<1>2. LockOK /\ GateOK /\ AppOK /\ AskOK /\ lock \in {"free", "run", "inbound"} /\ started \in Nat
  BY DEF ModelOK, Typed, ModelTyped, Sessions
<1>3. \/ inbound' = inbound /\ lk = lock
      \/ inbound' = Idle /\ lk = "free" /\ inbound.at = "await" /\ pending = NoRequest
  BY <1>2 DEF AskOK
<1>4. \/ inbound'.at = "idle" /\ inbound'.item.tag = "none"
      \/ inbound' = inbound /\ lk = lock
  BY <1>3 DEF Idle
<1>5. LockOK'
  <2>1. inbound'.at = "lock" => lk = "inbound" \/ (inbound' = inbound /\ lk = lock /\ lock # "free")
    BY <1>2, <1>4 DEF LockOK
  <2>2. pending # NoRequest => inbound' = inbound /\ inbound.at = "await"
    BY <1>2, <1>3 DEF AskOK
  <2> QED BY <1>1, <1>2, <1>4, <2>1, <2>2 DEF LockOK, StepPoints
<1>6. GateOK'
  BY <1>1, <1>2 DEF GateOK, Passing, gate, steps
<1>7. AppOK'
  <2>2. appState' = (IF (active' /\ ~InHand({"started"})') \/ InHand({"ended"})' THEN started' ELSE 0)
    BY <1>2, <1>3, <1>4 DEF AppOK, InHand, gate, Idle
  <2>3. InHand({"started"})' => active' /\ lock' = "inbound"
    <3>1. ASSUME InHand({"started"})' PROVE inbound' = inbound /\ lk = "inbound" /\ active
      BY <3>1, <1>2, <1>4 DEF InHand, AppOK
    <3>2. ASSUME InHand({"started"})' PROVE pending = NoRequest
      BY <3>1, <3>2, <1>2 DEF AskOK, InHand
    <3> QED BY <1>1, <3>1, <3>2 DEF gate
  <2>4. InHand({"ended"})' => ~active' /\ started' > 0
    BY <1>2, <1>4 DEF AppOK, InHand, gate
  <2>5. run'.at \in StepPoints => run'.session = started' /\ appState' = started' /\ started' > 0
    <3>1. CASE run'.at = "request input"
      <4>1. inbound' = inbound /\ inbound.at = "await" /\ active
        BY <1>1, <1>2, <1>3, <3>1 DEF AskOK
      <4>2. appState = started /\ started > 0
        BY <1>2, <4>1 DEF AppOK, GateOK, InHand
      <4> QED BY <1>1, <3>1, <4>2
    <3>2. CASE run'.at = "input"
      <4>1. lk = "free" /\ live /\ active
        BY <1>1, <1>2, <3>2 DEF GateOK
      <4>2. ~InHand({"started"})
        BY <1>2, <1>3, <4>1 DEF AppOK, InHand, LockOK
      <4>3. appState = started /\ started > 0
        BY <1>2, <4>1, <4>2 DEF AppOK, GateOK
      <4> QED BY <1>1, <3>2, <4>3
    <3> QED BY <1>1, <3>1, <3>2 DEF StepPoints
  <2>6. ~ (run'.at = "lock" /\ lock' = "run")
    BY <1>1
  <2> QED BY <2>2, <2>3, <2>4, <2>5, <2>6 DEF AppOK
<1>8. AskOK'
  <2>1. inbound'.at = "await" => active' /\ stepped'
    BY <1>2, <1>4 DEF AskOK, gate, steps
  <2>2. run'.at \in Asked => inbound'.at = "await" /\ run'.req # NoRequest
                             /\ (limit' = 0 \/ accepted' < limit') /\ run'.at = "request input"
    BY <1>1, <1>2, <1>3 DEF AskOK, Asked, steps
  <2> QED BY <1>1, <2>1, <2>2 DEF AskOK, Asked
<1> QED BY <1>5, <1>6, <1>7, <1>8 DEF ModelOK

LEMMA TurnTakenStep ==
  ASSUME Typed, ModelInv, TurnTaken
  PROVE  Typed' /\ ModelInv'
<1>0. /\ up /\ run.at = "turn" /\ ModelOK /\ lock \in {"free", "run", "inbound"}
      /\ UNCHANGED <<started, gate, steps, appState, inbound>>
      /\ UNCHANGED <<runner, answers, hops, queue, up>>
  BY DEF TurnTaken, ModelInv, ModelOK, Typed, ModelTyped
<1>1. lock \in {"free", "inbound"}
  BY <1>0 DEF ModelOK, LockOK, StepPoints
<1>2. PICK b : Bounded(b) /\ Turn(lock, b)
  <2>1. Bounded(buffer)
    BY DEF Typed, RunnerTyped
  <2>2. Bounded(Reset(buffer, started))
    BY <2>1, ResetIs
  <2> QED BY <2>1, <2>2 DEF TurnTaken
<1>3. PICK lk \in {"free", "inbound"} : lk = lock
  BY <1>1
<1>4. run' \in RunTypes /\ pending' = NoRequest /\ Bounded(buffer') /\ lock' \in {"free", "run", "inbound"}
  BY <1>2, <1>3, TurnIs
<1>5. ModelOK'
  BY <1>0, <1>2, <1>3, TurnKeeps
<1>6. Typed'
  BY <1>0, <1>4 DEF Typed, RunnerTyped, ModelTyped, RunTypes, gate, steps, runner, session, seeds,
                    asks, records
<1> QED BY <1>0, <1>5, <1>6 DEF ModelInv, ModelOK, DownOK

\* A step of a pass moves run() alone, and may release the lock or report.
LEMMA PassTyped ==
  ASSUME Typed, NEW p \in Points, NEW s \in Sessions,
         run' = [run EXCEPT !.at = p, !.session = s] \/ (run' = [run EXCEPT !.at = p] /\ s = run.session),
         hops' \in Seq(Callbacks), Bounded(buffer'), lock' \in {"free", "run", "inbound"},
         accepted' \in Nat, answers' = answers,
         UNCHANGED <<started, gate, stepped, limit, failedCalls, appState, pending, inbound>>,
         UNCHANGED <<runner, queue, up>>
  PROVE  /\ Typed' /\ run'.at = p /\ run'.session = s /\ run'.drops = run.drops
         /\ run'.served = run.served /\ run'.req = run.req
<1>1. run \in RunTypes
  BY DEF Typed, ModelTyped, RunTypes
<1>2. /\ run' \in RunTypes /\ run'.at = p /\ run'.session = s /\ run'.drops = run.drops
      /\ run'.served = run.served /\ run'.req = run.req
  BY <1>1 DEF RunTypes
<1>3. RunnerTyped'
  BY DEF Typed, RunnerTyped, runner, session, seeds, asks, records
<1>4. posted' = posted
  BY DEF runner, session
<1>5. ModelTyped'
  BY <1>2, <1>4 DEF Typed, ModelTyped, RunTypes, gate
<1> QED BY <1>2, <1>3, <1>5 DEF Typed

LEMMA PointsAre ==
  /\ "input" \in Points /\ "output" \in Points /\ "emit" \in Points /\ "sleep" \in Points
  /\ "request output" \in Points /\ "lock" \in Points
BY DEF Points

LEMMA StepBeginsStep ==
  ASSUME Typed, ModelInv, StepBegins
  PROVE  Typed' /\ ModelInv'
<1>0. /\ up /\ run.at = "lock" /\ lock = "run" /\ ModelOK
      /\ run' = [run EXCEPT !.at = "input", !.session = started]
      /\ UNCHANGED <<started, gate, steps, appState, pending, lock, inbound>>
      /\ UNCHANGED <<runner, answers, hops, queue, buffer, up>>
  BY DEF StepBegins, ModelInv, ModelOK
<1>1. /\ hops' \in Seq(Callbacks) /\ Bounded(buffer') /\ lock' \in {"free", "run", "inbound"}
      /\ started \in Sessions /\ accepted' \in Nat
      /\ UNCHANGED <<stepped, accepted, limit, failedCalls>>
  BY <1>0 DEF Typed, RunnerTyped, ModelTyped, steps
<1>2. /\ Typed' /\ run'.at = "input" /\ run'.session = started /\ run'.drops = run.drops
      /\ run'.served = run.served /\ run'.req = run.req
  BY <1>0, <1>1, PassTyped, PointsAre
<1>3. LockOK'
  BY <1>0, <1>2 DEF ModelOK, LockOK, StepPoints
<1>4. GateOK'
  BY <1>0, <1>1, <1>2 DEF ModelOK, GateOK, Passing, gate
<1>5. AppOK'
  BY <1>0, <1>2 DEF ModelOK, AppOK, InHand, gate
<1>6. AskOK'
  BY <1>0, <1>1, <1>2 DEF ModelOK, AskOK, Asked, gate
<1> QED BY <1>0, <1>2, <1>3, <1>4, <1>5, <1>6 DEF ModelInv, DownOK

\* A release by run() hands the lock to a dispatch that waits.
LEMMA ReleaseKeeps ==
  ASSUME Typed, ModelOK, run.at \in {"input", "output"}, lock' = ReleasedByRun,
         run'.at \in {"emit", "sleep"}, run'.drops = run.drops, run'.served = run.served,
         UNCHANGED <<started, gate, steps, appState, pending, inbound>>
  PROVE  ModelOK' /\ lock' \in {"free", "run", "inbound"}
<1>1. lock = "run" /\ lock' = (IF inbound.at = "lock" THEN "inbound" ELSE "free")
  BY DEF ModelOK, LockOK, StepPoints, ReleasedByRun
<1>2. LockOK'
  BY <1>1 DEF ModelOK, LockOK, StepPoints
<1>3. GateOK'
  BY <1>1 DEF ModelOK, GateOK, Passing, gate, steps
<1>4. AppOK'
  BY <1>1 DEF ModelOK, AppOK, InHand, StepPoints, gate
<1>5. AskOK'
  BY <1>1 DEF ModelOK, AskOK, Asked, gate, steps
<1> QED BY <1>1, <1>2, <1>3, <1>4, <1>5 DEF ModelOK

LEMMA InputRefusedStep ==
  ASSUME Typed, ModelInv, InputRefused
  PROVE  Typed' /\ ModelInv'
<1>0. /\ up /\ run.at = "input" /\ ModelOK /\ run' = [run EXCEPT !.at = "sleep"]
      /\ lock' = ReleasedByRun /\ run.session \in Sessions
      /\ UNCHANGED <<started, gate, steps, appState, pending, inbound>>
      /\ UNCHANGED <<runner, answers, hops, queue, buffer, up>>
  BY DEF InputRefused, ModelInv, ModelOK, Typed, ModelTyped
<1>1. /\ hops' \in Seq(Callbacks) /\ Bounded(buffer') /\ lock' \in {"free", "run", "inbound"}
      /\ accepted' \in Nat /\ UNCHANGED <<stepped, accepted, limit, failedCalls>>
  BY <1>0 DEF Typed, RunnerTyped, ModelTyped, steps, ReleasedByRun
<1>2. /\ Typed' /\ run'.at = "sleep" /\ run'.session = run.session /\ run'.drops = run.drops
      /\ run'.served = run.served /\ run'.req = run.req
  BY <1>0, <1>1, PassTyped, PointsAre
<1>3. ModelOK'
  BY <1>0, <1>2, ReleaseKeeps
<1> QED BY <1>0, <1>2, <1>3 DEF ModelInv, ModelOK, DownOK

LEMMA InputAcceptedStep ==
  ASSUME Typed, ModelInv, InputAccepted
  PROVE  Typed' /\ ModelInv'
<1>0. /\ up /\ run.at = "input" /\ ModelOK /\ run' = [run EXCEPT !.at = "output"]
      /\ run.session \in Sessions
      /\ UNCHANGED <<started, gate, steps, appState, pending, lock, inbound>>
      /\ UNCHANGED <<runner, answers, hops, queue, up>>
  BY DEF InputAccepted, ModelInv, ModelOK, Typed, ModelTyped
<1>1. Bounded(buffer')
  BY EmptyIsBounded DEF InputAccepted, Typed, RunnerTyped
<1>2. /\ hops' \in Seq(Callbacks) /\ lock' \in {"free", "run", "inbound"}
      /\ accepted' \in Nat /\ UNCHANGED <<stepped, accepted, limit, failedCalls>>
  BY <1>0 DEF Typed, RunnerTyped, ModelTyped, steps
<1>3. /\ Typed' /\ run'.at = "output" /\ run'.session = run.session /\ run'.drops = run.drops
      /\ run'.served = run.served /\ run'.req = run.req
  BY <1>0, <1>1, <1>2, PassTyped, PointsAre
<1>4. LockOK'
  BY <1>0, <1>3 DEF ModelOK, LockOK, StepPoints
<1>5. GateOK'
  BY <1>0, <1>2, <1>3 DEF ModelOK, GateOK, Passing, gate
<1>6. AppOK'
  BY <1>0, <1>3 DEF ModelOK, AppOK, InHand, gate, StepPoints
<1>7. AskOK'
  BY <1>0, <1>2, <1>3 DEF ModelOK, AskOK, Asked, gate
<1> QED BY <1>0, <1>3, <1>4, <1>5, <1>6, <1>7 DEF ModelInv, DownOK

\* A report is one of the callbacks.
LEMMA ReportIs ==
  ASSUME Typed, NEW r \in StepRequests \union {NoRequest}, NEW i \in Nat
  PROVE  /\ Report(r, i) \in Callbacks /\ Append(hops, Report(r, i)) \in Seq(Callbacks)
         /\ Report(r, i) = [tag |-> "report", session |-> run.session, req |-> r, index |-> i]
<1>1. run.session \in Sessions /\ hops \in Seq(Callbacks)
  BY DEF Typed, RunnerTyped, ModelTyped
<1>2. Report(r, i) \in Callbacks
  BY <1>1 DEF Report, Callbacks
<1> QED BY <1>1, <1>2 DEF Report

LEMMA OutputReturnsStep ==
  ASSUME Typed, ModelInv, OutputReturns
  PROVE  Typed' /\ ModelInv'
<1>0. /\ up /\ run.at = "output" /\ ModelOK /\ run.session \in Sessions /\ lock' = ReleasedByRun
      /\ UNCHANGED <<started, gate, steps, appState, pending, inbound>>
      /\ UNCHANGED <<runner, answers, queue, buffer, up>>
      /\ \/ run' = [run EXCEPT !.at = "emit"] /\ UNCHANGED hops
         \/ run' = [run EXCEPT !.at = "sleep"] /\ hops' = Append(hops, Report(NoRequest, 0))
  BY DEF OutputReturns, ModelInv, ModelOK, Typed, ModelTyped
<1>1. Append(hops, Report(NoRequest, 0)) \in Seq(Callbacks)
  BY ReportIs
<1>2. /\ hops' \in Seq(Callbacks) /\ Bounded(buffer') /\ lock' \in {"free", "run", "inbound"}
      /\ accepted' \in Nat /\ UNCHANGED <<stepped, accepted, limit, failedCalls>>
  BY <1>0, <1>1 DEF Typed, RunnerTyped, ModelTyped, steps, ReleasedByRun
<1>3. /\ Typed' /\ run'.at \in {"emit", "sleep"} /\ run'.session = run.session
      /\ run'.drops = run.drops /\ run'.served = run.served /\ run'.req = run.req
  BY <1>0, <1>2, PassTyped, PointsAre
<1>4. ModelOK'
  BY <1>0, <1>3, ReleaseKeeps
<1> QED BY <1>0, <1>3, <1>4 DEF ModelInv, ModelOK, DownOK

LEMMA EmitReturnsStep ==
  ASSUME Typed, ModelInv, EmitReturns
  PROVE  Typed' /\ ModelInv'
<1>0. /\ up /\ run.at = "emit" /\ ModelOK /\ run.session \in Sessions
      /\ run' = [run EXCEPT !.at = "sleep"] /\ hops' = Append(hops, Report(NoRequest, 0))
      /\ UNCHANGED <<started, gate, steps, appState, pending, lock, inbound>>
      /\ UNCHANGED <<runner, answers, queue, buffer, up>>
  BY DEF EmitReturns, ModelInv, ModelOK, Typed, ModelTyped
<1>1. Append(hops, Report(NoRequest, 0)) \in Seq(Callbacks)
  BY ReportIs
<1>2. /\ hops' \in Seq(Callbacks) /\ Bounded(buffer') /\ lock' \in {"free", "run", "inbound"}
      /\ accepted' \in Nat /\ UNCHANGED <<stepped, accepted, limit, failedCalls>>
  BY <1>0, <1>1 DEF Typed, RunnerTyped, ModelTyped, steps
<1>3. /\ Typed' /\ run'.at = "sleep" /\ run'.session = run.session
      /\ run'.drops = run.drops /\ run'.served = run.served /\ run'.req = run.req
  BY <1>0, <1>2, PassTyped, PointsAre
<1>4. LockOK'
  BY <1>0, <1>3 DEF ModelOK, LockOK, StepPoints
<1>5. GateOK'
  BY <1>0, <1>2, <1>3 DEF ModelOK, GateOK, Passing, gate
<1>6. AppOK'
  BY <1>0, <1>3 DEF ModelOK, AppOK, InHand, gate, StepPoints
<1>7. AskOK'
  BY <1>0, <1>2, <1>3 DEF ModelOK, AskOK, Asked, gate
<1> QED BY <1>0, <1>3, <1>4, <1>5, <1>6, <1>7 DEF ModelInv, DownOK

\* The sleep between two steps ends: the pass goes on only if the gate never
\* dropped.
LEMMA SleepEndsStep ==
  ASSUME Typed, ModelInv, SleepEnds
  PROVE  Typed' /\ ModelInv'
<1>0. /\ up /\ run.at = "sleep" /\ ModelOK /\ lock \in {"free", "run", "inbound"}
      /\ started \in Sessions /\ run.session \in Sessions /\ Bounded(buffer)
      /\ UNCHANGED <<started, gate, steps, appState, inbound>>
      /\ UNCHANGED <<runner, answers, hops, queue, up>>
  BY DEF SleepEnds, ModelInv, ModelOK, Typed, ModelTyped, RunnerTyped
<1>1. lock \in {"free", "inbound"}
  BY <1>0 DEF ModelOK, LockOK, StepPoints
<1>2. CASE StillOpen
  <2>1. AsksLock(run, lock) /\ UNCHANGED <<pending, buffer>>
    BY <1>2 DEF SleepEnds
  <2>2. live /\ active /\ ~stepped /\ run.served = started /\ run.drops = gateDrops
        /\ started > 0
    <3>1. run.drops \in Nat /\ gateDrops \in Nat
      BY DEF Typed, ModelTyped
    <3>2. live /\ run.drops = gateDrops /\ ~ (run.drops < gateDrops)
      BY <1>2, <3>1 DEF StillOpen
    <3>3. GateOK
      BY <1>0 DEF ModelOK
    <3>4. run.served = started
      BY <1>0, <3>2, <3>3 DEF GateOK, Passing
    <3>5. active /\ ~stepped
      BY <3>2, <3>3 DEF GateOK
    <3> QED BY <3>2, <3>3, <3>4, <3>5 DEF GateOK
  <2>3. /\ hops' \in Seq(Callbacks) /\ Bounded(buffer')
        /\ accepted' \in Nat /\ UNCHANGED <<stepped, accepted, limit, failedCalls>>
    BY <1>0, <2>1 DEF Typed, RunnerTyped, ModelTyped, steps
  <2>4. pending = NoRequest /\ inbound.at # "await"
    BY <1>0, <2>2 DEF ModelOK, AskOK
  <2>5. CASE lock = "free"
    <3>1. run' = [run EXCEPT !.at = "input", !.session = started] /\ lock' = "run"
      BY <2>1, <2>5 DEF AsksLock
    <3>2. /\ Typed' /\ run'.at = "input" /\ run'.session = started
          /\ run'.drops = run.drops /\ run'.served = run.served /\ run'.req = run.req
      BY <1>0, <2>1, <2>3, <3>1, PassTyped, PointsAre
    <3>3. LockOK'
      BY <1>0, <2>5, <3>1, <3>2 DEF ModelOK, LockOK, StepPoints
    <3>4. GateOK'
      BY <1>0, <2>2, <2>3, <3>1, <3>2 DEF ModelOK, GateOK, Passing, gate
    <3>5. AppOK'
      BY <1>0, <2>2, <2>5, <3>1, <3>2 DEF ModelOK, LockOK, AppOK, InHand, gate, StepPoints
    <3>6. AskOK'
      BY <1>0, <2>1, <2>3, <2>4, <3>2 DEF ModelOK, AskOK, Asked, gate
    <3> QED BY <1>0, <3>2, <3>3, <3>4, <3>5, <3>6 DEF ModelInv, DownOK
  <2>6. CASE lock = "inbound"
    <3>1. run' = [run EXCEPT !.at = "lock"] /\ lock' = lock
      BY <2>1, <2>6 DEF AsksLock
    <3>2. /\ Typed' /\ run'.at = "lock" /\ run'.session = run.session
          /\ run'.drops = run.drops /\ run'.served = run.served /\ run'.req = run.req
      BY <1>0, <2>1, <2>3, <3>1, PassTyped, PointsAre
    <3>3. LockOK'
      BY <1>0, <2>6, <3>1, <3>2 DEF ModelOK, LockOK, StepPoints
    <3>4. GateOK'
      BY <1>0, <2>2, <2>3, <3>1, <3>2 DEF ModelOK, GateOK, Passing, gate
    <3>5. AppOK'
      BY <1>0, <2>6, <3>1, <3>2 DEF ModelOK, AppOK, InHand, gate, StepPoints
    <3>6. AskOK'
      BY <1>0, <2>1, <2>3, <2>4, <3>2 DEF ModelOK, AskOK, Asked, gate
    <3> QED BY <1>0, <3>2, <3>3, <3>4, <3>5, <3>6 DEF ModelInv, DownOK
  <2> QED BY <1>1, <2>5, <2>6
<1>3. CASE ~StillOpen
  <2>1. PICK b : Bounded(b) /\ Turn(lock, b)
    BY <1>0, <1>3, ResetIs DEF SleepEnds
  <2>2. PICK lk \in {"free", "inbound"} : lk = lock
    BY <1>1
  <2>3. run' \in RunTypes /\ pending' = NoRequest /\ Bounded(buffer')
        /\ lock' \in {"free", "run", "inbound"}
    BY <2>1, <2>2, TurnIs
  <2>4. ModelOK'
    BY <1>0, <2>1, <2>2, TurnKeeps
  <2>5. Typed'
    BY <1>0, <2>3 DEF Typed, RunnerTyped, ModelTyped, RunTypes, gate, steps, runner, session, seeds,
                      asks, records
  <2> QED BY <1>0, <2>4, <2>5 DEF ModelInv, ModelOK, DownOK
<1> QED BY <1>2, <1>3

\* A requested step is over.
LEMMA RequestOverKeeps ==
  ASSUME Typed, ModelInv, up, run.at \in Asked, RequestOver,
         UNCHANGED <<started, gate, steps, appState, runner, queue, up>>,
         hops' \in Seq(Callbacks), answers' \in [Requests -> Seq(Codes)]
  PROVE  Typed' /\ ModelInv' /\ run'.at \in {"turn", "input"} /\ pending' = NoRequest
<1>0. ModelOK /\ Bounded(buffer) /\ inbound' = Idle /\ Turn("free", buffer)
  BY DEF ModelInv, ModelOK, Typed, RunnerTyped, RequestOver
<1>1. PICK lk \in {"free", "inbound"} : lk = "free"
  OBVIOUS
<1>2. PICK b : b = buffer
  OBVIOUS
<1>3. pending = NoRequest
  BY <1>0 DEF ModelOK, AskOK
<1>4. /\ run' \in RunTypes /\ pending' = NoRequest /\ Bounded(buffer')
      /\ lock' \in {"free", "run", "inbound"} /\ run'.at \in {"turn", "input"}
  BY <1>0, <1>1, <1>2, <1>3, TurnIs
<1>5. ModelOK'
  BY <1>0, <1>1, <1>2, TurnKeeps
<1>6. inbound' \in [at : {"idle", "lock", "await"}, item : Items \union {[tag |-> "none"]}]
  BY <1>0 DEF Idle
<1>7. Typed'
  BY <1>4, <1>6 DEF Typed, RunnerTyped, ModelTyped, RunTypes, gate, steps, runner, session, seeds,
                    asks, records
<1> QED BY <1>4, <1>5, <1>7 DEF ModelInv, ModelOK, DownOK

LEMMA RequestedRefusedStep ==
  ASSUME Typed, ModelInv, RequestedInputRefused
  PROVE  Typed' /\ ModelInv'
<1>0. /\ up /\ run.at \in Asked /\ RequestOver /\ Refusal(run.req, run.session, "REFUSED")
      /\ UNCHANGED <<started, gate, steps, appState, runner, hops, queue, up>>
  BY DEF RequestedInputRefused, Asked
<1>1. hops' \in Seq(Callbacks)
  BY <1>0 DEF Typed, RunnerTyped
<1>2. PICK r \in Requests : r = run.req
  <2>1. run.req \in StepRequests \union {NoRequest} /\ run.req # NoRequest
    BY <1>0 DEF Typed, ModelTyped, ModelInv, AskOK
  <2> QED BY <2>1 DEF Requests
<1>3. \E k \in Codes : Answer(r, k)
  <2>1. "REFUSED" \in Codes
    BY DEF Codes
  <2> QED BY <1>0, <1>2, <2>1, RefusalIs
<1>4. answers' \in [Requests -> Seq(Codes)]
  BY <1>3, AnswerIs DEF Typed, RunnerTyped
<1> QED BY <1>0, <1>1, <1>4, RequestOverKeeps

LEMMA RequestedAcceptedStep ==
  ASSUME Typed, ModelInv, RequestedInputAccepted
  PROVE  Typed' /\ ModelInv'
<1>0. /\ up /\ run.at = "request input" /\ ModelOK /\ run' = [run EXCEPT !.at = "request output"]
      /\ run.session \in Sessions /\ accepted' = accepted + 1
      /\ UNCHANGED <<started, gate, stepped, limit, failedCalls, appState, pending, lock, inbound>>
      /\ UNCHANGED <<runner, answers, hops, queue, up>>
  BY DEF RequestedInputAccepted, ModelInv, ModelOK, Typed, ModelTyped
<1>1. Bounded(buffer')
  BY EmptyIsBounded DEF RequestedInputAccepted, Typed, RunnerTyped
<1>2. /\ hops' \in Seq(Callbacks) /\ lock' \in {"free", "run", "inbound"}
      /\ accepted \in Nat /\ limit \in Nat /\ accepted' \in Nat
  <2>1. hops \in Seq(Callbacks) /\ hops' = hops /\ lock' = lock /\ lock \in {"free", "run", "inbound"}
    BY <1>0 DEF Typed, RunnerTyped, ModelTyped
  <2>2. accepted \in Nat /\ limit \in Nat /\ accepted' = accepted + 1
    BY <1>0 DEF Typed, ModelTyped
  <2> QED BY <2>1, <2>2
<1>3. /\ Typed' /\ run'.at = "request output" /\ run'.session = run.session
      /\ run'.drops = run.drops /\ run'.served = run.served /\ run'.req = run.req
  BY <1>0, <1>1, <1>2, PassTyped, PointsAre
<1>4. LockOK'
  BY <1>0, <1>3 DEF ModelOK, LockOK, StepPoints
<1>5. GateOK'
  BY <1>0, <1>3 DEF ModelOK, GateOK, Passing, gate
<1>6. AppOK'
  BY <1>0, <1>3 DEF ModelOK, AppOK, InHand, gate, StepPoints
<1>7. AskOK'
  <2>0. limit = 0 \/ accepted < limit
    BY <1>0 DEF ModelOK, AskOK
  <2>1. limit = 0 \/ accepted + 1 <= limit
    BY <1>2, <2>0
  <2> QED BY <1>0, <1>3, <2>1 DEF ModelOK, AskOK, Asked, gate
<1> QED BY <1>0, <1>3, <1>4, <1>5, <1>6, <1>7 DEF ModelInv, DownOK

LEMMA RequestedOutputStep ==
  ASSUME Typed, ModelInv, RequestedOutputReturns
  PROVE  Typed' /\ ModelInv'
<1>0. /\ up /\ run.at \in Asked /\ RequestOver /\ hops' = Append(hops, Report(run.req, accepted))
      /\ UNCHANGED <<started, gate, steps, appState, runner, answers, queue, up>>
  BY DEF RequestedOutputReturns, Asked
<1>1. run.req \in StepRequests \union {NoRequest} /\ accepted \in Nat
      /\ answers' \in [Requests -> Seq(Codes)]
  BY <1>0 DEF Typed, RunnerTyped, ModelTyped
<1>2. hops' \in Seq(Callbacks)
  BY <1>0, <1>1, ReportIs
<1> QED BY <1>0, <1>1, <1>2, RequestOverKeeps

\* The loop is over: everything in hand is dropped.
LEMMA CrashStep ==
  ASSUME Typed, ModelInv, Crashes
  PROVE  Typed' /\ ModelInv'
<1>0. /\ up' = FALSE /\ hops' = Append(hops, [tag |-> "crash"]) /\ queue' = <<>> /\ inbound' = Idle
      /\ lock' = "free" /\ pending' = NoRequest /\ run' = RunAt("over")
      /\ UNCHANGED <<started, gate, steps, appState, runner, answers, buffer>>
  BY DEF Crashes
<1>1. hops' \in Seq(Callbacks)
  <2>1. PICK h \in Callbacks : h = [tag |-> "crash"]
    BY DEF Callbacks
  <2> QED BY <1>0, <2>1 DEF Typed, RunnerTyped
<1>2. run' \in RunTypes /\ run'.at = "over"
  <2>1. 0 \in Sessions
    BY StepAssumption DEF Sessions
  <2> QED BY <1>0, <2>1 DEF RunAt, RunTypes, Points
<1>3. inbound' \in [at : {"idle", "lock", "await"}, item : Items \union {[tag |-> "none"]}]
  BY <1>0 DEF Idle
<1>4. RunnerTyped'
  BY <1>0, <1>1 DEF Typed, RunnerTyped, runner, session, seeds, asks, records
<1>5. ModelTyped'
  BY <1>0, <1>2, <1>3 DEF Typed, ModelTyped, RunTypes, gate, steps, runner, session
<1> QED BY <1>0, <1>2, <1>4, <1>5 DEF Typed, ModelInv, DownOK

\* The runner's steps leave the model thread as it is.
LEMMA RunnerKeepsModel ==
  ASSUME ModelInv, UNCHANGED <<up, model>>, ~up => queue' = queue
  PROVE  ModelInv'
BY DEF ModelInv, DownOK, LockOK, GateOK, AppOK, AskOK, InHand, model, gate, steps

-------------------------------------------------------------------------------
(* The runner's own invariant, step by step.                               *)

\* A crash is the last the model thread does, whatever the runner has taken of
\* its callbacks.
CrashIsLast == \A i \in DOMAIN hops : hops[i].tag = "crash" => ~up

LEMMA CrashStaysLast ==
  ASSUME Typed, CrashIsLast, up' = up, hops' = hops \/ (hops # <<>> /\ hops' = Tail(hops))
  PROVE  CrashIsLast'
<1>1. CASE hops' = hops
  BY <1>1 DEF CrashIsLast
<1>2. CASE hops # <<>> /\ hops' = Tail(hops)
  <2>1. hops \in Seq(Callbacks)
    BY DEF Typed, RunnerTyped
  <2>2. ASSUME NEW i \in DOMAIN hops' PROVE i + 1 \in DOMAIN hops /\ hops'[i] = hops[i + 1]
    BY <1>2, <2>1, <2>2
  <2> QED BY <2>2 DEF CrashIsLast
<1> QED BY <1>1, <1>2

\* A session's end, of whatever cause.
LEMMA EndKeepsRunner ==
  ASSUME Typed, RunnerInv, NEW to \in {"CLOSING", "TERMINATED"}, End(to), CrashIsLast'
  PROVE  RunnerInv'
<1>1. RunnerTyped
  BY DEF Typed
<1>2. /\ state' = to /\ seeding' = "none" /\ startingDone' = TRUE
      /\ \A r \in Requests :
           /\ request'[r].session = request[r].session
           /\ request[r].at \notin {"held", "fetching"} => request'[r] = request[r]
           /\ request[r].at = "held" => request'[r].at = "released"
           /\ request[r].at = "fetching" => request'[r].at = "cleared"
  BY <1>1, EndIs
<1>3. \A r \in Requests : request'[r].at # "fetching"
  BY <1>2
<1> QED BY <1>2, <1>3 DEF RunnerInv, CrashIsLast

LEMMA EnvironmentRunner ==
  ASSUME Typed, RunnerInv,
         StartSession \/ StopSession \/ CleanupComplete \/ ClientConnects \/ ClientLeaves
           \/ MediaReceived \/ \E r \in Requests : RequestArrives(r)
  PROVE  RunnerInv'
<1>0. up' = up /\ hops' = hops
  BY DEF StartSession, StopSession, CleanupComplete, ClientConnects, ClientLeaves,
         MediaReceived, RequestArrives
<1>1. CrashIsLast'
  BY <1>0 DEF RunnerInv, CrashIsLast
<1>2. CASE StartSession
  <2>1. PICK st \in SteppedKinds, l \in Limits, sd \in Seeds :
          start' = [stepped |-> st, limit |-> l, seeded |-> sd]
    BY <1>2 DEF StartSession
  <2>2. sd \in BOOLEAN /\ start'.seeded = sd
    BY <2>1, StepAssumption
  <2>3. /\ state = "READY" /\ state' = "RUNNING" /\ startingDone' = ~sd /\ request' = request
        /\ seeding' = IF sd THEN "command" ELSE "none"
    BY <1>2, <2>2 DEF StartSession, asks
  <2>4. \A r \in Requests : /\ request[r].at \notin {"released", "cleared"}
                            /\ r \in StepRequests => request[r].at # "fetching"
    BY <2>3 DEF RunnerInv
  <2> QED BY <1>1, <2>2, <2>3, <2>4 DEF RunnerInv, CrashIsLast
<1>3. CASE StopSession
  BY <1>1, <1>3, EndKeepsRunner DEF StopSession
<1>4. CASE CleanupComplete
  <2>1. /\ state = "CLOSING" /\ state' = "READY"
        /\ \A r \in Requests : request[r].at \notin {"released", "cleared"}
        /\ UNCHANGED <<posted, start, seeding, startingDone, request>>
    BY <1>4 DEF CleanupComplete, seeds, asks
  <2> QED BY <1>1, <2>1 DEF RunnerInv, CrashIsLast
<1>5. CASE ClientConnects \/ ClientLeaves \/ MediaReceived
  <2>1. UNCHANGED <<state, posted, start, seeding, startingDone, request>>
    BY <1>5 DEF ClientConnects, ClientLeaves, MediaReceived, runner, session, seeds, asks
  <2> QED BY <1>1, <2>1 DEF RunnerInv, CrashIsLast
<1>6. CASE \E r \in Requests : RequestArrives(r)
  <2>1. PICK r \in Requests : RequestArrives(r)
    BY <1>6
  <2>2. /\ request' = [request EXCEPT ![r].at = "queued"]
        /\ UNCHANGED <<state, posted, start, seeding, startingDone>>
    BY <2>1 DEF RequestArrives, session, seeds
  <2>3. /\ request'[r].at = "queued"
        /\ \A q \in Requests : q # r => request'[q] = request[q]
    BY <2>2 DEF Typed, RunnerTyped
  <2> QED BY <1>1, <2>2, <2>3 DEF RunnerInv, CrashIsLast
<1> QED BY <1>2, <1>3, <1>4, <1>5, <1>6

LEMMA StartingInputRunner ==
  ASSUME Typed, RunnerInv, StartingInput
  PROVE  RunnerInv'
<1>0. up' = up /\ hops' = hops
  BY DEF StartingInput, StartingCommandSubmitted, StartingCommandRefused, StartingInputApplied
<1>1. CrashIsLast'
  BY <1>0 DEF RunnerInv, CrashIsLast
<1>2. CASE StartingCommandSubmitted
  BY <1>1, <1>2 DEF StartingCommandSubmitted, RunnerInv, CrashIsLast, session, asks
<1>3. CASE StartingCommandRefused /\ Unattended(start)
  BY <1>1, <1>3, EndKeepsRunner DEF StartingCommandRefused
<1>4. CASE StartingCommandRefused /\ ~Unattended(start)
  BY <1>1, <1>4 DEF StartingCommandRefused, RunnerInv, CrashIsLast
<1>5. CASE StartingInputApplied
  <2>1. Wake(FALSE) /\ FALSE \in BOOLEAN /\ RunnerTyped
    BY <1>5 DEF StartingInputApplied, Typed
  <2>2. \A r \in Requests :
           /\ request'[r].session = request[r].session
           /\ request[r].at \notin {"held", "fetching"} => request'[r] = request[r]
           /\ request[r].at = "held" => request'[r].at = "released"
           /\ request[r].at = "fetching" => request'[r].at = IF FALSE THEN "cleared" ELSE "fetching"
    BY <2>1, WakeIs
  <2>3. /\ seeding = "finish" /\ seeding' = "none" /\ startingDone' = TRUE /\ state = "RUNNING"
        /\ UNCHANGED <<state, posted, start>>
    BY <1>5 DEF StartingInputApplied, RunnerInv
  <2>4. \A r \in Requests : r \in StepRequests => request'[r].at # "fetching"
    BY <2>2, <2>3 DEF RunnerInv
  <2> QED BY <1>1, <2>2, <2>3, <2>4 DEF RunnerInv, CrashIsLast
<1> QED BY <1>2, <1>3, <1>4, <1>5 DEF StartingInput

LEMMA ReportsRunner ==
  ASSUME Typed, RunnerInv, Reports
  PROVE  RunnerInv'
<1>1. up' = up /\ hops # <<>> /\ hops' = Tail(hops) /\ UNCHANGED <<posted, start>>
  BY DEF Reports, RecordStep, EmitHandlerFailure, EvictOnFailure
<1>2. CrashIsLast'
  <2>1. CrashIsLast
    BY DEF RunnerInv, CrashIsLast
  <2> QED BY <1>1, <2>1, CrashStaysLast
<1>3. CASE \E b : StopAt(b)
  <2>1. PICK b : StopAt(b)
    BY <1>3
  <2>2. CASE b
    BY <1>2, <2>1, <2>2, EndKeepsRunner DEF StopAt
  <2>3. CASE ~b
    BY <1>1, <1>2, <2>1, <2>3 DEF StopAt, RunnerInv, CrashIsLast, seeds
  <2> QED BY <2>2, <2>3
<1>4. CASE EvictOnFailure
  BY <1>2, <1>4, EndKeepsRunner DEF EvictOnFailure
<1>5. CASE RecordStep
  BY <1>3, <1>5 DEF RecordStep
<1>6. CASE EmitHandlerFailure
  BY <1>3, <1>6 DEF EmitHandlerFailure
<1> QED BY <1>4, <1>5, <1>6 DEF Reports

LEMMA MessageRunner ==
  ASSUME Typed, RunnerInv, NEW r \in Requests, ClientMessage(r)
  PROVE  RunnerInv'
<1>1. /\ MessageStep(r) /\ UNCHANGED <<state, posted, start, seeding, startingDone, hops, up>>
  BY MessageIs DEF session, seeds
<1>2. /\ request'[r].at \in {"over", "held", "fetching"}
      /\ r \in StepRequests /\ request'[r].at = "fetching" =>
           state = "RUNNING" /\ startingDone /\ request'[r].session = posted
      /\ \A q \in Requests : q # r => request'[q] = request[q]
  <2>1. CASE request'[r] = [request[r] EXCEPT !.at = "over"]
    BY <1>1, <2>1 DEF MessageStep, Typed, RunnerTyped
  <2>2. CASE request'[r].at \in {"over", "held"}
    BY <1>1, <2>2 DEF MessageStep
  <2>3. CASE /\ request'[r] = [at |-> "fetching", session |-> posted]
             /\ startingDone /\ (r \in StepRequests => state = "RUNNING")
    BY <1>1, <2>3 DEF MessageStep
  <2> QED BY <1>1, <2>1, <2>2, <2>3 DEF MessageStep
<1> QED BY <1>1, <1>2 DEF RunnerInv

\* The model thread leaves the runner as it is, but for a callback it schedules.
ModelStep ==
  /\ UNCHANGED runner /\ up
  /\ \/ hops' = hops /\ up'
     \/ \E h \in Callbacks : hops' = Append(hops, h) /\ (h.tag = "crash" <=> ~up')

LEMMA ModelKeepsRunner ==
  ASSUME Typed, RunnerInv, ModelStep
  PROVE  RunnerInv'
<1>1. UNCHANGED <<state, posted, start, seeding, startingDone, request>> /\ up
  BY DEF ModelStep, runner, session, seeds, asks
<1>2. CrashIsLast'
  <2>1. CASE hops' = hops /\ up'
    BY <1>1, <2>1 DEF RunnerInv, CrashIsLast
  <2>2. CASE \E h \in Callbacks : hops' = Append(hops, h) /\ (h.tag = "crash" <=> ~up')
    <3>1. PICK h \in Callbacks : hops' = Append(hops, h) /\ (h.tag = "crash" <=> ~up')
      BY <2>2
    <3>2. hops \in Seq(Callbacks)
      BY DEF Typed, RunnerTyped
    <3>3. ASSUME NEW i \in DOMAIN hops' PROVE hops'[i] = h \/ (i \in DOMAIN hops /\ hops'[i] = hops[i])
      BY <3>1, <3>2, <3>3
    <3> QED BY <1>1, <3>1, <3>3 DEF RunnerInv, CrashIsLast
  <2> QED BY <2>1, <2>2 DEF ModelStep
<1> QED BY <1>1, <1>2 DEF RunnerInv, CrashIsLast

-------------------------------------------------------------------------------
(* The queue, step by step.                                                *)

\* The stages of the two ends of the queue.
LEMMA StagesAre ==
  ASSUME Typed
  PROVE  /\ Now \in Stages /\ Then \in Stages /\ Now.n = started /\ Then.n = posted
         /\ Now.on = IF active THEN "open" ELSE "shut"
         /\ Then.on = IF state = "RUNNING" THEN "open" ELSE "shut"
<1>1. posted \in Nat /\ started \in Nat
  BY DEF Typed, RunnerTyped, ModelTyped, Sessions
<1> QED BY <1>1 DEF Now, Then, Stage, Stages

LEMMA ThenMoves ==
  ASSUME Typed'
  PROVE  /\ Then' \in Stages /\ Then'.n = posted'
         /\ Then'.on = IF state' = "RUNNING" THEN "open" ELSE "shut"
<1>1. posted' \in Nat
  BY DEF Typed, RunnerTyped, Sessions
<1> QED BY <1>1 DEF Then, Stage, Stages

LEMMA NowMoves ==
  ASSUME Typed'
  PROVE  /\ Now' \in Stages /\ Now'.n = started'
         /\ Now'.on = IF active' THEN "open" ELSE "shut"
<1>1. started' \in Nat
  BY DEF Typed, ModelTyped, Sessions
<1> QED BY <1>1 DEF Now, Stage, Stages

LEMMA SameStage ==
  ASSUME NEW p \in Stages, NEW q \in Stages, p.n = q.n, p.on = q.on
  PROVE  p = q
BY DEF Stages

\* An item that belongs to no session, or is a client's command, fits anywhere.
Plain(it) == it.tag \in {"connected", "disconnected"} \/ (it.tag = "command" /\ it.req # System)

LEMMA TrackedPlain ==
  ASSUME NEW s \in Seq(Items), NEW it \in Items, Plain(it), NEW a, NEW b \in Stages,
         NEW P, NEW S, NEW d, NEW R, Tracked(s, a, b, P, S, d, R)
  PROVE  Append(s, it) \in Seq(Items) /\ Tracked(Append(s, it), a, b, P, S, d, R)
<1>1. Fits(it, b, b) /\ ItemOK(it, b, P, S, d, R) /\ ~IsStarting(it)
  BY DEF Plain, Fits, ItemOK, IsStarting
<1> QED BY <1>1, TrackedAppend

\* The runner moves beside the queue.
LEMMA QueueStays ==
  ASSUME Typed, Typed', QueueInv, UNCHANGED <<up, model, posted, start>>,
         \A r \in Requests : request[r].at = "over" => request'[r] = request[r],
         seeding' = "command" => seeding = "command"
  PROVE  up => Tracked(queue, Now', Then, posted', start', seeding', request')
<1>1. CASE up
  <2>1. PICK a, b, P, S, d, R : a = Now /\ b = Then /\ P = posted /\ S = start /\ d = seeding
                                /\ R = request
    OBVIOUS
  <2>2. PICK d2, R2 : d2 = seeding' /\ R2 = request'
    OBVIOUS
  <2>3. queue \in Seq(Items) /\ P \in Nat
    BY <2>1 DEF Typed, RunnerTyped, Sessions
  <2>4. Tracked(queue, a, b, P, S, d, R)
    BY <1>1, <2>1 DEF QueueInv
  <2>5. \A r \in Requests : R[r].at = "over" => R2[r] = R[r]
    BY <2>1, <2>2
  <2>6. d2 = "command" => d = "command"
    BY <2>1, <2>2
  <2>7. Tracked(queue, a, b, P, S, d2, R2)
    BY <2>3, <2>4, <2>5, <2>6, TrackedMoves
  <2>8. Now' = Now
    BY DEF Now, Stage, model, gate
  <2> QED BY <2>1, <2>2, <2>7, <2>8
<1> QED BY <1>1

\* The session ends in the runner, and its end is posted.
LEMMA QueueEnds ==
  ASSUME Typed, Typed', QueueInv, UNCHANGED <<up, model, posted, start>>,
         state = "RUNNING", End("CLOSING"), Post(<<[tag |-> "ended"]>>)
  PROVE  QueueInv'
<1>0. RunnerTyped /\ queue \in Seq(Items)
  BY DEF Typed, RunnerTyped
<1>1. /\ state' = "CLOSING" /\ seeding' = "none"
      /\ \A r \in Requests : request[r].at \notin {"held", "fetching"} => request'[r] = request[r]
  BY <1>0, EndIs
<1>2. CASE up
  <2>1. Tracked(queue, Now', Then, posted', start', seeding', request')
    BY <1>1, <1>2, QueueStays
  <2>2. PICK it \in Items : it = [tag |-> "ended"]
    BY DEF Items
  <2>3. queue' = Append(queue, it)
    BY <1>0, <1>2, <2>2, PostOne
  <2>4. PICK a, b, c : a = Now' /\ b = Then /\ c = Then'
    OBVIOUS
  <2>5. PICK P, S, d, R : P = posted' /\ S = start' /\ d = seeding' /\ R = request'
    OBVIOUS
  <2>6. b \in Stages /\ c \in Stages /\ b.n = posted /\ c.n = posted' /\ b.on = "open" /\ c.on = "shut"
    <3>1. /\ Then' \in Stages /\ Then'.n = posted'
          /\ Then'.on = IF state' = "RUNNING" THEN "open" ELSE "shut"
      BY ThenMoves
    <3> QED BY <1>1, <2>4, <3>1, StagesAre
  <2>7. Fits(it, b, c) /\ ItemOK(it, c, P, S, d, R) /\ ~IsStarting(it)
    BY <2>2, <2>6 DEF Fits, ItemOK, IsStarting
  <2>8. Tracked(queue, a, b, P, S, d, R)
    BY <2>1, <2>4, <2>5
  <2>9. Tracked(Append(queue, it), a, c, P, S, d, R)
    BY <1>0, <2>6, <2>7, <2>8, TrackedAppend
  <2> QED BY <2>3, <2>4, <2>5, <2>9 DEF QueueInv
<1> QED BY <1>2 DEF QueueInv

\* An item that fits anywhere is posted.
LEMMA QueuePlain ==
  ASSUME Typed, Typed', QueueInv, UNCHANGED <<up, model, posted, start, state>>,
         \A r \in Requests : request[r].at = "over" => request'[r] = request[r],
         seeding' = "command" => seeding = "command",
         NEW it \in Items, Plain(it), queue' = IF up THEN Append(queue, it) ELSE queue
  PROVE  QueueInv'
<1>1. CASE up
  <2>1. Tracked(queue, Now', Then, posted', start', seeding', request')
    BY <1>1, QueueStays
  <2>2. PICK a, b : a = Now' /\ b = Then /\ b = Then'
    BY DEF Then, Stage
  <2>3. PICK P, S, d, R : P = posted' /\ S = start' /\ d = seeding' /\ R = request'
    OBVIOUS
  <2>4. b \in Stages /\ queue \in Seq(Items)
    BY <2>2, StagesAre DEF Typed, RunnerTyped
  <2>5. Tracked(queue, a, b, P, S, d, R)
    BY <2>1, <2>2, <2>3
  <2>6. Tracked(Append(queue, it), a, b, P, S, d, R)
    BY <2>4, <2>5, TrackedPlain
  <2> QED BY <1>1, <2>2, <2>3, <2>6 DEF QueueInv
<1> QED BY <1>1 DEF QueueInv

\* Nothing is posted.
LEMMA QueueSame ==
  ASSUME Typed, Typed', QueueInv, UNCHANGED <<up, model, posted, start, queue>>,
         state' = "RUNNING" <=> state = "RUNNING",
         \A r \in Requests : request[r].at = "over" => request'[r] = request[r],
         seeding' = "command" => seeding = "command"
  PROVE  QueueInv'
<1>1. up => Tracked(queue, Now', Then, posted', start', seeding', request')
  BY QueueStays
<1>2. Then' = Then
  BY DEF Then, Stage
<1> QED BY <1>1, <1>2 DEF QueueInv

\* A session starts: its start is posted behind the end of the one before, and
\* the system client behind it.
LEMMA StartQueue ==
  ASSUME Typed, Typed', QueueInv, StartSession
  PROVE  QueueInv'
<1>0. /\ RunnerTyped /\ queue \in Seq(Items) /\ posted \in Nat /\ state = "READY" /\ state' = "RUNNING"
      /\ posted' = posted + 1 /\ request' = request /\ up' = up /\ start' \in Starts
      /\ started' = started /\ active' = active
  BY DEF Typed, RunnerTyped, StartSession, Sessions, asks, model, gate
<1>1. CASE up
  <2>1. PICK S : S = start'
    OBVIOUS
  <2>2. PICK x \in Items : x = SessionStarted(S)
    BY <1>0, <2>1 DEF SessionStarted, Items
  <2>3. PICK y \in Items : y = Connection("connected", FALSE, TRUE)
    <3>1. PICK b \in BOOLEAN : b = (FALSE \/ TRUE)
      OBVIOUS
    <3>2. Connection("connected", FALSE, TRUE) = [tag |-> "connected", some |-> b]
      BY <3>1 DEF Connection
    <3> QED BY <3>2 DEF Items
  <2>4. PICK t : t = IF system' THEN <<Connection("connected", FALSE, TRUE)>> ELSE <<>>
    OBVIOUS
  <2>5. Post(<<x>> \o t) /\ (t = <<>> \/ t = <<y>>)
    BY <2>1, <2>2, <2>3, <2>4 DEF StartSession
  <2>6. queue' = Append(queue, x) \/ queue' = Append(Append(queue, x), y)
    <3>1. CASE t = <<>>
      <4>1. <<x>> \o <<>> = <<x>>
        OBVIOUS
      <4> QED BY <1>0, <1>1, <2>5, <3>1, <4>1, PostOne
    <3>2. CASE t = <<y>>
      BY <1>0, <1>1, <2>5, <3>2, PostTwo
    <3> QED BY <2>5, <3>1, <3>2
  <2>7. PICK a, b, c : a = Now /\ b = Then /\ c = Then' /\ a = Now'
    BY <1>0 DEF Now, Stage
  <2>8. PICK P, P2, d2, R, R2 : P = posted /\ P2 = posted' /\ d2 = seeding' /\ R = request /\ R2 = request'
    OBVIOUS
  <2>9. PICK S0, d : S0 = start /\ d = seeding
    OBVIOUS
  <2>10. Tracked(queue, a, b, P, S0, d, R)
    BY <1>1, <2>7, <2>8, <2>9 DEF QueueInv
  <2>11. /\ b \in Stages /\ c \in Stages /\ b.n = P /\ c.n = P2 /\ b.on = "shut" /\ c.on = "open"
         /\ P \in Nat /\ P2 = P + 1 /\ b.n <= P
    BY <1>0, <2>7, <2>8, StagesAre, ThenMoves
  <2>12. \A r \in Requests : R[r].at = "over" => R2[r] = R[r]
    BY <1>0, <2>8
  <2>13. Tracked(queue, a, b, P2, S, d2, R2)
    BY <1>0, <2>10, <2>11, <2>12, TrackedMoves
  <2>14. Fits(x, b, c) /\ ItemOK(x, c, P2, S, d2, R2) /\ ~IsStarting(x)
    BY <2>2, <2>11 DEF Fits, ItemOK, IsStarting, SessionStarted
  <2>15. Tracked(Append(queue, x), a, c, P2, S, d2, R2)
    BY <1>0, <2>11, <2>13, <2>14, TrackedAppend
  <2>16. Append(queue, x) \in Seq(Items) /\ Plain(y)
    BY <1>0, <2>3 DEF Plain, Connection
  <2>17. Tracked(Append(Append(queue, x), y), a, c, P2, S, d2, R2)
    BY <2>11, <2>15, <2>16, TrackedPlain
  <2> QED BY <2>1, <2>6, <2>7, <2>8, <2>15, <2>17 DEF QueueInv
<1> QED BY <1>0, <1>1 DEF QueueInv

LEMMA EnvironmentQueue ==
  ASSUME Typed, Typed', RunnerInv, QueueInv,
         StartSession \/ StopSession \/ CleanupComplete \/ ClientConnects \/ ClientLeaves
           \/ MediaReceived \/ \E r \in Requests : RequestArrives(r)
  PROVE  QueueInv'
<1>0. queue \in Seq(Items) /\ system \in BOOLEAN
      /\ request \in [Requests -> [at : Messages, session : Sessions]]
  BY DEF Typed, RunnerTyped
<1>1. CASE StartSession
  BY <1>1, StartQueue
<1>2. CASE StopSession
  BY <1>2, QueueEnds DEF StopSession
<1>3. CASE CleanupComplete
  BY <1>3, QueueSame DEF CleanupComplete, seeds, asks
<1>4. CASE ClientConnects
  <2>1. PICK b \in BOOLEAN : b = (TRUE \/ system)
    OBVIOUS
  <2>2. PICK it \in Items : it = [tag |-> "connected", some |-> b]
    BY DEF Items
  <2>3. Post(<<it>>) /\ Plain(it)
    BY <1>4, <2>1, <2>2 DEF ClientConnects, Connection, Plain
  <2>4. queue' = IF up THEN Append(queue, it) ELSE queue
    BY <1>0, <2>3, PostOne
  <2>5. UNCHANGED <<up, model, posted, start, state, request, seeding>>
    BY <1>4 DEF ClientConnects, seeds, asks
  <2> QED BY <2>3, <2>4, <2>5, QueuePlain
<1>5. CASE ClientLeaves
  <2>1. PICK b \in BOOLEAN : b = (FALSE \/ system)
    OBVIOUS
  <2>2. PICK it \in Items : it = [tag |-> "disconnected", some |-> b]
    BY DEF Items
  <2>3. Post(<<it>>) /\ Plain(it)
    BY <1>5, <2>1, <2>2 DEF ClientLeaves, Connection, Plain
  <2>4. queue' = IF up THEN Append(queue, it) ELSE queue
    BY <1>0, <2>3, PostOne
  <2>5. UNCHANGED <<up, model, posted, start, state, request, seeding>>
    BY <1>5 DEF ClientLeaves, seeds, asks
  <2> QED BY <2>3, <2>4, <2>5, QueuePlain
<1>6. CASE MediaReceived
  BY <1>6, QueueSame DEF MediaReceived, runner, session, seeds, asks
<1>7. CASE \E r \in Requests : RequestArrives(r)
  <2>1. PICK r \in Requests : RequestArrives(r)
    BY <1>7
  <2>2. /\ request[r].at = "new" /\ request' = [request EXCEPT ![r].at = "queued"]
        /\ UNCHANGED <<up, model, posted, start, state, seeding, queue>>
    BY <2>1 DEF RequestArrives, session, seeds
  <2>3. \A q \in Requests : request[q].at = "over" => request'[q] = request[q]
    BY <1>0, <2>2
  <2> QED BY <2>2, <2>3, QueueSame
<1> QED BY <1>1, <1>2, <1>3, <1>4, <1>5, <1>6, <1>7

\* The starting command is posted in its session, and what its end lets go on
\* is posted behind it.
LEMMA StartingInputQueue ==
  ASSUME Typed, Typed', RunnerInv, QueueInv, StartingInput
  PROVE  QueueInv'
<1>0. /\ RunnerTyped /\ queue \in Seq(Items) /\ posted \in Sessions /\ posted \in Nat
      /\ client \in BOOLEAN
  BY DEF Typed, RunnerTyped, Sessions
<1>1. CASE StartingCommandSubmitted
  <2>0. /\ seeding = "command" /\ seeding' = "finish" /\ state = "RUNNING" /\ start.seeded
        /\ UNCHANGED <<up, model, state, posted, start, request>>
    BY <1>1 DEF StartingCommandSubmitted, RunnerInv, session, asks
  <2>1. PICK it \in Items : it = [tag |-> "command", req |-> System, session |-> posted]
    BY <1>0 DEF Items
  <2>2. CASE up
    <3>1. queue' = Append(queue, it)
      BY <1>0, <1>1, <2>1, <2>2, PostOne DEF StartingCommandSubmitted
    <3>2. PICK a, b : a = Now /\ b = Then /\ a = Now' /\ b = Then'
      BY <2>0 DEF Now, Then, Stage, model, gate
    <3>3. PICK P, S, d, d2, R : P = posted /\ S = start /\ d = seeding /\ d2 = seeding' /\ R = request
      OBVIOUS
    <3>4. Tracked(queue, a, b, P, S, d, R)
      BY <2>2, <3>2, <3>3 DEF QueueInv
    <3>5. b \in Stages /\ b.n = posted /\ b.on = "open"
      BY <2>0, <3>2, StagesAre
    <3>6. /\ Fits(it, b, b) /\ ItemOK(it, b, P, S, d, R)
          /\ d = "command" /\ it.session = P /\ S.seeded
      BY <2>0, <2>1, <3>3, <3>5 DEF Fits, ItemOK
    <3>7. Tracked(Append(queue, it), a, b, P, S, d, R)
      BY <1>0, <3>4, <3>5, <3>6, TrackedAppend
    <3>8. Append(queue, it) \in Seq(Items) /\ P \in Nat /\ (d2 = "command" => d = "command")
          /\ \A r \in Requests : R[r].at = "over" => R[r] = R[r]
      BY <1>0, <2>0, <3>3
    <3>9. Tracked(Append(queue, it), a, b, P, S, d2, R)
      BY <3>7, <3>8, TrackedMoves
    <3> QED BY <2>0, <3>1, <3>2, <3>3, <3>9 DEF QueueInv
  <2> QED BY <2>0, <2>2 DEF QueueInv
<1>2. CASE StartingCommandRefused /\ Unattended(start)
  <2>1. state = "RUNNING" /\ UNCHANGED <<up, model, posted, start>>
    BY <1>2 DEF StartingCommandRefused, RunnerInv
  <2>2. End("CLOSING") /\ Post(<<[tag |-> "ended"]>>)
    BY <1>2 DEF StartingCommandRefused
  <2> QED BY <2>1, <2>2, QueueEnds
<1>3. CASE StartingCommandRefused /\ ~Unattended(start)
  BY <1>3, QueueSame DEF StartingCommandRefused
<1>4. CASE StartingInputApplied
  <2>0. /\ seeding' = "none" /\ Wake(FALSE) /\ FALSE \in BOOLEAN
        /\ UNCHANGED <<up, model, state, posted, start>>
    BY <1>4 DEF StartingInputApplied
  <2>1. \A r \in Requests :
          request[r].at \notin {"held", "fetching"} => request'[r] = request[r]
    BY <1>0, <2>0, WakeIs
  <2>2. CASE up
    <3>1. Tracked(queue, Now', Then, posted', start', seeding', request')
      BY <2>0, <2>1, <2>2, QueueStays
    <3>2. PICK x \in Items : x = Connection("disconnected", client, FALSE)
      <4>1. PICK b \in BOOLEAN : b = (client \/ FALSE)
        OBVIOUS
      <4>2. Connection("disconnected", client, FALSE) = [tag |-> "disconnected", some |-> b]
        BY <4>1 DEF Connection
      <4> QED BY <4>2 DEF Items
    <3>3. PICK y \in Items : y = [tag |-> "applied"]
      BY DEF Items
    <3>4. PICK t : t = IF system' = system THEN <<>>
                       ELSE <<Connection("disconnected", client, FALSE)>>
      OBVIOUS
    <3>5. Post(t \o <<y>>) /\ (t = <<>> \/ t = <<x>>)
      BY <1>4, <3>2, <3>3, <3>4 DEF StartingInputApplied
    <3>6. queue' = Append(queue, y) \/ queue' = Append(Append(queue, x), y)
      <4>1. CASE t = <<>>
        <5>1. <<>> \o <<y>> = <<y>>
          OBVIOUS
        <5> QED BY <1>0, <2>2, <3>5, <4>1, <5>1, PostOne
      <4>2. CASE t = <<x>>
        BY <1>0, <2>2, <3>5, <4>2, PostTwo
      <4> QED BY <3>5, <4>1, <4>2
    <3>7. PICK a, b : a = Now' /\ b = Then /\ b = Then'
      BY <2>0 DEF Then, Stage
    <3>8. PICK P, S, d, R : P = posted' /\ S = start' /\ d = seeding' /\ R = request'
      OBVIOUS
    <3>9. b \in Stages /\ Plain(x) /\ Tracked(queue, a, b, P, S, d, R)
      BY <3>1, <3>2, <3>7, <3>8, StagesAre DEF Plain, Connection
    <3>10. Append(queue, x) \in Seq(Items) /\ Tracked(Append(queue, x), a, b, P, S, d, R)
      BY <1>0, <3>9, TrackedPlain
    <3>11. Fits(y, b, b) /\ ItemOK(y, b, P, S, d, R) /\ ~IsStarting(y)
      BY <2>0, <3>3, <3>8 DEF Fits, ItemOK, IsStarting
    <3>12. Tracked(Append(queue, y), a, b, P, S, d, R)
      BY <1>0, <3>9, <3>11, TrackedAppend
    <3>13. Tracked(Append(Append(queue, x), y), a, b, P, S, d, R)
      BY <3>9, <3>10, <3>11, TrackedAppend
    <3> QED BY <3>6, <3>7, <3>8, <3>12, <3>13 DEF QueueInv
  <2> QED BY <2>0, <2>2 DEF QueueInv
<1> QED BY <1>1, <1>2, <1>3, <1>4 DEF StartingInput

\* A report or a failure may end the session; a crash finds no loop to post to.
LEMMA ReportsQueue ==
  ASSUME Typed, Typed', RunnerInv, QueueInv, Reports
  PROVE  QueueInv'
<1>0. UNCHANGED <<up, model, posted, start>> /\ hops # <<>> /\ hops \in Seq(Callbacks)
  BY DEF Reports, RecordStep, EmitHandlerFailure, EvictOnFailure, Typed, RunnerTyped
<1>1. CASE \E b : StopAt(b) /\ (b => state = "RUNNING")
  <2>1. PICK b : StopAt(b) /\ (b => state = "RUNNING")
    BY <1>1
  <2>2. CASE b
    BY <1>0, <2>1, <2>2, QueueEnds DEF StopAt
  <2>3. CASE ~b
    BY <1>0, <2>1, <2>3, QueueSame DEF StopAt, seeds
  <2> QED BY <2>2, <2>3
<1>2. CASE RecordStep
  BY <1>1, <1>2 DEF RecordStep, Reached
<1>3. CASE EmitHandlerFailure
  BY <1>1, <1>3 DEF EmitHandlerFailure
<1>4. CASE EvictOnFailure
  <2>1. 1 \in DOMAIN hops /\ hops[1].tag = "crash"
    BY <1>0, <1>4 DEF EvictOnFailure
  <2>2. ~up
    BY <2>1 DEF RunnerInv
  <2> QED BY <1>0, <2>2 DEF QueueInv
<1> QED BY <1>2, <1>3, <1>4 DEF Reports

\* A client's message is posted in the session it was admitted to.
LEMMA MessageQueue ==
  ASSUME Typed, Typed', RunnerInv, QueueInv, NEW r \in Requests, ClientMessage(r)
  PROVE  QueueInv'
<1>0. /\ MessageStep(r) /\ request[r].at \notin {"new", "over"}
      /\ UNCHANGED <<session, seeds, records, hops, buffer, up, model>>
  BY MessageIs
<1>1. /\ UNCHANGED <<up, model, posted, start, state, seeding>> /\ RunnerTyped
      /\ queue \in Seq(Items)
  BY <1>0 DEF session, seeds, Typed, RunnerTyped
<1>2. \A q \in Requests : request[q].at = "over" => request'[q] = request[q]
  BY <1>0 DEF MessageStep
<1>3. CASE queue' = queue
  BY <1>1, <1>2, <1>3, QueueSame
<1>4. CASE /\ Submitted(r) /\ request'[r].at = "over"
           /\ r \in StepRequests =>
                state = "RUNNING" /\ seeding # "command" /\ request'[r].session = posted
  <2>1. CASE up
    <3>1. PICK x : x = CallOf(r)
      OBVIOUS
    <3>2. PICK y : y = StepOf(r)
      OBVIOUS
    <3>3. /\ x \in Items
          /\ r \notin StepRequests => queue' = Append(queue, x)
          /\ r \in StepRequests =>
               /\ y \in Items
               /\ queue' = Append(queue, y) \/ queue' = Append(Append(queue, x), y)
      BY <1>1, <1>4, <2>1, <3>1, <3>2, SubmittedIs
    <3>4. PICK a, b : a = Now' /\ b = Then /\ b = Then'
      BY <1>1 DEF Then, Stage
    <3>5. PICK P, S, d, R : P = posted' /\ S = start' /\ d = seeding' /\ R = request'
      OBVIOUS
    <3>6. Tracked(queue, Now', Then, posted', start', seeding', request')
      BY <1>1, <1>2, <2>1, QueueStays
    <3>7. b \in Stages /\ Tracked(queue, a, b, P, S, d, R)
      BY <3>4, <3>5, <3>6, StagesAre
    <3>8. Plain(x)
      BY <3>1, StepAssumption DEF Plain, CallOf
    <3>9. Append(queue, x) \in Seq(Items) /\ Tracked(Append(queue, x), a, b, P, S, d, R)
      BY <1>1, <3>3, <3>7, <3>8, TrackedPlain
    <3>10. CASE r \notin StepRequests
      BY <3>3, <3>4, <3>5, <3>9, <3>10 DEF QueueInv
    <3>11. CASE r \in StepRequests
      <4>1. b.on = "open" /\ b.n = posted
        BY <1>4, <3>4, <3>11, StagesAre
      <4>2. Fits(y, b, b) /\ ItemOK(y, b, P, S, d, R) /\ ~IsStarting(y)
        BY <1>1, <1>4, <3>2, <3>5, <3>11, <4>1 DEF Fits, ItemOK, IsStarting, StepOf
      <4>3. Tracked(Append(queue, y), a, b, P, S, d, R)
        BY <1>1, <3>3, <3>7, <3>11, <4>2, TrackedAppend
      <4>4. Tracked(Append(Append(queue, x), y), a, b, P, S, d, R)
        BY <3>3, <3>7, <3>9, <3>11, <4>2, TrackedAppend
      <4> QED BY <3>3, <3>4, <3>5, <3>11, <4>3, <4>4 DEF QueueInv
    <3> QED BY <3>10, <3>11
  <2> QED BY <1>1, <2>1 DEF QueueInv
<1> QED BY <1>0, <1>3, <1>4 DEF MessageStep

\* What every step of the model thread leaves alone.
LEMMA ModelStepIs ==
  ASSUME Typed, ModelInv, InboundLoop \/ RunLoop \/ Crashes
  PROVE  ModelStep
<1>0. run.req \in StepRequests \union {NoRequest} /\ accepted \in Nat
  BY DEF Typed, ModelTyped
<1>1. CASE InboundLoop
  <2>1. CASE CommandRuns
    <3>1. UNCHANGED runner /\ up /\ up' = up
      BY <2>1 DEF CommandRuns, Locked
    <3>2. \/ hops' = hops
          \/ hops' = Append(hops, [tag |-> "failure", session |-> inbound.item.session])
             /\ inbound.item.tag = "command"
      BY <2>1 DEF CommandRuns, Locked
    <3>3. inbound.item.tag = "command" => inbound.item.session \in Sessions
      BY DEF Typed, ModelTyped, Items
    <3>4. inbound.item.tag = "command" =>
            [tag |-> "failure", session |-> inbound.item.session] \in Callbacks
      BY <3>3 DEF Callbacks
    <3> QED BY <3>1, <3>2, <3>4 DEF ModelStep
  <2>2. CASE ~CommandRuns
    <3>1. UNCHANGED <<runner, hops, up>> /\ up
      BY <1>1, <2>2 DEF InboundLoop, DispatchConnection, DispatchSessionStarted,
                    DispatchStartingInputApplied, DispatchSessionEnded, DispatchCommand,
                    DispatchStep, ConnectionHookRuns, SessionStartedRuns, SessionEndedRuns,
                    NextIs, Locked
    <3> QED BY <3>1 DEF ModelStep
  <2> QED BY <2>1, <2>2
<1>2. CASE RunLoop
  <2>1. CASE RequestedOutputReturns
    <3>1. PICK h \in Callbacks : h = Report(run.req, accepted) /\ h.tag = "report"
      BY <1>0, ReportIs
    <3> QED BY <2>1, <3>1 DEF RequestedOutputReturns, ModelStep
  <2>2. CASE OutputReturns \/ EmitReturns
    <3>0. NoRequest \in StepRequests \union {NoRequest} /\ 0 \in Nat
      OBVIOUS
    <3>1. PICK h : h = Report(NoRequest, 0)
      OBVIOUS
    <3>2. h \in Callbacks /\ h.tag = "report"
      BY <3>0, <3>1, ReportIs
    <3> QED BY <2>2, <3>1, <3>2 DEF OutputReturns, EmitReturns, ModelStep
  <2>3. CASE ~ (RequestedOutputReturns \/ OutputReturns \/ EmitReturns)
    <3>1. UNCHANGED <<runner, hops, up>> /\ up
      BY <1>2, <2>3 DEF RunLoop, TurnTaken, StepBegins, InputRefused, InputAccepted, SleepEnds,
                    RequestedInputRefused, RequestedInputAccepted
    <3> QED BY <3>1 DEF ModelStep
  <2> QED BY <2>1, <2>2, <2>3
<1>3. CASE Crashes
  <2>1. PICK h \in Callbacks : h = [tag |-> "crash"]
    BY DEF Callbacks
  <2> QED BY <1>3, <2>1 DEF Crashes, ModelStep
<1> QED BY <1>1, <1>2, <1>3

\* The head of the queue is taken, and moves the model to its stage.
LEMMA QueueTaken ==
  ASSUME Typed, Typed', QueueInv, NEW tag, NextIs(tag), UNCHANGED runner,
         tag = "started" => started' = started + 1 /\ active' = TRUE,
         tag = "ended" => started' = started /\ active' = FALSE,
         tag \notin {"started", "ended"} => started' = started /\ active' = active
  PROVE  QueueInv'
<1>1. up /\ queue # <<>> /\ Head(queue).tag = tag /\ queue' = Tail(queue)
  BY NextItem
<1>2. PICK c \in Stages :
        /\ Fits(Head(queue), Now, c)
        /\ Tracked(Tail(queue), c, Then, posted, start, seeding, request)
  BY <1>1, HeadMoves
<1>3. /\ Now \in Stages /\ Now.n = started /\ Now.on = IF active THEN "open" ELSE "shut"
      /\ Now' \in Stages /\ Now'.n = started' /\ Now'.on = IF active' THEN "open" ELSE "shut"
  BY StagesAre, NowMoves
<1>4. c.n = Now'.n /\ c.on = Now'.on
  <2>1. CASE tag = "started"
    BY <1>1, <1>2, <1>3, <2>1 DEF Fits
  <2>2. CASE tag = "ended"
    BY <1>1, <1>2, <1>3, <2>2 DEF Fits
  <2>3. CASE tag \notin {"started", "ended"}
    BY <1>1, <1>2, <1>3, <2>3 DEF Fits
  <2> QED BY <2>1, <2>2, <2>3
<1>5. PICK q : q = Now'
  OBVIOUS
<1>6. c = q
  BY <1>3, <1>4, <1>5, SameStage
<1>7. Then' = Then /\ UNCHANGED <<posted, start, seeding, request>>
  BY DEF Then, Stage, runner, session, seeds, asks
<1> QED BY <1>1, <1>2, <1>5, <1>6, <1>7 DEF QueueInv

LEMMA ModelQueue ==
  ASSUME Typed, Typed', ModelInv, QueueInv, InboundLoop \/ RunLoop \/ Crashes
  PROVE  QueueInv'
<1>0. UNCHANGED runner /\ UNCHANGED <<posted, start, seeding, request, state>>
  <2>1. UNCHANGED runner
    BY ModelStepIs DEF ModelStep
  <2> QED BY <2>1 DEF runner, session, seeds, asks
<1>1. CASE DispatchConnection
  <2>1. PICK tag \in {"connected", "disconnected"} : NextIs(tag)
    BY <1>1 DEF DispatchConnection
  <2>2. started' = started /\ active' = active
    BY <1>1 DEF DispatchConnection
  <2>3. tag # "started" /\ tag # "ended"
    BY <2>1
  <2> QED BY <1>0, <2>1, <2>2, <2>3, QueueTaken
<1>2. CASE DispatchSessionStarted
  BY <1>0, <1>2, QueueTaken DEF DispatchSessionStarted
<1>3. CASE DispatchSessionEnded
  BY <1>0, <1>3, QueueTaken DEF DispatchSessionEnded
<1>4. CASE DispatchStartingInputApplied
  BY <1>0, <1>4, QueueTaken DEF DispatchStartingInputApplied
<1>5. CASE DispatchCommand
  BY <1>0, <1>5, QueueTaken DEF DispatchCommand, gate
<1>6. CASE DispatchStep
  BY <1>0, <1>6, QueueTaken DEF DispatchStep, gate
<1>7. CASE UNCHANGED <<queue, started, active, up>>
  BY <1>0, <1>7 DEF QueueInv, Now, Then, Stage
<1>8. CASE Crashes
  BY <1>8 DEF Crashes, QueueInv
<1>9. CASE \/ ConnectionHookRuns \/ SessionStartedRuns \/ SessionEndedRuns \/ CommandRuns \/ RunLoop
  BY <1>7, <1>9 DEF ConnectionHookRuns, SessionStartedRuns, SessionEndedRuns, CommandRuns, RunLoop,
               TurnTaken, StepBegins, InputRefused, InputAccepted, OutputReturns, EmitReturns,
               SleepEnds, RequestedInputRefused, RequestedInputAccepted, RequestedOutputReturns, gate
<1> QED BY <1>1, <1>2, <1>3, <1>4, <1>5, <1>6, <1>8, <1>9 DEF InboundLoop

-------------------------------------------------------------------------------
(* The starting input comes first, and a request keeps its session.        *)

\* The running session's starting command is still to come.
SeedWaits ==
  \/ seeding = "command" /\ started = posted
  \/ \E i \in DOMAIN queue : IsStarting(queue[i]) /\ queue[i].session = started

\* The gate is shut for it, and no step, begun or asked for, is of its session.
SeedInv ==
  up => /\ active /\ SeedWaits => seedPending
        /\ run.at \in StepPoints \union {"lock"} \/ pending # NoRequest => ~SeedWaits
        /\ pending # NoRequest => request[pending].at = "over" /\ request[pending].session = started
        /\ run.at \in Asked => request[run.req].at = "over" /\ request[run.req].session = started

\* Where there is a request, it is one of the client's.
LEMMA AskedFor ==
  ASSUME Typed, ModelInv, up
  PROVE  /\ pending # NoRequest => pending \in Requests
         /\ run.at \in Asked => run.req \in Requests
<1>1. /\ pending \in StepRequests \union {NoRequest} /\ run.req \in StepRequests \union {NoRequest}
      /\ (run.at \in Asked => run.req # NoRequest)
  BY DEF Typed, ModelTyped, ModelInv, AskOK
<1> QED BY <1>1 DEF Requests

\* The items of a queue that are neither a command nor a step.
Quiet(it) == it.tag \notin {"command", "step"}

QuietPost ==
  /\ \A i \in DOMAIN queue : i \in DOMAIN queue' /\ queue'[i] = queue[i]
  /\ \A i \in DOMAIN queue' : i \in DOMAIN queue \/ Quiet(queue'[i])

LEMMA QuietOne ==
  ASSUME queue \in Seq(Items), NEW x \in Items, Quiet(x), Post(<<x>>)
  PROVE  QuietPost
<1>1. queue' = IF up THEN Append(queue, x) ELSE queue
  BY PostOne
<1>2. CASE queue' = queue
  BY <1>2 DEF QuietPost
<1>3. CASE queue' = Append(queue, x)
  BY <1>3 DEF QuietPost
<1> QED BY <1>1, <1>2, <1>3

LEMMA QuietTwo ==
  ASSUME queue \in Seq(Items), NEW x \in Items, NEW y \in Items, Quiet(x), Quiet(y),
         Post(<<x>> \o <<y>>)
  PROVE  QuietPost
<1>1. queue' = IF up THEN Append(Append(queue, x), y) ELSE queue
  BY PostTwo
<1>2. CASE queue' = queue
  BY <1>2 DEF QuietPost
<1>3. CASE queue' = Append(Append(queue, x), y)
  <2>1. PICK t : t = Append(queue, x)
    OBVIOUS
  <2>2. t \in Seq(Items) /\ \A i \in DOMAIN queue : i \in DOMAIN t /\ t[i] = queue[i]
    BY <2>1
  <2>3. \A i \in DOMAIN t : i \in DOMAIN queue \/ t[i] = x
    BY <2>1
  <2>4. queue' = Append(t, y)
    BY <1>3, <2>1
  <2>5. \A i \in DOMAIN t : i \in DOMAIN queue' /\ queue'[i] = t[i]
    BY <2>2, <2>4
  <2>6. \A i \in DOMAIN queue' : i \in DOMAIN t \/ queue'[i] = y
    BY <2>2, <2>4
  <2> QED BY <2>2, <2>3, <2>5, <2>6 DEF QuietPost
<1> QED BY <1>1, <1>2, <1>3

LEMMA QuietEnd ==
  ASSUME Typed, Post(<<[tag |-> "ended"]>>)
  PROVE  QuietPost
<1>1. PICK x \in Items : x = [tag |-> "ended"]
  BY DEF Items
<1> QED BY <1>1, QuietOne DEF Typed, RunnerTyped, Quiet

\* What the runner posts but for the starting command and the client's messages.
LEMMA QuietSteps ==
  ASSUME Typed,
         \/ StartSession \/ StopSession \/ CleanupComplete \/ ClientConnects \/ ClientLeaves
         \/ MediaReceived \/ (\E r \in Requests : RequestArrives(r))
         \/ StartingCommandRefused \/ StartingInputApplied \/ Reports
  PROVE  QuietPost
<1>0. queue \in Seq(Items) /\ client \in BOOLEAN /\ system \in BOOLEAN
  BY DEF Typed, RunnerTyped
<1>1. CASE queue' = queue
  BY <1>1 DEF QuietPost
<1>2. ASSUME NEW own \in BOOLEAN, NEW sys \in BOOLEAN, NEW tag \in {"connected", "disconnected"}
      PROVE  Connection(tag, own, sys) \in Items /\ Quiet(Connection(tag, own, sys))
  <2>1. PICK b \in BOOLEAN : b = (own \/ sys)
    OBVIOUS
  <2>2. Connection(tag, own, sys) = [tag |-> tag, some |-> b]
    BY <2>1 DEF Connection
  <2> QED BY <2>2 DEF Items, Quiet
<1>3. CASE StartSession
  <2>1. PICK st \in SteppedKinds, l \in Limits, sd \in Seeds :
          start' = [stepped |-> st, limit |-> l, seeded |-> sd]
    BY <1>3 DEF StartSession
  <2>2. start' \in Starts
    BY <2>1, StepAssumption DEF Starts
  <2>3. PICK x \in Items : x = SessionStarted(start') /\ x.tag = "started"
    <3>1. PICK S \in Starts : S = start'
      BY <2>2
    <3>2. PICK x : x = SessionStarted(S)
      OBVIOUS
    <3>3. x \in Items /\ x.tag = "started"
      BY <3>2 DEF SessionStarted, Items
    <3> QED BY <3>1, <3>2, <3>3
  <2>4. PICK y : y = Connection("connected", FALSE, TRUE)
    OBVIOUS
  <2>5. y \in Items /\ Quiet(y)
    BY <1>2, <2>4
  <2>6. PICK t : t = IF system' THEN <<Connection("connected", FALSE, TRUE)>> ELSE <<>>
    OBVIOUS
  <2>7. Post(<<x>> \o t) /\ (t = <<>> \/ t = <<y>>)
    BY <1>3, <2>3, <2>4, <2>6 DEF StartSession
  <2>8. CASE t = <<>>
    <3>1. <<x>> \o <<>> = <<x>>
      OBVIOUS
    <3> QED BY <1>0, <2>3, <2>7, <2>8, <3>1, QuietOne DEF Quiet
  <2>9. CASE t = <<y>>
    BY <1>0, <2>3, <2>5, <2>7, <2>9, QuietTwo DEF Quiet
  <2> QED BY <2>7, <2>8, <2>9
<1>4. CASE StopSession
  BY <1>4, QuietEnd DEF StopSession
<1>5. CASE CleanupComplete \/ MediaReceived \/ \E r \in Requests : RequestArrives(r)
  BY <1>1, <1>5 DEF CleanupComplete, MediaReceived, RequestArrives
<1>6. CASE ClientConnects
  <2>1. PICK x : x = Connection("connected", TRUE, system)
    OBVIOUS
  <2> QED BY <1>0, <1>2, <1>6, <2>1, QuietOne DEF ClientConnects
<1>7. CASE ClientLeaves
  <2>1. PICK x : x = Connection("disconnected", FALSE, system)
    OBVIOUS
  <2> QED BY <1>0, <1>2, <1>7, <2>1, QuietOne DEF ClientLeaves
<1>8. CASE StartingCommandRefused
  BY <1>1, <1>8, QuietEnd DEF StartingCommandRefused
<1>9. CASE StartingInputApplied
  <2>1. PICK x : x = Connection("disconnected", client, FALSE)
    OBVIOUS
  <2>2. x \in Items /\ Quiet(x)
    BY <1>0, <1>2, <2>1
  <2>3. PICK y \in Items : y = [tag |-> "applied"]
    BY DEF Items
  <2>4. PICK t : t = IF system' = system THEN <<>>
                     ELSE <<Connection("disconnected", client, FALSE)>>
    OBVIOUS
  <2>5. Post(t \o <<y>>) /\ (t = <<>> \/ t = <<x>>)
    BY <1>9, <2>1, <2>3, <2>4 DEF StartingInputApplied
  <2>6. CASE t = <<>>
    <3>1. <<>> \o <<y>> = <<y>>
      OBVIOUS
    <3> QED BY <1>0, <2>3, <2>5, <2>6, <3>1, QuietOne DEF Quiet
  <2>7. CASE t = <<x>>
    BY <1>0, <2>2, <2>3, <2>5, <2>7, QuietTwo DEF Quiet
  <2> QED BY <2>5, <2>6, <2>7
<1>10. CASE Reports
  <2>1. ASSUME NEW b, StopAt(b) PROVE QuietPost
    BY <1>1, <2>1, QuietEnd DEF StopAt
  <2> QED BY <1>1, <1>10, <2>1 DEF Reports, RecordStep, EmitHandlerFailure, EvictOnFailure
<1> QED BY <1>3, <1>4, <1>5, <1>6, <1>7, <1>8, <1>9, <1>10

\* The runner brings no starting command to a session that runs already.
LEMMA SeedStays ==
  ASSUME Typed, ModelInv, SeedInv, UNCHANGED <<up, model>>, SeedWaits' => SeedWaits,
         \A r \in Requests : request[r].at = "over" => request'[r] = request[r]
  PROVE  SeedInv'
<1>1. UNCHANGED <<up, started, active, seedPending, pending, run>>
  BY DEF model, gate
<1>2. CASE up
  <2>1. /\ pending # NoRequest => pending \in Requests
        /\ run.at \in Asked => run.req \in Requests
    BY <1>2, AskedFor
  <2>2. pending # NoRequest => request'[pending] = request[pending]
    BY <1>2, <2>1 DEF SeedInv
  <2>3. run.at \in Asked => request'[run.req] = request[run.req]
    BY <1>2, <2>1 DEF SeedInv
  <2> QED BY <1>1, <1>2, <2>2, <2>3 DEF SeedInv
<1> QED BY <1>1, <1>2 DEF SeedInv

LEMMA QuietWaits ==
  ASSUME Typed, QuietPost, started' = started,
         seeding' = "command" /\ started = posted' => seeding = "command" /\ started = posted
  PROVE  SeedWaits' => SeedWaits
<1>1. ASSUME NEW i \in DOMAIN queue', IsStarting(queue'[i]), queue'[i].session = started
      PROVE  SeedWaits
  <2>1. i \in DOMAIN queue /\ queue'[i] = queue[i]
    BY <1>1 DEF QuietPost, Quiet, IsStarting
  <2> QED BY <1>1, <2>1 DEF SeedWaits
<1> QED BY <1>1 DEF SeedWaits, IsStarting

LEMMA RunnerSeed ==
  ASSUME Typed, ModelInv, RunnerInv, SeedInv,
         \/ StartSession \/ StopSession \/ CleanupComplete \/ ClientConnects \/ ClientLeaves
         \/ MediaReceived \/ (\E r \in Requests : RequestArrives(r))
         \/ StartingCommandRefused \/ StartingInputApplied \/ Reports
  PROVE  SeedInv'
<1>0. UNCHANGED <<up, model>> /\ started' = started
  <2>1. UNCHANGED <<up, model>>
    BY DEF StartSession, StopSession, CleanupComplete, ClientConnects, ClientLeaves, MediaReceived,
           RequestArrives, StartingCommandRefused, StartingInputApplied, Reports, RecordStep,
           EmitHandlerFailure, EvictOnFailure
  <2> QED BY <2>1 DEF model
<1>1. /\ \A r \in Requests : request[r].at = "over" => request'[r] = request[r]
      /\ seeding' = "command" /\ started = posted' => seeding = "command" /\ started = posted
  <2>0. RunnerTyped /\ request \in [Requests -> [at : Messages, session : Sessions]]
        /\ started \in Nat /\ posted \in Nat /\ started <= posted
    BY DEF Typed, RunnerTyped, ModelTyped, Sessions
  <2>1. ASSUME NEW to \in {"CLOSING", "TERMINATED"}, End(to)
        PROVE  /\ \A r \in Requests : request[r].at = "over" => request'[r] = request[r]
               /\ seeding' # "command"
    BY <2>0, <2>1, EndIs
  <2>2. ASSUME NEW b, StopAt(b)
        PROVE  /\ \A r \in Requests : request[r].at = "over" => request'[r] = request[r]
               /\ seeding' = "command" => seeding = "command"
    BY <2>1, <2>2 DEF StopAt, seeds
  <2>3. CASE StartSession
    <3>1. started # posted' /\ request' = request
      BY <2>0, <2>3 DEF StartSession, asks
    <3> QED BY <3>1
  <2>4. CASE StopSession
    BY <2>1, <2>4 DEF StopSession
  <2>5. CASE CleanupComplete \/ ClientConnects \/ ClientLeaves \/ MediaReceived
    BY <2>5 DEF CleanupComplete, ClientConnects, ClientLeaves, MediaReceived, runner, session,
                seeds, asks
  <2>6. CASE \E r \in Requests : RequestArrives(r)
    <3>1. PICK r \in Requests : RequestArrives(r)
      BY <2>6
    <3>2. /\ request[r].at = "new" /\ request' = [request EXCEPT ![r].at = "queued"]
          /\ UNCHANGED <<posted, seeding>>
      BY <3>1 DEF RequestArrives, session, seeds
    <3> QED BY <2>0, <3>2
  <2>7. CASE StartingCommandRefused
    BY <2>1, <2>7 DEF StartingCommandRefused
  <2>8. CASE StartingInputApplied
    <3>1. Wake(FALSE) /\ FALSE \in BOOLEAN /\ seeding' = "none"
      BY <2>8 DEF StartingInputApplied
    <3>2. \A r \in Requests :
            request[r].at \notin {"held", "fetching"} => request'[r] = request[r]
      BY <2>0, <3>1, WakeIs
    <3> QED BY <3>1, <3>2
  <2>9. CASE Reports
    BY <2>1, <2>2, <2>9 DEF Reports, RecordStep, EmitHandlerFailure, EvictOnFailure
  <2> QED BY <2>3, <2>4, <2>5, <2>6, <2>7, <2>8, <2>9
<1>2. QuietPost
  BY QuietSteps
<1>3. SeedWaits' => SeedWaits
  BY <1>0, <1>1, <1>2, QuietWaits
<1> QED BY <1>0, <1>1, <1>3, SeedStays

LEMMA SubmittedSeed ==
  ASSUME Typed, ModelInv, SeedInv, StartingCommandSubmitted
  PROVE  SeedInv'
<1>0. /\ seeding = "command" /\ UNCHANGED <<up, model, posted, request, started>>
      /\ queue \in Seq(Items) /\ posted \in Sessions /\ seeding' = "finish"
  BY DEF StartingCommandSubmitted, session, asks, model, Typed, RunnerTyped
<1>1. PICK it \in Items : it = [tag |-> "command", req |-> System, session |-> posted]
  BY <1>0 DEF Items
<1>2. queue' = IF up THEN Append(queue, it) ELSE queue
  BY <1>0, <1>1, PostOne DEF StartingCommandSubmitted
<1>3. \A i \in DOMAIN queue' : queue'[i] = it \/ (i \in DOMAIN queue /\ queue'[i] = queue[i])
  <2>1. CASE queue' = queue
    BY <2>1
  <2>2. CASE queue' = Append(queue, it)
    BY <1>0, <2>2
  <2> QED BY <1>2, <2>1, <2>2
<1>4. SeedWaits' => SeedWaits
  <2>1. ASSUME NEW i \in DOMAIN queue', IsStarting(queue'[i]), queue'[i].session = started
        PROVE  SeedWaits
    BY <1>0, <1>1, <1>3, <2>1 DEF SeedWaits
  <2> QED BY <1>0, <2>1 DEF SeedWaits, IsStarting
<1> QED BY <1>0, <1>4, SeedStays

LEMMA MessageSeed ==
  ASSUME Typed, ModelInv, RunnerInv, SeedInv, NEW r \in Requests, ClientMessage(r)
  PROVE  SeedInv'
<1>0. /\ MessageStep(r) /\ request[r].at \notin {"new", "over"}
      /\ UNCHANGED <<session, seeds, records, hops, buffer, up, model>>
  BY MessageIs
<1>1. /\ UNCHANGED <<up, model, posted, seeding, started>> /\ RunnerTyped /\ queue \in Seq(Items)
  BY <1>0 DEF session, seeds, model, Typed, RunnerTyped
<1>2. \A q \in Requests : request[q].at = "over" => request'[q] = request[q]
  BY <1>0 DEF MessageStep
<1>3. \A i \in DOMAIN queue' : IsStarting(queue'[i]) => i \in DOMAIN queue /\ queue'[i] = queue[i]
  <2>1. CASE queue' = queue
    BY <2>1
  <2>2. CASE Submitted(r) /\ up
    <3>1. PICK x, y : x = CallOf(r) /\ y = StepOf(r)
      OBVIOUS
    <3>2. ~IsStarting(x) /\ ~IsStarting(y)
      BY <3>1, StepAssumption DEF IsStarting, CallOf, StepOf
    <3>3. /\ x \in Items
          /\ r \notin StepRequests => queue' = Append(queue, x)
          /\ r \in StepRequests =>
               /\ y \in Items
               /\ queue' = Append(queue, y) \/ queue' = Append(Append(queue, x), y)
      BY <1>1, <2>2, <3>1, SubmittedIs
    <3>4. CASE queue' = Append(queue, x)
      BY <1>1, <3>2, <3>3, <3>4
    <3>5. CASE r \in StepRequests /\ queue' = Append(queue, y)
      BY <1>1, <3>2, <3>3, <3>5
    <3>6. CASE r \in StepRequests /\ queue' = Append(Append(queue, x), y)
      <4>1. PICK t : t = Append(queue, x)
        OBVIOUS
      <4>2. t \in Seq(Items) /\ \A i \in DOMAIN t : t[i] = x \/ (i \in DOMAIN queue /\ t[i] = queue[i])
        BY <1>1, <3>3, <4>1
      <4>3. queue' = Append(t, y)
        BY <3>6, <4>1
      <4>4. \A i \in DOMAIN queue' : queue'[i] = y \/ (i \in DOMAIN t /\ queue'[i] = t[i])
        BY <3>3, <3>6, <4>2, <4>3
      <4> QED BY <3>2, <4>2, <4>4
    <3> QED BY <3>3, <3>4, <3>5, <3>6
  <2>3. CASE Submitted(r) /\ ~up
    BY <1>1, <2>1, <2>3, SubmittedIs
  <2> QED BY <1>0, <2>1, <2>2, <2>3 DEF MessageStep
<1>4. SeedWaits' => SeedWaits
  BY <1>1, <1>3 DEF SeedWaits
<1> QED BY <1>1, <1>2, <1>4, SeedStays

-------------------------------------------------------------------------------
(* What run()'s steps come to.                                             *)

\* Where run() goes: it takes the pending request, enters the gate, goes on
\* with its step, waits for its turn, or runs its request.
RunGoes ==
  \/ /\ pending # NoRequest /\ pending' = NoRequest /\ run.at \notin Asked
     /\ run'.at = "request input" /\ run'.session = started /\ run'.req = pending
  \/ /\ pending' = pending /\ run'.at \in {"lock", "input"} /\ (live \/ run.at = "lock")
     /\ run'.at = "input" => run'.session = started
  \/ /\ pending' = pending /\ run'.session = run.session
     /\ \/ run.at = "input" /\ run'.at \in {"output", "sleep"}
        \/ run.at = "output" /\ run'.at \in {"emit", "sleep"}
        \/ run.at = "emit" /\ run'.at = "sleep"
  \/ pending' = pending /\ run'.at = "turn"
  \/ /\ pending' = pending /\ run.at = "request input" /\ run'.at = "request output"
     /\ run'.session = run.session /\ run'.req = run.req

\* What it tells of it: nothing, a streamed step, a requested one, a refusal.
RunTells ==
  \/ /\ hops' = hops /\ answers' = answers
     /\ run.at \in Asked => run'.at \in Asked /\ run'.req = run.req
  \/ /\ run.at \in {"output", "emit"} /\ hops' = Append(hops, Report(NoRequest, 0))
     /\ answers' = answers /\ run'.at = "sleep"
  \/ /\ run.at = "request output" /\ hops' = Append(hops, Report(run.req, accepted))
     /\ answers' = answers /\ run'.at \notin Asked
  \/ /\ run.at = "request input" /\ hops' = hops /\ run'.at \notin Asked
     /\ \E k \in Codes : Answer(run.req, k)

RunStep ==
  /\ up /\ up' /\ (inbound' = inbound \/ inbound' = Idle)
  /\ UNCHANGED <<started, gate, stepped, limit, failedCalls, appState, runner, queue>>
  /\ RunGoes /\ RunTells

\* What a turn comes to.
LEMMA TurnGoes ==
  ASSUME Typed, NEW lk \in {"free", "inbound"}, NEW b, Bounded(b), Turn(lk, b),
         run.at \in Asked => pending = NoRequest
  PROVE  RunGoes /\ (pending = NoRequest => run'.at \notin Asked)
<1>1. /\ pending' = NoRequest
      /\ \/ /\ pending # NoRequest /\ lock' = "run" /\ run'.at = "request input"
            /\ run'.session = started /\ run'.req = pending
         \/ /\ pending = NoRequest /\ live /\ lk = "free" /\ lock' = "run" /\ run'.at = "input"
            /\ run'.session = started /\ run'.drops = gateDrops /\ run'.served = started
         \/ /\ pending = NoRequest /\ live /\ lk = "inbound" /\ lock' = "inbound"
            /\ run'.at = "lock" /\ run'.drops = gateDrops /\ run'.served = started
         \/ pending = NoRequest /\ ~live /\ lock' = lk /\ run'.at = "turn"
  BY TurnIs
<1>2. run'.at \in Asked => pending # NoRequest
  BY <1>1 DEF Asked
<1> QED BY <1>1, <1>2 DEF RunGoes

LEMMA RunStepIs ==
  ASSUME Typed, ModelInv, RunLoop
  PROVE  RunStep
<1>0. /\ up /\ ModelOK /\ lock \in {"free", "run", "inbound"} /\ run \in RunTypes
      /\ Bounded(buffer)
  <2>1. up
    BY DEF RunLoop, TurnTaken, StepBegins, InputRefused, InputAccepted, OutputReturns, EmitReturns,
           SleepEnds, RequestedInputRefused, RequestedInputAccepted, RequestedOutputReturns
  <2> QED BY <2>1 DEF ModelInv, ModelOK, Typed, RunnerTyped, ModelTyped, RunTypes
<1>1. /\ up' = up /\ (inbound' = inbound \/ inbound' = Idle)
      /\ UNCHANGED <<started, gate, stepped, limit, failedCalls, appState, runner, queue>>
  BY DEF RunLoop, TurnTaken, StepBegins, InputRefused, InputAccepted, OutputReturns, EmitReturns,
         SleepEnds, RequestedInputRefused, RequestedInputAccepted, RequestedOutputReturns,
         RequestOver, steps
<1>2. CASE TurnTaken
  <2>1. /\ run.at = "turn" /\ hops' = hops /\ answers' = answers
        /\ Turn(lock, IF live \/ pending # NoRequest THEN buffer ELSE Reset(buffer, started))
    BY <1>2 DEF TurnTaken
  <2>2. lock \in {"free", "inbound"} /\ run.at \notin Asked
    BY <1>0, <2>1 DEF ModelOK, LockOK, StepPoints, Asked
  <2>3. PICK b : Bounded(b) /\ Turn(lock, b)
    <3>1. Bounded(Reset(buffer, started))
      BY <1>0, ResetIs
    <3> QED BY <1>0, <2>1, <3>1
  <2>4. PICK lk \in {"free", "inbound"} : lk = lock
    BY <2>2
  <2>5. RunGoes
    BY <2>2, <2>3, <2>4, TurnGoes
  <2> QED BY <1>0, <1>1, <2>1, <2>2, <2>5 DEF RunStep, RunTells
<1>3. CASE SleepEnds
  <2>1. run.at = "sleep" /\ hops' = hops /\ answers' = answers /\ run.at \notin Asked
    BY <1>3 DEF SleepEnds, Asked
  <2>2. lock \in {"free", "inbound"}
    BY <1>0, <2>1 DEF ModelOK, LockOK, StepPoints
  <2>3. CASE StillOpen
    <3>1. AsksLock(run, lock) /\ pending' = pending /\ live
      BY <1>3, <2>3 DEF SleepEnds, StillOpen
    <3>2. run'.at \in {"lock", "input"} /\ (run'.at = "input" => run'.session = started)
      BY <1>0, <3>1 DEF AsksLock, RunTypes
    <3>3. RunGoes
      BY <3>1, <3>2 DEF RunGoes
    <3> QED BY <1>0, <1>1, <2>1, <3>3 DEF RunStep, RunTells
  <2>4. CASE ~StillOpen
    <3>1. PICK b : Bounded(b) /\ Turn(lock, b)
      BY <1>0, <1>3, <2>4, ResetIs DEF SleepEnds
    <3>2. PICK lk \in {"free", "inbound"} : lk = lock
      BY <2>2
    <3>3. RunGoes
      BY <2>1, <3>1, <3>2, TurnGoes
    <3> QED BY <1>0, <1>1, <2>1, <3>3 DEF RunStep, RunTells
  <2> QED BY <2>3, <2>4
<1>4. CASE StepBegins
  <2>1. /\ run.at = "lock" /\ hops' = hops /\ answers' = answers /\ pending' = pending
        /\ run' = [run EXCEPT !.at = "input", !.session = started]
    BY <1>4 DEF StepBegins
  <2>2. run'.at = "input" /\ run'.session = started
    BY <1>0, <2>1 DEF RunTypes
  <2>3. RunGoes /\ RunTells
    BY <2>1, <2>2 DEF RunGoes, RunTells, Asked
  <2> QED BY <1>0, <1>1, <2>3 DEF RunStep
<1>5. CASE InputRefused \/ InputAccepted
  <2>1. /\ run.at = "input" /\ hops' = hops /\ answers' = answers /\ pending' = pending
        /\ run' = [run EXCEPT !.at = "sleep"] \/ run' = [run EXCEPT !.at = "output"]
    BY <1>5 DEF InputRefused, InputAccepted
  <2>2. run'.at \in {"sleep", "output"} /\ run'.session = run.session
    <3>1. CASE run' = [run EXCEPT !.at = "sleep"]
      BY <1>0, <3>1 DEF RunTypes
    <3>2. CASE run' = [run EXCEPT !.at = "output"]
      BY <1>0, <3>2 DEF RunTypes
    <3> QED BY <2>1, <3>1, <3>2
  <2>3. RunGoes /\ RunTells
    BY <2>1, <2>2 DEF RunGoes, RunTells, Asked
  <2> QED BY <1>0, <1>1, <2>3 DEF RunStep
<1>6. CASE OutputReturns
  <2>1. /\ run.at = "output" /\ answers' = answers /\ pending' = pending
        /\ \/ run' = [run EXCEPT !.at = "emit"] /\ UNCHANGED hops
           \/ run' = [run EXCEPT !.at = "sleep"] /\ hops' = Append(hops, Report(NoRequest, 0))
    BY <1>6 DEF OutputReturns
  <2>2. /\ run'.session = run.session
        /\ \/ run'.at = "emit" /\ hops' = hops
           \/ run'.at = "sleep" /\ hops' = Append(hops, Report(NoRequest, 0))
    BY <1>0, <2>1 DEF RunTypes
  <2>3. RunGoes
    BY <2>1, <2>2 DEF RunGoes
  <2>4. RunTells
    BY <2>1, <2>2 DEF RunTells, Asked
  <2> QED BY <1>0, <1>1, <2>3, <2>4 DEF RunStep
<1>7. CASE EmitReturns
  <2>1. /\ run.at = "emit" /\ answers' = answers /\ pending' = pending
        /\ run' = [run EXCEPT !.at = "sleep"] /\ hops' = Append(hops, Report(NoRequest, 0))
    BY <1>7 DEF EmitReturns
  <2>2. run'.at = "sleep" /\ run'.session = run.session
    BY <1>0, <2>1 DEF RunTypes
  <2>3. RunGoes
    BY <2>1, <2>2 DEF RunGoes
  <2>4. RunTells
    BY <2>1, <2>2 DEF RunTells, Asked
  <2> QED BY <1>0, <1>1, <2>3, <2>4 DEF RunStep
<1>8. CASE RequestedInputAccepted
  <2>1. /\ run.at = "request input" /\ answers' = answers /\ pending' = pending /\ hops' = hops
        /\ run' = [run EXCEPT !.at = "request output"]
    BY <1>8 DEF RequestedInputAccepted
  <2>2. run'.at = "request output" /\ run'.session = run.session /\ run'.req = run.req
    BY <1>0, <2>1 DEF RunTypes
  <2>3. RunGoes /\ RunTells
    BY <2>1, <2>2 DEF RunGoes, RunTells, Asked
  <2> QED BY <1>0, <1>1, <2>3 DEF RunStep
<1>9. CASE RequestedInputRefused \/ RequestedOutputReturns
  <2>0. PICK lk \in {"free", "inbound"} : lk = "free"
    OBVIOUS
  <2>1. Turn("free", buffer) /\ run.at \in Asked
    BY <1>9 DEF RequestedInputRefused, RequestedOutputReturns, RequestOver, Asked
  <2>2. pending = NoRequest
    BY <1>0, <2>1 DEF ModelOK, AskOK
  <2>3. PICK b : b = buffer
    OBVIOUS
  <2>4. RunGoes /\ run'.at \notin Asked
    BY <1>0, <2>0, <2>1, <2>2, <2>3, TurnGoes
  <2>5. CASE RequestedOutputReturns
    <3>1. /\ run.at = "request output" /\ hops' = Append(hops, Report(run.req, accepted))
          /\ answers' = answers
      BY <2>5 DEF RequestedOutputReturns
    <3>2. RunTells
      BY <2>4, <3>1 DEF RunTells
    <3> QED BY <1>0, <1>1, <2>4, <3>2 DEF RunStep
  <2>6. CASE RequestedInputRefused
    <3>1. Refusal(run.req, run.session, "REFUSED") /\ run.at = "request input" /\ hops' = hops
      BY <2>6 DEF RequestedInputRefused
    <3>2. PICK r, s : r = run.req /\ s = run.session
      OBVIOUS
    <3>3. r \in Requests /\ "REFUSED" \in Codes
      BY <1>0, <2>1, <3>2, AskedFor DEF Codes
    <3>4. \E k \in Codes : Answer(r, k)
      BY <3>1, <3>2, <3>3, RefusalIs
    <3> QED BY <1>0, <1>1, <2>4, <3>1, <3>2, <3>4 DEF RunStep, RunTells
  <2> QED BY <1>9, <2>5, <2>6
<1> QED BY <1>2, <1>3, <1>4, <1>5, <1>6, <1>7, <1>8, <1>9 DEF RunLoop

\* run() begins a step only where no starting command is to come.
LEMMA RunSeed ==
  ASSUME Typed, ModelInv, SeedInv, RunStep
  PROVE  SeedInv'
<1>0. up /\ GateOK /\ live \in BOOLEAN /\ active \in BOOLEAN /\ seedPending \in BOOLEAN
  BY DEF RunStep, ModelInv, Typed, ModelTyped
<1>1. /\ UNCHANGED <<started, active, seedPending, live, posted, seeding, request, queue>> /\ RunGoes
  BY DEF RunStep, gate, runner, session, seeds, asks
<1>2. SeedWaits' = SeedWaits
  BY <1>1 DEF SeedWaits
<1>3. live => ~SeedWaits
  <2>1. live => active /\ ~seedPending
    BY <1>0 DEF GateOK
  <2> QED BY <1>0, <2>1 DEF SeedInv
<1>4. CASE /\ pending # NoRequest /\ pending' = NoRequest
           /\ run'.at = "request input" /\ run'.req = pending
  BY <1>0, <1>1, <1>2, <1>4 DEF SeedInv, StepPoints, Asked
<1>5. CASE pending' = pending /\ run'.at \in {"lock", "input"} /\ (live \/ run.at = "lock")
  BY <1>0, <1>1, <1>2, <1>3, <1>5 DEF SeedInv, StepPoints, Asked
<1>6. CASE /\ pending' = pending
           /\ \/ run.at = "input" /\ run'.at \in {"output", "sleep"}
              \/ run.at = "output" /\ run'.at \in {"emit", "sleep"}
              \/ run.at = "emit" /\ run'.at = "sleep"
  BY <1>0, <1>1, <1>2, <1>6 DEF SeedInv, StepPoints, Asked
<1>7. CASE pending' = pending /\ run'.at = "turn"
  BY <1>0, <1>1, <1>2, <1>7 DEF SeedInv, StepPoints, Asked
<1>8. CASE /\ pending' = pending /\ run.at = "request input" /\ run'.at = "request output"
           /\ run'.req = run.req
  BY <1>0, <1>1, <1>2, <1>8 DEF SeedInv, StepPoints, Asked
<1> QED BY <1>1, <1>4, <1>5, <1>6, <1>7, <1>8 DEF RunGoes

\* Nothing of run()'s is under way when a session starts.
LEMMA StartFindsIdle ==
  ASSUME Typed, ModelInv, QueueInv, up, queue # <<>>, inbound.at = "idle",
         Head(queue).tag = "started"
  PROVE  run.at \notin StepPoints \union {"lock"} /\ pending = NoRequest /\ ~active
<1>1. ~active
  BY BoundariesAlternate
<1>2. LockOK /\ AppOK /\ AskOK /\ lock \in {"free", "run", "inbound"} /\ started \in Nat
  BY DEF ModelInv, Typed, ModelTyped, Sessions
<1>3. appState = 0
  BY <1>1, <1>2 DEF AppOK, InHand
<1>4. run.at \notin StepPoints
  BY <1>2, <1>3 DEF AppOK
<1>5. run.at # "lock"
  BY <1>2, <1>3 DEF AppOK, LockOK
<1>6. pending = NoRequest
  BY <1>2 DEF AskOK
<1> QED BY <1>1, <1>4, <1>5, <1>6

\* The queue after its head is taken.
LEMMA TailWaits ==
  ASSUME queue \in Seq(Items), queue # <<>>, queue' = Tail(queue),
         UNCHANGED <<started, seeding, posted>>
  PROVE  SeedWaits' => SeedWaits
<1>1. ASSUME NEW i \in DOMAIN queue' PROVE i + 1 \in DOMAIN queue /\ queue'[i] = queue[i + 1]
  OBVIOUS
<1> QED BY <1>1 DEF SeedWaits

LEMMA SessionStartedSeed ==
  ASSUME Typed, ModelInv, RunnerInv, QueueInv, SeedInv, DispatchSessionStarted
  PROVE  SeedInv'
<1>1. /\ up /\ inbound.at = "idle" /\ queue # <<>> /\ queue \in Seq(Items)
      /\ Head(queue).tag = "started" /\ queue' = Tail(queue)
  BY NextItem DEF DispatchSessionStarted
<1>2. run.at \notin StepPoints \union {"lock"} /\ pending = NoRequest
  BY <1>1, StartFindsIdle
<1>3. /\ UpdateLive /\ seedPending' = Head(queue).start.seeded /\ started' = started + 1
      /\ pending' = pending /\ UNCHANGED <<posted, start, seeding>>
      /\ run' = [run EXCEPT !.woken = @ \/ (run.at = "turn" /\ live')]
  BY DEF DispatchSessionStarted, UpdateLive, runner, session, seeds
<1>4. run'.at = run.at
  BY <1>3 DEF Typed, ModelTyped
<1>5. PICK c \in Stages :
           /\ Fits(Head(queue), Now, c) /\ ItemOK(Head(queue), c, posted, start, seeding, request)
           /\ \A j \in DOMAIN Tail(queue) : PairOK(Head(queue), c, Tail(queue)[j])
  BY <1>1, HeadMoves
<1>6. c.n = started'
  <2>1. Now.n = started
    BY StagesAre
  <2> QED BY <1>1, <1>3, <1>5, <2>1 DEF Fits
<1>7. SeedWaits' => seedPending'
  <2>1. CASE seeding' = "command" /\ started' = posted'
    <3>1. Head(queue).start = start
      BY <1>1, <1>3, <1>5, <1>6, <2>1 DEF ItemOK
    <3>2. start.seeded
      BY <1>3, <2>1 DEF RunnerInv
    <3> QED BY <1>3, <3>1, <3>2
  <2>2. CASE \E i \in DOMAIN queue' : IsStarting(queue'[i]) /\ queue'[i].session = started'
    BY <1>1, <1>3, <1>5, <1>6, <2>2 DEF PairOK
  <2> QED BY <2>1, <2>2 DEF SeedWaits
<1> QED BY <1>2, <1>3, <1>4, <1>7 DEF SeedInv, Asked, StepPoints

\* The starting input is over, and its command is behind nothing.
LEMMA AppliedSeed ==
  ASSUME Typed, ModelInv, QueueInv, SeedInv, DispatchStartingInputApplied
  PROVE  SeedInv'
<1>1. /\ up /\ inbound.at = "idle" /\ queue # <<>> /\ queue \in Seq(Items)
      /\ Head(queue).tag = "applied" /\ queue' = Tail(queue)
  BY NextItem DEF DispatchStartingInputApplied
<1>2. /\ pending' = pending /\ UNCHANGED <<posted, start, seeding, request, started, active, up>>
      /\ run' = [run EXCEPT !.woken = @ \/ (run.at = "turn" /\ live')]
  BY DEF DispatchStartingInputApplied, UpdateLive, runner, session, seeds, asks
<1>3. run'.at = run.at /\ run'.req = run.req
  BY <1>2 DEF Typed, ModelTyped
<1>4. PICK c \in Stages :
           /\ Fits(Head(queue), Now, c) /\ ItemOK(Head(queue), c, posted, start, seeding, request)
           /\ \A j \in DOMAIN Tail(queue) : PairOK(Head(queue), c, Tail(queue)[j])
  BY <1>1, HeadMoves
<1>5. c.n = started
  <2>1. Now.n = started
    BY StagesAre
  <2> QED BY <1>1, <1>4, <2>1 DEF Fits
<1>6. ~SeedWaits'
  BY <1>1, <1>2, <1>4, <1>5 DEF SeedWaits, ItemOK, PairOK
<1> QED BY <1>1, <1>2, <1>3, <1>6 DEF SeedInv

\* A step comes to its session behind the starting command.
LEMMA DispatchStepSeed ==
  ASSUME Typed, ModelInv, QueueInv, SeedInv, DispatchStep
  PROVE  SeedInv'
<1>1. PICK r \in StepRequests :
           /\ r = Head(queue).req /\ queue # <<>> /\ Head(queue).tag = "step" /\ up
           /\ inbound.at = "idle" /\ queue' = Tail(queue)
           /\ UNCHANGED <<started, gate, stepped, accepted, limit, appState, lock>>
           /\ UNCHANGED <<runner, hops, buffer, up>>
           /\ \/ UNCHANGED <<pending, run>>
              \/ pending' = r /\ run'.at = run.at /\ run'.req = run.req
  BY DispatchStepIs
<1>2. /\ UNCHANGED <<posted, start, seeding, request, started, active, seedPending, up>>
      /\ queue \in Seq(Items)
  BY <1>1 DEF runner, session, seeds, asks, gate, Typed, RunnerTyped
<1>3. PICK c \in Stages :
           /\ Fits(Head(queue), Now, c) /\ ItemOK(Head(queue), c, posted, start, seeding, request)
           /\ \A j \in DOMAIN Tail(queue) : PairOK(Head(queue), c, Tail(queue)[j])
  BY <1>1, HeadMoves
<1>4. c.n = started
  <2>1. Now.n = started
    BY StagesAre
  <2> QED BY <1>1, <1>3, <2>1 DEF Fits
<1>5. ~SeedWaits'
  BY <1>1, <1>2, <1>3, <1>4 DEF SeedWaits, ItemOK, PairOK
<1>6. request[r].at = "over" /\ request[r].session = started
  BY <1>1, <1>3, <1>4 DEF ItemOK
<1>7. CASE UNCHANGED <<pending, run>>
  BY <1>1, <1>2, <1>5, <1>7 DEF SeedInv
<1>8. CASE pending' = r /\ run'.at = run.at /\ run'.req = run.req
  BY <1>1, <1>2, <1>5, <1>6, <1>8 DEF SeedInv
<1> QED BY <1>1, <1>7, <1>8

LEMMA InboundSeed ==
  ASSUME Typed, ModelInv, RunnerInv, QueueInv, SeedInv, InboundLoop
  PROVE  SeedInv'
<1>0. UNCHANGED <<posted, start, seeding, request>>
  <2>1. UNCHANGED runner
    BY ModelStepIs DEF ModelStep
  <2> QED BY <2>1 DEF runner, session, seeds, asks
<1>1. CASE DispatchSessionStarted
  BY <1>1, SessionStartedSeed
<1>2. CASE DispatchStartingInputApplied
  BY <1>2, AppliedSeed
<1>3. CASE DispatchStep
  BY <1>3, DispatchStepSeed
<1>4. CASE DispatchConnection
  <2>1. PICK tag : NextIs(tag)
    BY <1>4 DEF DispatchConnection
  <2>2. /\ UNCHANGED <<started, active, seedPending, pending, up>> /\ up
        /\ run' = [run EXCEPT !.woken = @ \/ (run.at = "turn" /\ live')]
    BY <1>4, <2>1, NextItem DEF DispatchConnection, UpdateLive
  <2>3. run'.at = run.at /\ run'.req = run.req
    BY <2>2 DEF Typed, ModelTyped
  <2>4. SeedWaits' => SeedWaits
    BY <1>0, <2>1, <2>2, NextItem, TailWaits
  <2> QED BY <1>0, <2>2, <2>3, <2>4 DEF SeedInv
<1>5. CASE DispatchSessionEnded
  <2>1. NextIs("ended")
    BY <1>5 DEF DispatchSessionEnded
  <2>2. /\ UNCHANGED <<started, pending, up>> /\ up /\ active' = FALSE
        /\ run' = [run EXCEPT !.woken = @ \/ (run.at = "turn" /\ live')]
    BY <1>5, <2>1, NextItem DEF DispatchSessionEnded, UpdateLive
  <2>3. run'.at = run.at /\ run'.req = run.req
    BY <2>2 DEF Typed, ModelTyped
  <2>4. SeedWaits' => SeedWaits
    BY <1>0, <2>1, <2>2, NextItem, TailWaits
  <2> QED BY <1>0, <2>2, <2>3, <2>4 DEF SeedInv
<1>6. CASE DispatchCommand
  <2>1. NextIs("command")
    BY <1>6 DEF DispatchCommand
  <2>2. UNCHANGED <<started, active, seedPending, pending, up, run>> /\ up
    BY <1>6, <2>1, NextItem DEF DispatchCommand, gate
  <2>3. SeedWaits' => SeedWaits
    BY <1>0, <2>1, <2>2, NextItem, TailWaits
  <2> QED BY <1>0, <2>2, <2>3 DEF SeedInv
<1>7. CASE ConnectionHookRuns \/ SessionStartedRuns \/ SessionEndedRuns \/ CommandRuns
  <2>1. UNCHANGED <<started, active, seedPending, pending, up, run, queue>>
    BY <1>7 DEF ConnectionHookRuns, SessionStartedRuns, SessionEndedRuns, CommandRuns, gate
  <2> QED BY <1>0, <2>1 DEF SeedInv, SeedWaits
<1> QED BY <1>1, <1>2, <1>3, <1>4, <1>5, <1>6, <1>7 DEF InboundLoop

-------------------------------------------------------------------------------
(* A session stops at its steps.                                           *)

\* The model runs the session as the runner started it.
StartInv == up /\ started = posted => limit = start.limit /\ (active => stepped = start.stepped)

\* A session s is not a stepped one, as far as the runner remembers: P were
\* posted, the last from S.
Streamed(s, P, S) == s = P => ~S.stepped

\* A pass through the gate is of a streamed session.
PassInv ==
  up => /\ run.at = "lock" => Streamed(started, posted, start)
        /\ run.at \in {"input", "output", "emit"} =>
             run.session <= started /\ Streamed(run.session, posted, start)

\* A report is of a session of its kind, and a requested one within its steps.
ReportOK(h, n, P, S) ==
  h.tag = "report" =>
    /\ h.session <= n
    /\ h.req = NoRequest => Streamed(h.session, P, S)
    /\ h.req # NoRequest /\ h.session = P /\ S.limit > 0 => h.index <= S.limit

ReportsInv == \A i \in DOMAIN hops : ReportOK(hops[i], started, posted, start)

StopInv == StartInv /\ PassInv /\ ReportsInv /\ StopsAtItsSteps

\* The runner, but for a start and the callbacks.
LEMMA StopStays ==
  ASSUME StopInv, UNCHANGED <<up, model, posted, start, completed, stepsFailed>>,
         hops' = hops, state' = "RUNNING" => state = "RUNNING"
  PROVE  StopInv'
<1>1. UNCHANGED <<started, active, stepped, limit, run>>
  BY DEF model, gate, steps
<1>2. StartInv' /\ PassInv'
  BY <1>1 DEF StopInv, StartInv, PassInv
<1>3. ReportsInv'
  BY <1>1 DEF StopInv, ReportsInv
<1>4. StopsAtItsSteps'
  BY DEF StopInv, StopsAtItsSteps
<1> QED BY <1>2, <1>3, <1>4 DEF StopInv

LEMMA RunnerStop ==
  ASSUME Typed, RunnerInv, StopInv,
         \/ StopSession \/ CleanupComplete \/ ClientConnects \/ ClientLeaves
         \/ MediaReceived \/ (\E r \in Requests : RequestArrives(r))
         \/ StartingInput \/ (\E r \in Requests : ClientMessage(r))
  PROVE  StopInv'
<1>1. CASE \/ StopSession \/ CleanupComplete \/ ClientConnects \/ ClientLeaves
           \/ MediaReceived \/ (\E r \in Requests : RequestArrives(r))
  BY <1>1, StopStays DEF StopSession, CleanupComplete, ClientConnects, ClientLeaves, MediaReceived,
        RequestArrives, End, runner, session, records
<1>2. CASE StartingInput
  BY <1>2, StopStays DEF StartingInput, StartingCommandSubmitted, StartingCommandRefused,
        StartingInputApplied, End, session, records
<1>3. CASE \E r \in Requests : ClientMessage(r)
  <2>1. PICK r \in Requests : ClientMessage(r)
    BY <1>3
  <2>2. UNCHANGED <<session, seeds, records, hops, buffer, up, model>>
    BY <2>1, MessageIs
  <2> QED BY <2>2, StopStays DEF session, records
<1> QED BY <1>1, <1>2, <1>3

\* A start leaves the reports and the passes of earlier sessions behind.
LEMMA StartStop ==
  ASSUME Typed, StopInv, StartSession
  PROVE  StopInv'
<1>0. /\ posted \in Nat /\ started \in Nat /\ started <= posted /\ posted' = posted + 1
      /\ run.session \in Nat /\ hops' = hops /\ UNCHANGED <<up, started, active, stepped, limit, run>>
      /\ completed' = 0 /\ stepsFailed' = FALSE
  BY DEF Typed, RunnerTyped, ModelTyped, Sessions, StartSession, model, gate, steps
<1>1. StartInv'
  BY <1>0 DEF StartInv
<1>2. PassInv'
  <2>1. run.session <= started => run.session # posted'
    BY <1>0
  <2>2. started # posted'
    BY <1>0
  <2> QED BY <1>0, <2>1, <2>2 DEF StopInv, PassInv, Streamed
<1>3. ReportsInv'
  <2>1. ASSUME NEW i \in DOMAIN hops, hops[i].tag = "report"
        PROVE  hops[i].session <= started /\ hops[i].session # posted'
    <3>1. hops[i].session \in Nat
      <4>1. hops[i] \in Callbacks
        BY DEF Typed, RunnerTyped
      <4> QED BY <2>1, <4>1 DEF Callbacks, Sessions
    <3>2. hops[i].session <= started
      BY <2>1 DEF StopInv, ReportsInv, ReportOK
    <3> QED BY <1>0, <3>1, <3>2
  <2> QED BY <1>0, <2>1 DEF ReportsInv, ReportOK, Streamed
<1>4. StopsAtItsSteps'
  <2>1. PICK st \in SteppedKinds, l \in Limits, sd \in Seeds :
          start' = [stepped |-> st, limit |-> l, seeded |-> sd]
    BY DEF StartSession
  <2>2. start'.limit \in Nat
    BY <2>1, StepAssumption
  <2> QED BY <1>0, <2>2 DEF StopsAtItsSteps
<1> QED BY <1>1, <1>2, <1>3, <1>4 DEF StopInv

\* The reports after the first.
LEMMA ReportsTail ==
  ASSUME Typed, ReportsInv, hops # <<>>, hops' = Tail(hops), UNCHANGED <<model, posted, start>>
  PROVE  ReportsInv'
<1>1. hops \in Seq(Callbacks) /\ started' = started
  BY DEF Typed, RunnerTyped, model
<1>2. ASSUME NEW i \in DOMAIN hops' PROVE i + 1 \in DOMAIN hops /\ hops'[i] = hops[i + 1]
  BY <1>1, <1>2
<1> QED BY <1>1, <1>2 DEF ReportsInv

\* A report, a failure and a crash: the session that comes to its steps stops.
LEMMA ReportsStop ==
  ASSUME Typed, StopInv, Reports
  PROVE  StopInv'
<1>0. /\ hops # <<>> /\ hops' = Tail(hops) /\ UNCHANGED <<up, model, posted, start>>
      /\ hops \in Seq(Callbacks) /\ completed \in Nat /\ start \in Starts /\ stepsFailed \in BOOLEAN
      /\ start.limit \in Nat /\ RunnerTyped
  BY DEF Reports, RecordStep, EmitHandlerFailure, EvictOnFailure, Typed, RunnerTyped, Starts
<1>1. StartInv' /\ PassInv'
  BY <1>0 DEF StopInv, StartInv, PassInv, model, gate, steps
<1>2. ReportsInv'
  BY <1>0, ReportsTail DEF StopInv
<1>3. StopsAtItsSteps'
  <2>1. CASE RecordStep
    <3>1. PICK h \in Callbacks : h = Head(hops) /\ h.tag = "report"
      BY <1>0, <2>1 DEF RecordStep
    <3>2. ReportOK(h, started, posted, start) /\ h.index \in Nat
      BY <1>0, <3>1 DEF StopInv, ReportsInv, Callbacks
    <3>3. /\ completed' = IF Late(h) THEN completed
                          ELSE IF h.req # NoRequest THEN h.index ELSE completed + 1
          /\ StopAt(~Late(h) /\ Reached(completed')) /\ stepsFailed' = stepsFailed
      BY <2>1, <3>1 DEF RecordStep
    <3>4. CASE Late(h)
      <4>1. completed' = completed /\ state' = state
        BY <3>3, <3>4 DEF StopAt
      <4> QED BY <1>0, <3>3, <4>1 DEF StopInv, StopsAtItsSteps
    <3>5. CASE ~Late(h)
      <4>1. h.session = posted /\ ~stepsFailed
        BY <3>5 DEF Late
      <4>2. completed' = IF h.req # NoRequest THEN h.index ELSE completed + 1
        BY <3>3, <3>5
      <4>3. completed' \in Nat
        BY <1>0, <3>2, <4>2
      <4>4. CASE Reached(completed')
        <5>1. state' = "CLOSING" /\ completed' = start.limit
          BY <3>3, <3>5, <4>4 DEF StopAt, End, Reached
        <5> QED BY <1>0, <3>3, <4>1, <5>1 DEF StopsAtItsSteps
      <4>5. CASE ~Reached(completed')
        <5>1. state' = state
          BY <3>3, <3>5, <4>5 DEF StopAt
        <5>2. CASE h.req # NoRequest
          <6>1. start.limit > 0 => completed' <= start.limit
            BY <3>1, <3>2, <4>1, <4>2, <5>2 DEF ReportOK
          <6>2. state = "RUNNING" /\ start.limit > 0 => completed' < start.limit
            BY <1>0, <4>3, <4>5, <6>1 DEF Reached
          <6> QED BY <1>0, <3>3, <4>1, <5>1, <6>1, <6>2 DEF StopsAtItsSteps
        <5>3. CASE h.req = NoRequest
          <6>1. ~start.stepped
            BY <3>1, <3>2, <4>1, <5>3 DEF ReportOK, Streamed
          <6>2. state = "RUNNING" /\ start.limit > 0 => completed < start.limit
            BY DEF StopInv, StopsAtItsSteps
          <6>3. state = "RUNNING" /\ start.limit > 0 => completed' < start.limit
            BY <1>0, <4>2, <4>5, <5>3, <6>2 DEF Reached
          <6> QED BY <1>0, <3>3, <4>1, <5>1, <6>1, <6>3 DEF StopsAtItsSteps
        <5> QED BY <5>2, <5>3
      <4> QED BY <4>4, <4>5
    <3> QED BY <3>4, <3>5
  <2>2. CASE EmitHandlerFailure
    <3>1. PICK b \in BOOLEAN :
            /\ b = (Unattended(start) /\ Head(hops).session = posted /\ state = "RUNNING")
            /\ StopAt(b) /\ stepsFailed' = (stepsFailed \/ b)
            /\ completed' = IF b THEN start.limit ELSE completed
      <4> DEFINE f == Unattended(start) /\ Head(hops).session = posted /\ state = "RUNNING"
      <4>1. f \in BOOLEAN /\ StopAt(f) /\ stepsFailed' = (stepsFailed \/ f)
            /\ completed' = IF f THEN start.limit ELSE completed
        BY <2>2 DEF EmitHandlerFailure
      <4> QED BY <4>1
    <3>2. CASE b = TRUE
      <4>1. state' = "CLOSING" /\ completed' = start.limit
        BY <3>1, <3>2 DEF StopAt, End
      <4> QED BY <1>0, <4>1 DEF StopsAtItsSteps
    <3>3. CASE b = FALSE
      <4>1. state' = state /\ completed' = completed /\ stepsFailed' = stepsFailed
        BY <1>0, <3>1, <3>3 DEF StopAt
      <4> QED BY <1>0, <4>1 DEF StopInv, StopsAtItsSteps
    <3> QED BY <3>2, <3>3
  <2>3. CASE EvictOnFailure
    <3>1. state' = "TERMINATED" /\ completed' = completed /\ stepsFailed' = stepsFailed
      BY <2>3 DEF EvictOnFailure, End, records
    <3> QED BY <1>0, <3>1 DEF StopInv, StopsAtItsSteps
  <2> QED BY <2>1, <2>2, <2>3 DEF Reports
<1> QED BY <1>1, <1>2, <1>3 DEF StopInv

\* The model thread's inbound loop: a session that starts is the runner's last,
\* or the runner has gone on.
LEMMA InboundStop ==
  ASSUME Typed, Typed', ModelInv, RunnerInv, QueueInv, StopInv, InboundLoop
  PROVE  StopInv'
<1>0. /\ UNCHANGED <<state, posted, start, completed, stepsFailed>> /\ ModelStep
      /\ started \in Nat /\ posted \in Nat /\ run.session \in Nat /\ hops \in Seq(Callbacks)
  <2>1. ModelStep
    BY ModelStepIs
  <2> QED BY <2>1 DEF ModelStep, runner, session, records, Typed, RunnerTyped, ModelTyped, Sessions
<1>1. StopsAtItsSteps'
  BY <1>0 DEF StopInv, StopsAtItsSteps
<1>2. /\ run'.at = run.at /\ run'.session = run.session /\ up' = up /\ up
      /\ \A i \in DOMAIN hops' : hops'[i].tag = "report" => i \in DOMAIN hops /\ hops'[i] = hops[i]
  <2>1. CASE CommandRuns
    <3>1. PICK h : h = [tag |-> "failure", session |-> inbound.item.session]
      OBVIOUS
    <3>2. /\ run' = run /\ up' = up /\ up /\ (hops' = hops \/ hops' = Append(hops, h))
          /\ inbound.item.tag = "command"
      BY <2>1, <3>1 DEF CommandRuns, Locked
    <3>3. CASE hops' = hops
      BY <3>2, <3>3
    <3>4. CASE hops' = Append(hops, h)
      <4>1. h \in Callbacks
        <5>1. inbound.item.session \in Sessions
          BY <3>2 DEF Typed, ModelTyped, Items
        <5> QED BY <3>1, <5>1 DEF Callbacks
      <4> QED BY <1>0, <3>1, <3>2, <3>4, <4>1
    <3> QED BY <3>2, <3>3, <3>4
  <2>2. CASE DispatchConnection \/ DispatchSessionStarted \/ DispatchStartingInputApplied
             \/ DispatchSessionEnded
    <3>1. /\ hops' = hops /\ up' = up /\ up
          /\ run' = [run EXCEPT !.woken = @ \/ (run.at = "turn" /\ live')]
      BY <2>2 DEF DispatchConnection, DispatchSessionStarted, DispatchStartingInputApplied,
              DispatchSessionEnded, UpdateLive, NextIs
    <3>2. run'.at = run.at /\ run'.session = run.session
      BY <3>1 DEF Typed, ModelTyped
    <3> QED BY <3>1, <3>2
  <2>3. CASE DispatchStep
    <3>1. hops' = hops /\ up' = up /\ up /\ run'.at = run.at /\ run'.session = run.session
      BY <2>3, DispatchStepIs
    <3> QED BY <3>1
  <2>4. CASE DispatchCommand \/ ConnectionHookRuns \/ SessionStartedRuns \/ SessionEndedRuns
    BY <2>4 DEF DispatchCommand, ConnectionHookRuns, SessionStartedRuns, SessionEndedRuns, NextIs,
            Locked
  <2> QED BY <2>1, <2>2, <2>3, <2>4 DEF InboundLoop
<1>3. CASE DispatchSessionStarted
  <2>1. /\ inbound.at = "idle" /\ queue # <<>> /\ Head(queue).tag = "started"
    BY <1>3, NextItem DEF DispatchSessionStarted
  <2>2. /\ started' = started + 1 /\ limit' = Head(queue).start.limit
        /\ stepped' = Head(queue).start.stepped
    BY <1>3 DEF DispatchSessionStarted
  <2>3. run.at \notin StepPoints \union {"lock"}
    BY <1>2, <2>1, StartFindsIdle
  <2>4. PICK c \in Stages :
           Fits(Head(queue), Now, c) /\ ItemOK(Head(queue), c, posted, start, seeding, request)
    BY <1>2, <2>1, HeadMoves
  <2>5. c.n = started'
    <3>1. Now.n = started
      BY StagesAre
    <3> QED BY <2>1, <2>2, <2>4, <3>1 DEF Fits
  <2>6. StartInv'
    <3>1. started' = posted => Head(queue).start = start
      BY <2>1, <2>4, <2>5 DEF ItemOK
    <3> QED BY <1>0, <2>2, <3>1 DEF StartInv
  <2>7. PassInv'
    <3>1. run.session <= started => run.session <= started'
      BY <1>0, <2>2
    <3> QED BY <1>0, <1>2, <2>3, <3>1 DEF StopInv, PassInv
  <2>8. ReportsInv'
    <3>1. ASSUME NEW i \in DOMAIN hops', hops'[i].tag = "report"
          PROVE  ReportOK(hops'[i], started', posted', start')
      <4>1. i \in DOMAIN hops /\ hops'[i] = hops[i] /\ ReportOK(hops[i], started, posted, start)
        BY <1>2, <3>1 DEF StopInv, ReportsInv
      <4>2. hops[i].session \in Nat
        <5>1. hops[i] \in Callbacks
          BY <1>0, <4>1
        <5> QED BY <3>1, <4>1, <5>1 DEF Callbacks, Sessions
      <4>3. hops[i].session <= started => hops[i].session <= started'
        BY <1>0, <2>2, <4>2
      <4> QED BY <1>0, <3>1, <4>1, <4>3 DEF ReportOK
    <3> QED BY <3>1 DEF ReportsInv, ReportOK
  <2> QED BY <1>1, <2>6, <2>7, <2>8 DEF StopInv
<1>4. CASE ~DispatchSessionStarted
  <2>1. started' = started /\ limit' = limit
    BY <1>4 DEF InboundLoop, DispatchConnection, DispatchStartingInputApplied, DispatchSessionEnded,
            DispatchCommand, DispatchStep, ConnectionHookRuns, SessionStartedRuns, SessionEndedRuns,
            CommandRuns, steps
  <2>2. (active' = active /\ stepped' = stepped) \/ active' = FALSE
    <3>1. CASE SessionEndedRuns
      <4>1. up /\ lock = "inbound" /\ inbound.item.tag = "ended" /\ active' = active
        BY <3>1 DEF SessionEndedRuns, Locked, gate
      <4>2. inbound.at = "lock" /\ active \in BOOLEAN
        BY <4>1 DEF ModelInv, LockOK, Typed, ModelTyped
      <4>3. ~active
        BY <4>1, <4>2 DEF ModelInv, AppOK, InHand
      <4> QED BY <4>1, <4>2, <4>3
    <3>2. CASE ~SessionEndedRuns
      BY <1>4, <3>2 DEF InboundLoop, DispatchConnection, DispatchStartingInputApplied,
            DispatchSessionEnded, DispatchCommand, DispatchStep, ConnectionHookRuns,
            SessionStartedRuns, CommandRuns, steps, gate
    <3> QED BY <3>1, <3>2
  <2>3. StartInv'
    BY <1>0, <1>2, <2>1, <2>2 DEF StopInv, StartInv
  <2>4. PassInv'
    BY <1>0, <1>2, <2>1 DEF StopInv, PassInv
  <2>5. ReportsInv'
    BY <1>0, <1>2, <2>1 DEF StopInv, ReportsInv, ReportOK
  <2> QED BY <1>1, <2>3, <2>4, <2>5 DEF StopInv
<1> QED BY <1>3, <1>4

\* run(): a streamed step is of a streamed session, and a requested one is
\* within its steps.
LEMMA RunStop ==
  ASSUME Typed, ModelInv, StopInv, RunStep
  PROVE  StopInv'
<1>0. /\ UNCHANGED <<state, posted, start, completed, stepsFailed>> /\ up /\ up'
      /\ UNCHANGED <<started, active, live, stepped, limit>> /\ RunGoes /\ RunTells
      /\ started \in Nat /\ posted \in Nat /\ run.session \in Nat /\ hops \in Seq(Callbacks)
      /\ live \in BOOLEAN /\ accepted \in Nat /\ limit \in Nat /\ stepped \in BOOLEAN
      /\ run.req \in StepRequests \union {NoRequest} /\ active \in BOOLEAN
  BY DEF RunStep, runner, session, records, gate, Typed, RunnerTyped, ModelTyped, Sessions
<1>1. StopsAtItsSteps'
  BY <1>0 DEF StopInv, StopsAtItsSteps
<1>2. StartInv'
  BY <1>0 DEF StopInv, StartInv
<1>3. live => Streamed(started, posted, start)
  <2>1. live => active /\ ~stepped
    BY <1>0 DEF ModelInv, GateOK
  <2> QED BY <1>0, <2>1 DEF StopInv, StartInv, Streamed
<1>4. PassInv'
  <2>1. CASE run'.at = "request input" \/ run'.at = "turn" \/ run'.at = "request output"
    BY <1>0, <2>1 DEF PassInv
  <2>2. CASE /\ run'.at \in {"lock", "input"} /\ (live \/ run.at = "lock")
             /\ run'.at = "input" => run'.session = started
    <3>1. Streamed(started, posted, start)
      BY <1>0, <1>3, <2>2 DEF StopInv, PassInv
    <3> QED BY <1>0, <2>2, <3>1 DEF PassInv
  <2>3. CASE /\ run'.session = run.session
             /\ \/ run.at = "input" /\ run'.at \in {"output", "sleep"}
                \/ run.at = "output" /\ run'.at \in {"emit", "sleep"}
                \/ run.at = "emit" /\ run'.at = "sleep"
    BY <1>0, <2>3 DEF StopInv, PassInv
  <2> QED BY <1>0, <2>1, <2>2, <2>3 DEF RunGoes
<1>5. ReportsInv'
  <2>1. CASE hops' = hops
    BY <1>0, <2>1 DEF StopInv, ReportsInv
  <2>2. ASSUME NEW h \in Callbacks, hops' = Append(hops, h), ReportOK(h, started, posted, start)
        PROVE  ReportsInv'
    <3>1. \A i \in DOMAIN hops' : hops'[i] = h \/ (i \in DOMAIN hops /\ hops'[i] = hops[i])
      BY <1>0, <2>2
    <3> QED BY <1>0, <2>2, <3>1 DEF StopInv, ReportsInv
  <2>3. CASE run.at \in {"output", "emit"} /\ hops' = Append(hops, Report(NoRequest, 0))
    <3>0. NoRequest \in StepRequests \union {NoRequest} /\ 0 \in Nat
      OBVIOUS
    <3>1. PICK h : h = Report(NoRequest, 0)
      OBVIOUS
    <3>2. /\ h \in Callbacks
          /\ h = [tag |-> "report", session |-> run.session, req |-> NoRequest, index |-> 0]
      BY <3>0, <3>1, ReportIs
    <3>3. run.session <= started /\ Streamed(run.session, posted, start)
      BY <1>0, <2>3 DEF StopInv, PassInv
    <3>4. ReportOK(h, started, posted, start)
      BY <3>2, <3>3 DEF ReportOK
    <3> QED BY <2>2, <2>3, <3>1, <3>2, <3>4
  <2>4. CASE run.at = "request output" /\ hops' = Append(hops, Report(run.req, accepted))
    <3>1. PICK h : h = Report(run.req, accepted)
      OBVIOUS
    <3>2. /\ h \in Callbacks
          /\ h = [tag |-> "report", session |-> run.session, req |-> run.req, index |-> accepted]
      BY <1>0, <3>1, ReportIs
    <3>3. /\ run.session = started /\ (limit = 0 \/ accepted <= limit) /\ run.req # NoRequest
      BY <1>0, <2>4 DEF ModelInv, AppOK, AskOK, StepPoints, Asked
    <3>4. started = posted => limit = start.limit
      BY <1>0 DEF StopInv, StartInv
    <3>5. started = posted /\ start.limit > 0 => accepted <= start.limit
      BY <1>0, <3>3, <3>4
    <3>6. ReportOK(h, started, posted, start)
      BY <1>0, <3>2, <3>3, <3>5 DEF ReportOK
    <3> QED BY <2>2, <2>4, <3>1, <3>2, <3>6
  <2> QED BY <1>0, <2>1, <2>3, <2>4 DEF RunTells
<1> QED BY <1>1, <1>2, <1>4, <1>5 DEF StopInv

LEMMA CrashStop ==
  ASSUME Typed, StopInv, Crashes
  PROVE  StopInv'
<1>0. /\ UNCHANGED <<state, posted, start, completed, stepsFailed, started>> /\ up' = FALSE
      /\ hops' = Append(hops, [tag |-> "crash"]) /\ hops \in Seq(Callbacks)
  BY DEF Crashes, runner, session, records, Typed, RunnerTyped
<1>1. PICK h \in Callbacks : h = [tag |-> "crash"]
  BY DEF Callbacks
<1>2. \A i \in DOMAIN hops' : hops'[i] = h \/ (i \in DOMAIN hops /\ hops'[i] = hops[i])
  BY <1>0, <1>1
<1>3. ReportsInv'
  BY <1>0, <1>1, <1>2 DEF StopInv, ReportsInv, ReportOK
<1>4. StartInv' /\ PassInv' /\ StopsAtItsSteps'
  BY <1>0 DEF StopInv, StartInv, PassInv, StopsAtItsSteps
<1> QED BY <1>3, <1>4 DEF StopInv

-------------------------------------------------------------------------------
(* No message is answered twice.                                           *)

\* An item of the queue, or a callback, that will have r answered.
Bears(it, r) ==
  \/ it.tag \in {"step", "report"} /\ it.req = r
  \/ it.tag = "command" /\ it.req = r /\ r \in Commands

None(s, r) == \A i \in DOMAIN s : ~Bears(s[i], r)
Once(s, r) == \A i, j \in DOMAIN s : Bears(s[i], r) /\ Bears(s[j], r) => i = j

\* The inbound loop has r's command in hand.
Handled(r) == InHand({"command"}) /\ inbound.item.req = r /\ r \in Commands

\* A message is in one place p at a time, and answered where it leaves the last.
Placed(r, p) ==
  /\ request[r].at # "over" => p = "runner"
  /\ ~None(queue, r) => p = "queue"
  /\ Handled(r) => p = "inbound"
  /\ pending = r => p = "pending"
  /\ run.at \in Asked /\ run.req = r => p = "run"
  /\ ~None(hops, r) => p = "hops"
  /\ answers[r] # <<>> => p = "answered"

InOnePlace(r) ==
  (\E p : Placed(r, p)) /\ Once(queue, r) /\ Once(hops, r) /\ Len(answers[r]) <= 1

AnswerInv == \A r \in Requests : InOnePlace(r)

LEMMA BearsTail ==
  ASSUME NEW T, NEW s \in Seq(T), s # <<>>, NEW r, Once(s, r)
  PROVE  /\ Once(Tail(s), r) /\ (None(s, r) => None(Tail(s), r))
         /\ Bears(Head(s), r) => None(Tail(s), r) /\ ~None(s, r)
<1>1. \A i \in DOMAIN Tail(s) : i + 1 \in DOMAIN s /\ Tail(s)[i] = s[i + 1] /\ i \in Nat /\ i + 1 # 1
  OBVIOUS
<1>2. 1 \in DOMAIN s /\ Head(s) = s[1]
  OBVIOUS
<1> HIDE DEF Bears
<1>3. Once(Tail(s), r)
  <2>1. ASSUME NEW i \in DOMAIN Tail(s), NEW j \in DOMAIN Tail(s),
               Bears(Tail(s)[i], r), Bears(Tail(s)[j], r)
        PROVE  i = j
    <3>1. i + 1 = j + 1 /\ i \in Nat /\ j \in Nat
      BY <1>1, <2>1 DEF Once
    <3> QED BY <3>1
  <2> QED BY <2>1 DEF Once
<1>4. None(s, r) => None(Tail(s), r)
  BY <1>1 DEF None
<1>5. Bears(Head(s), r) => None(Tail(s), r) /\ ~None(s, r)
  BY <1>1, <1>2 DEF None, Once
<1> QED BY <1>3, <1>4, <1>5

LEMMA BearsAppend ==
  ASSUME NEW T, NEW s \in Seq(T), NEW it \in T, NEW r, Once(s, r), Bears(it, r) => None(s, r)
  PROVE  /\ Once(Append(s, it), r)
         /\ ~Bears(it, r) /\ None(s, r) => None(Append(s, it), r)
<1>1. PICK t : t = Append(s, it)
  OBVIOUS
<1>2. PICK n \in Nat : n = Len(s)
  OBVIOUS
<1>3. DOMAIN t = 1 .. n + 1 /\ DOMAIN s = 1 .. n /\ t[n + 1] = it /\ \A i \in 1 .. n : t[i] = s[i]
  BY <1>1, <1>2
<1> HIDE DEF Bears
<1>4. Once(t, r)
  <2>1. ASSUME NEW i \in DOMAIN t, NEW j \in DOMAIN t, Bears(t[i], r), Bears(t[j], r)
        PROVE  i = j
    <3>1. CASE i \in 1 .. n /\ j \in 1 .. n
      BY <1>3, <2>1, <3>1 DEF Once
    <3>2. CASE i = n + 1 /\ j \in 1 .. n
      BY <1>3, <2>1, <3>2 DEF None
    <3>3. CASE i \in 1 .. n /\ j = n + 1
      BY <1>3, <2>1, <3>3 DEF None
    <3>4. CASE i = n + 1 /\ j = n + 1
      BY <3>4
    <3> QED BY <1>3, <3>1, <3>2, <3>3, <3>4
  <2> QED BY <2>1 DEF Once
<1>5. ~Bears(it, r) /\ None(s, r) => None(t, r)
  <2>1. \A i \in 1 .. n + 1 : i = n + 1 \/ i \in 1 .. n
    OBVIOUS
  <2> QED BY <1>3, <2>1 DEF None
<1> QED BY <1>1, <1>4, <1>5

\* A quiet post brings no message to the queue.
LEMMA BearsQuiet ==
  ASSUME NEW r \in Requests, Typed, Typed', QuietPost
  PROVE  (Once(queue, r) => Once(queue', r)) /\ (None(queue, r) => None(queue', r))
<1>1. \A i \in DOMAIN queue' : i \in DOMAIN queue \/ ~Bears(queue'[i], r)
  <2>1. ASSUME NEW i \in DOMAIN queue', Bears(queue'[i], r) PROVE i \in DOMAIN queue
    <3>1. queue'[i] \in Items
      BY DEF Typed, RunnerTyped
    <3>2. queue'[i].tag # "report"
      BY <3>1 DEF Items
    <3> QED BY <2>1, <3>2 DEF QuietPost, Quiet, Bears
  <2> QED BY <2>1
<1>2. \A i \in DOMAIN queue : i \in DOMAIN queue' /\ queue'[i] = queue[i]
  BY DEF QuietPost
<1> HIDE DEF Bears
<1> QED BY <1>1, <1>2 DEF Once, None

\* Nothing new of r: what it was not, it is not.
LEMMA PlaceStays ==
  ASSUME NEW r \in Requests, InOnePlace(r),
         request[r].at = "over" => request'[r].at = "over",
         None(queue, r) => None(queue', r), Once(queue', r),
         Handled(r)' => Handled(r), pending' = r => pending = r,
         (run'.at \in Asked /\ run'.req = r) => (run.at \in Asked /\ run.req = r),
         None(hops, r) => None(hops', r), Once(hops', r), answers'[r] = answers[r]
  PROVE  InOnePlace(r)'
<1>1. PICK p : Placed(r, p)
  BY DEF InOnePlace
<1>2. Placed(r, p)'
  BY <1>1 DEF Placed
<1> QED BY <1>2 DEF InOnePlace

\* A message is answered as it leaves its one place.
LEMMA PlaceAnswered ==
  ASSUME Typed, NEW r \in Requests, NEW k \in Codes, Answer(r, k), answers[r] = <<>>,
         request'[r].at = "over", None(queue', r), ~Handled(r)', pending' # r,
         ~ (run'.at \in Asked /\ run'.req = r), None(hops', r)
  PROVE  InOnePlace(r)'
<1>1. answers'[r] = <<k>> /\ Len(answers'[r]) = 1
  BY DEF Answer, Typed, RunnerTyped
<1>2. PICK p : p = "answered"
  OBVIOUS
<1>3. Placed(r, p)'
  BY <1>2 DEF Placed
<1>4. Once(queue', r) /\ Once(hops', r)
  BY DEF Once, None
<1> QED BY <1>1, <1>3, <1>4 DEF InOnePlace

\* An answer to r leaves every other's as they are.
LEMMA OthersKept ==
  ASSUME Typed, NEW r \in Requests, NEW k \in Codes, Answer(r, k)
  PROVE  \A q \in Requests : q # r => answers'[q] = answers[q]
BY DEF Answer, Typed, RunnerTyped

\* The runner beside its messages: nothing of any message moves.
LEMMA AnswerStays ==
  ASSUME Typed, Typed', AnswerInv, QuietPost, UNCHANGED <<model, answers>>,
         \A r \in Requests : request[r].at = "over" => request'[r].at = "over",
         hops' = hops \/ (hops # <<>> /\ hops' = Tail(hops))
  PROVE  AnswerInv'
<1>1. SUFFICES ASSUME NEW r \in Requests PROVE InOnePlace(r)'
  BY DEF AnswerInv
<1>2. InOnePlace(r)
  BY DEF AnswerInv
<1>3. Once(queue', r) /\ (None(queue, r) => None(queue', r))
  BY <1>2, BearsQuiet DEF InOnePlace
<1>4. Once(hops', r) /\ (None(hops, r) => None(hops', r))
  <2>1. CASE hops' = hops
    BY <1>2, <2>1 DEF InOnePlace
  <2>2. CASE hops # <<>> /\ hops' = Tail(hops)
    <3>1. hops \in Seq(Callbacks) /\ Once(hops, r)
      BY <1>2 DEF Typed, RunnerTyped, InOnePlace
    <3> QED BY <2>2, <3>1, BearsTail
  <2> QED BY <2>1, <2>2
<1>5. (Handled(r)' => Handled(r)) /\ pending' = pending /\ run' = run
  BY DEF model, Handled, InHand
<1> QED BY <1>2, <1>3, <1>4, <1>5, PlaceStays

LEMMA RunnerAnswer ==
  ASSUME Typed, Typed', AnswerInv,
         \/ StartSession \/ StopSession \/ CleanupComplete \/ ClientConnects \/ ClientLeaves
         \/ MediaReceived \/ (\E r \in Requests : RequestArrives(r))
         \/ StartingCommandRefused \/ StartingInputApplied \/ EmitHandlerFailure \/ EvictOnFailure
  PROVE  AnswerInv'
<1>0. RunnerTyped /\ request \in [Requests -> [at : Messages, session : Sessions]]
  BY DEF Typed, RunnerTyped
<1>1. QuietPost
  BY QuietSteps DEF Reports
<1>2. UNCHANGED <<model, answers>> /\ (hops' = hops \/ (hops # <<>> /\ hops' = Tail(hops)))
  BY DEF StartSession, StopSession, CleanupComplete, ClientConnects, ClientLeaves, MediaReceived,
         RequestArrives, StartingCommandRefused, StartingInputApplied,
         EmitHandlerFailure, EvictOnFailure
<1>3. \A r \in Requests : request[r].at = "over" => request'[r].at = "over"
  <2>1. ASSUME NEW to \in {"CLOSING", "TERMINATED"}, End(to)
        PROVE  \A r \in Requests : request[r].at = "over" => request'[r] = request[r]
    BY <1>0, <2>1, EndIs
  <2>2. ASSUME NEW b, StopAt(b)
        PROVE  \A r \in Requests : request[r].at = "over" => request'[r] = request[r]
    BY <2>1, <2>2 DEF StopAt
  <2>3. CASE StartSession \/ CleanupComplete \/ ClientConnects \/ ClientLeaves \/ MediaReceived
    BY <2>3 DEF StartSession, CleanupComplete, ClientConnects, ClientLeaves, MediaReceived, runner, asks
  <2>4. CASE StopSession \/ StartingCommandRefused \/ EmitHandlerFailure \/ EvictOnFailure
    BY <2>1, <2>2, <2>4 DEF StopSession, StartingCommandRefused, EmitHandlerFailure, EvictOnFailure
  <2>5. CASE \E r \in Requests : RequestArrives(r)
    BY <1>0, <2>5 DEF RequestArrives
  <2>6. CASE StartingInputApplied
    <3>1. Wake(FALSE) /\ FALSE \in BOOLEAN
      BY <2>6 DEF StartingInputApplied
    <3>2. \A r \in Requests :
            request[r].at \notin {"held", "fetching"} => request'[r] = request[r]
      BY <1>0, <3>1, WakeIs
    <3> QED BY <3>2
  <2> QED BY <2>3, <2>4, <2>5, <2>6
<1> QED BY <1>1, <1>2, <1>3, AnswerStays

LEMMA SubmittedAnswer ==
  ASSUME Typed, Typed', AnswerInv, StartingCommandSubmitted
  PROVE  AnswerInv'
<1>0. UNCHANGED <<model, answers, hops, request>> /\ queue \in Seq(Items) /\ posted \in Sessions
  BY DEF StartingCommandSubmitted, asks, Typed, RunnerTyped
<1>1. PICK it \in Items : it = [tag |-> "command", req |-> System, session |-> posted]
  BY <1>0 DEF Items
<1>2. queue' = IF up THEN Append(queue, it) ELSE queue
  BY <1>0, <1>1, PostOne DEF StartingCommandSubmitted
<1>3. SUFFICES ASSUME NEW r \in Requests PROVE InOnePlace(r)'
  BY DEF AnswerInv
<1>4. InOnePlace(r)
  BY DEF AnswerInv
<1>5. ~Bears(it, r)
  BY <1>1, StepAssumption DEF Bears
<1>6. Once(queue', r) /\ (None(queue, r) => None(queue', r))
  BY <1>0, <1>2, <1>4, <1>5, BearsAppend DEF InOnePlace
<1>7. (Handled(r)' => Handled(r)) /\ pending' = pending /\ run' = run
  BY <1>0 DEF model, Handled, InHand
<1>8. Once(hops', r)
  BY <1>0, <1>4 DEF InOnePlace
<1> QED BY <1>0, <1>4, <1>6, <1>7, <1>8, PlaceStays

\* A report answers the request it is of, and is gone.
LEMMA RecordAnswer ==
  ASSUME Typed, Typed', AnswerInv, RecordStep
  PROVE  AnswerInv'
<1>0. /\ hops # <<>> /\ hops' = Tail(hops) /\ hops \in Seq(Callbacks) /\ UNCHANGED model
      /\ RunnerTyped
  BY DEF RecordStep, Typed, RunnerTyped
<1>1. PICK h \in Callbacks : h = Head(hops) /\ h.tag = "report"
  BY <1>0 DEF RecordStep
<1>2. QuietPost
  BY QuietSteps DEF Reports
<1>3. \A r \in Requests : request[r].at = "over" => request'[r].at = "over"
  <2>1. PICK b \in BOOLEAN : StopAt(b)
    BY <1>1 DEF RecordStep
  <2>2. CASE b
    BY <1>0, <2>1, <2>2, EndIs DEF StopAt
  <2>3. CASE ~b
    BY <2>1, <2>3 DEF StopAt
  <2> QED BY <2>2, <2>3
<1>4. CASE h.req = NoRequest
  <2>1. answers' = answers
    BY <1>1, <1>4 DEF RecordStep
  <2> QED BY <1>0, <1>2, <1>3, <2>1, AnswerStays
<1>5. CASE h.req # NoRequest
  <2>1. PICK r \in Requests : r = h.req
    BY <1>1, <1>5 DEF Callbacks, Requests
  <2>2. PICK k \in Codes : Answer(r, k)
    <3>1. CASE Late(h)
      BY <1>1, <1>5, <2>1, <3>1 DEF RecordStep, Codes
    <3>2. CASE ~Late(h)
      BY <1>1, <1>5, <2>1, <3>2 DEF RecordStep, Codes
    <3> QED BY <3>1, <3>2
  <2>3. SUFFICES ASSUME NEW q \in Requests PROVE InOnePlace(q)'
    BY DEF AnswerInv
  <2>4. InOnePlace(q) /\ Once(hops, q) /\ Once(queue, q)
    BY DEF AnswerInv, InOnePlace
  <2>5. /\ Once(queue', q) /\ (None(queue, q) => None(queue', q))
        /\ Once(hops', q) /\ (None(hops, q) => None(hops', q))
        /\ Bears(Head(hops), q) => None(hops', q) /\ ~None(hops, q)
    BY <1>0, <1>2, <2>4, BearsTail, BearsQuiet
  <2>6. (Handled(q)' => Handled(q)) /\ pending' = pending /\ run' = run
    BY <1>0 DEF model, Handled, InHand
  <2>7. CASE q = r
    <3>1. Bears(Head(hops), q)
      BY <1>1, <2>1, <2>7 DEF Bears
    <3>2. PICK p : Placed(q, p)
      BY <2>4 DEF InOnePlace
    <3>3. p = "hops"
      BY <2>5, <3>1, <3>2 DEF Placed
    <3>4. /\ answers[q] = <<>> /\ request[q].at = "over" /\ None(queue, q) /\ ~Handled(q)
          /\ pending # q /\ ~ (run.at \in Asked /\ run.req = q)
      BY <3>2, <3>3 DEF Placed
    <3> QED BY <1>3, <2>2, <2>5, <2>6, <2>7, <3>1, <3>4, PlaceAnswered
  <2>8. CASE q # r
    <3>1. answers'[q] = answers[q]
      BY <2>2, <2>8, OthersKept
    <3> QED BY <1>3, <2>4, <2>5, <2>6, <3>1, PlaceStays
  <2> QED BY <2>7, <2>8
<1> QED BY <1>4, <1>5

\* A message leaves the runner: it is answered, or posted.
LEMMA MessageAnswer ==
  ASSUME Typed, Typed', RunnerInv, AnswerInv, NEW r \in Requests, ClientMessage(r)
  PROVE  AnswerInv'
<1>0. /\ MessageStep(r) /\ request[r].at \notin {"new", "over"}
      /\ UNCHANGED <<hops, up, model>>
  BY MessageIs
<1>1. RunnerTyped /\ queue \in Seq(Items) /\ queue' \in Seq(Items)
  BY DEF Typed, RunnerTyped
<1>2. \A q \in Requests : (Handled(q)' <=> Handled(q)) /\ pending' = pending /\ run' = run
  BY <1>0 DEF model, Handled, InHand
<1>3. PICK p : Placed(r, p)
  BY DEF AnswerInv, InOnePlace
<1>4. p = "runner"
  BY <1>0, <1>3 DEF Placed
<1>5. /\ answers[r] = <<>> /\ None(queue, r) /\ ~Handled(r) /\ pending # r
      /\ ~ (run.at \in Asked /\ run.req = r) /\ None(hops, r)
  BY <1>3, <1>4 DEF Placed
<1>6. \A q \in Requests :
        (q # r => answers'[q] = answers[q] /\ request'[q] = request[q]) /\ Once(hops', q)
  <2>1. \A q \in Requests : q # r => answers'[q] = answers[q]
    <3>1. CASE \E code \in Codes : Answer(r, code)
      BY <3>1, OthersKept
    <3>2. CASE answers' = answers
      BY <3>2
    <3> QED BY <1>0, <3>1, <3>2 DEF MessageStep, Submitted
  <2> QED BY <1>0, <2>1 DEF MessageStep, AnswerInv, InOnePlace
<1>7. ASSUME NEW q \in Requests, q # r, Once(queue', q), None(queue, q) => None(queue', q)
      PROVE  InOnePlace(q)'
  <2>1. InOnePlace(q)
    BY DEF AnswerInv
  <2> QED BY <1>0, <1>2, <1>6, <1>7, <2>1, PlaceStays
<1>8. CASE \E code \in Codes :
          /\ Answer(r, code) /\ queue' = queue
          /\ request'[r] = [request[r] EXCEPT !.at = "over"]
  <2>1. PICK code \in Codes : /\ Answer(r, code) /\ queue' = queue
                              /\ request'[r] = [request[r] EXCEPT !.at = "over"]
    BY <1>8
  <2>2. request'[r].at = "over"
    BY <1>1, <2>1 DEF RunnerTyped
  <2>3. InOnePlace(r)'
    BY <1>0, <1>2, <1>5, <2>1, <2>2, PlaceAnswered
  <2>4. \A q \in Requests : Once(queue', q) /\ (None(queue, q) => None(queue', q))
    BY <2>1 DEF AnswerInv, InOnePlace
  <2> QED BY <1>7, <2>3, <2>4 DEF AnswerInv
<1>9. CASE UNCHANGED <<answers, queue>>
  <2>1. \A q \in Requests : Once(queue', q) /\ (None(queue, q) => None(queue', q))
    BY <1>9 DEF AnswerInv, InOnePlace
  <2>2. Placed(r, p)'
    BY <1>0, <1>2, <1>4, <1>5, <1>9 DEF Placed
  <2>3. InOnePlace(r)'
    BY <1>6, <1>9, <2>1, <2>2 DEF AnswerInv, InOnePlace
  <2> QED BY <1>7, <2>1, <2>3 DEF AnswerInv
<1>10. CASE Submitted(r) /\ request'[r].at = "over"
  <2>1. PICK x, y : x = CallOf(r) /\ y = StepOf(r)
    OBVIOUS
  <2>2. /\ x \in Items /\ answers' = answers
        /\ ~up => queue' = queue
        /\ up /\ r \notin StepRequests => queue' = Append(queue, x)
        /\ r \in StepRequests =>
             /\ y \in Items
             /\ up => queue' = Append(queue, y) \/ queue' = Append(Append(queue, x), y)
    BY <1>1, <1>10, <2>1, SubmittedIs
  <2>3. /\ \A q \in Requests : q # r => ~Bears(x, q) /\ ~Bears(y, q)
        /\ r \in StepRequests => ~Bears(x, r)
    BY <2>1, StepAssumption DEF CallOf, StepOf, Bears
  <2>4. ASSUME NEW q \in Requests
        PROVE  Once(queue', q) /\ (q # r => (None(queue, q) => None(queue', q)))
    <3>1. Once(queue, q) /\ (q = r => None(queue, q))
      BY <1>5 DEF AnswerInv, InOnePlace
    <3>2. CASE queue' = queue
      BY <3>1, <3>2
    <3>3. CASE queue' = Append(queue, x)
      BY <1>1, <2>2, <2>3, <3>1, <3>3, BearsAppend
    <3>4. CASE r \in StepRequests /\ queue' = Append(queue, y)
      BY <1>1, <2>2, <2>3, <3>1, <3>4, BearsAppend
    <3>5. CASE r \in StepRequests /\ queue' = Append(Append(queue, x), y)
      <4>1. PICK t : t = Append(queue, x)
        OBVIOUS
      <4>2. ~Bears(x, q)
        BY <2>3, <3>5
      <4>3. t \in Seq(Items) /\ Once(t, q) /\ (None(queue, q) => None(t, q))
        BY <1>1, <2>2, <3>1, <4>1, <4>2, BearsAppend
      <4>4. queue' = Append(t, y) /\ (Bears(y, q) => None(t, q))
        BY <2>3, <3>1, <3>5, <4>1, <4>3
      <4> QED BY <2>2, <2>3, <3>5, <4>3, <4>4, BearsAppend
    <3> QED BY <2>2, <3>2, <3>3, <3>4, <3>5
  <2>5. Placed(r, "queue")'
    BY <1>0, <1>2, <1>5, <1>10, <2>2 DEF Placed
  <2>6. InOnePlace(r)'
    BY <1>6, <2>2, <2>4, <2>5 DEF AnswerInv, InOnePlace
  <2> QED BY <1>7, <2>4, <2>6 DEF AnswerInv
<1> QED BY <1>0, <1>8, <1>9, <1>10 DEF MessageStep

\* An item that bears no message is taken, or nothing is.
LEMMA InboundStays ==
  ASSUME Typed, AnswerInv, UNCHANGED <<request, answers, pending>>,
         run'.at = run.at, run'.req = run.req,
         \A r \in Requests : Handled(r)' => Handled(r),
         queue' = queue \/ (queue # <<>> /\ queue' = Tail(queue)),
         \/ hops' = hops
         \/ \E h \in Callbacks : hops' = Append(hops, h) /\ \A r \in Requests : ~Bears(h, r)
  PROVE  AnswerInv'
<1>1. SUFFICES ASSUME NEW r \in Requests PROVE InOnePlace(r)'
  BY DEF AnswerInv
<1>2. InOnePlace(r) /\ Once(queue, r) /\ Once(hops, r) /\ queue \in Seq(Items) /\ hops \in Seq(Callbacks)
  BY DEF AnswerInv, InOnePlace, Typed, RunnerTyped
<1>3. Once(queue', r) /\ (None(queue, r) => None(queue', r))
  <2>1. CASE queue' = queue
    BY <1>2, <2>1
  <2>2. CASE queue # <<>> /\ queue' = Tail(queue)
    BY <1>2, <2>2, BearsTail
  <2> QED BY <2>1, <2>2
<1>4. Once(hops', r) /\ (None(hops, r) => None(hops', r))
  <2>1. CASE hops' = hops
    BY <1>2, <2>1
  <2>2. CASE \E h \in Callbacks : hops' = Append(hops, h) /\ \A q \in Requests : ~Bears(h, q)
    <3>1. PICK h \in Callbacks : hops' = Append(hops, h) /\ ~Bears(h, r)
      BY <2>2
    <3> QED BY <1>2, <3>1, BearsAppend
  <2> QED BY <2>1, <2>2
<1> QED BY <1>2, <1>3, <1>4, PlaceStays

\* A command comes to the inbound loop's hand, and leaves it answered.
LEMMA CommandAnswer ==
  ASSUME Typed, ModelInv, AnswerInv, DispatchCommand
  PROVE  AnswerInv'
<1>1. /\ up /\ inbound.at = "idle" /\ queue # <<>> /\ queue \in Seq(Items) /\ Head(queue) \in Items
      /\ Head(queue).tag = "command" /\ queue' = Tail(queue)
  BY NextItem DEF DispatchCommand
<1>2. UNCHANGED <<request, answers, pending, run, hops>> /\ \A r \in Requests : ~Handled(r)
  BY <1>1 DEF DispatchCommand, runner, asks, Handled, InHand
<1>3. CASE inbound' = inbound
  <2>1. \A r \in Requests : Handled(r)' => Handled(r)
    BY <1>3 DEF Handled, InHand
  <2> QED BY <1>1, <1>2, <2>1, InboundStays
<1>4. CASE inbound' = [at |-> "lock", item |-> Head(queue)]
  <2>1. SUFFICES ASSUME NEW r \in Requests PROVE InOnePlace(r)'
    BY DEF AnswerInv
  <2>2. InOnePlace(r) /\ Once(queue, r) /\ Once(hops, r)
    BY DEF AnswerInv, InOnePlace
  <2>3. /\ Once(queue', r) /\ (None(queue, r) => None(queue', r))
        /\ Bears(Head(queue), r) => None(queue', r) /\ ~None(queue, r)
    BY <1>1, <2>2, BearsTail
  <2>4. CASE Bears(Head(queue), r)
    <3>1. PICK p : Placed(r, p)
      BY <2>2 DEF InOnePlace
    <3>2. p = "queue"
      BY <2>3, <2>4, <3>1 DEF Placed
    <3>3. PICK p2 : p2 = "inbound"
      OBVIOUS
    <3>4. Placed(r, p2)'
      BY <1>2, <2>3, <2>4, <3>1, <3>2, <3>3 DEF Placed
    <3> QED BY <1>2, <2>2, <2>3, <3>4 DEF InOnePlace
  <2>5. CASE ~Bears(Head(queue), r)
    <3>1. ~Handled(r)'
      BY <1>1, <1>4, <2>5 DEF Handled, InHand, Bears
    <3> QED BY <1>2, <2>2, <2>3, <3>1, PlaceStays
  <2> QED BY <2>4, <2>5
<1> QED BY <1>3, <1>4 DEF DispatchCommand, Done, WantsLock

LEMMA CommandRunsAnswer ==
  ASSUME Typed, ModelInv, AnswerInv, CommandRuns
  PROVE  AnswerInv'
<1>1. PICK r \in Requests \union {System} :
           /\ r = inbound.item.req /\ inbound.item.tag = "command" /\ inbound.item.session \in Sessions
           /\ \/ r \in Commands /\ \E k \in Codes : Answer(r, k)
              \/ r \notin Commands /\ answers' = answers
           /\ \/ hops' = hops
              \/ hops' = Append(hops, [tag |-> "failure", session |-> inbound.item.session])
  BY CommandIs
<1>2. /\ UNCHANGED <<request, pending, run, queue>> /\ inbound' = Idle
      /\ inbound.at = "lock"
  BY DEF CommandRuns, Locked, runner, asks, ModelInv, LockOK
<1>3. \A q \in Requests : ~Handled(q)'
  BY <1>2 DEF Handled, InHand, Idle
<1>4. PICK h \in Callbacks : h = [tag |-> "failure", session |-> inbound.item.session]
  BY <1>1 DEF Callbacks
<1>5. hops \in Seq(Callbacks) /\ \A q \in Requests : ~Bears(h, q)
  BY <1>4 DEF Typed, RunnerTyped, Bears
<1>6. \A q \in Requests : Once(hops', q) /\ (None(hops, q) => None(hops', q))
  <2>1. SUFFICES ASSUME NEW q \in Requests
                 PROVE  Once(hops', q) /\ (None(hops, q) => None(hops', q))
    OBVIOUS
  <2>2. Once(hops, q) /\ ~Bears(h, q)
    BY <1>5 DEF AnswerInv, InOnePlace
  <2>3. CASE hops' = hops
    BY <2>2, <2>3
  <2>4. CASE hops' = Append(hops, h)
    BY <1>5, <2>2, <2>4, BearsAppend
  <2> QED BY <1>1, <1>4, <2>3, <2>4
<1>7. SUFFICES ASSUME NEW q \in Requests PROVE InOnePlace(q)'
  BY DEF AnswerInv
<1>8. InOnePlace(q) /\ Once(queue', q) /\ None(queue, q) = None(queue', q)
  BY <1>2 DEF AnswerInv, InOnePlace
<1>9. CASE r \in Commands /\ q = r
  <2>1. Handled(q)
    BY <1>1, <1>2, <1>9 DEF Handled, InHand
  <2>2. PICK p : Placed(q, p)
    BY <1>8 DEF InOnePlace
  <2>3. p = "inbound"
    BY <2>1, <2>2 DEF Placed
  <2>4. /\ answers[q] = <<>> /\ request[q].at = "over" /\ None(queue, q) /\ None(hops, q)
        /\ pending # q /\ ~ (run.at \in Asked /\ run.req = q)
    BY <2>2, <2>3 DEF Placed
  <2>5. PICK k \in Codes : Answer(q, k)
    BY <1>1, <1>9
  <2> QED BY <1>2, <1>3, <1>6, <2>4, <2>5, PlaceAnswered
<1>10. CASE ~ (r \in Commands /\ q = r)
  <2>1. answers'[q] = answers[q]
    <3>1. CASE r \in Commands
      <4>1. r \in Requests /\ q # r
        BY <1>10, <3>1 DEF Requests
      <4>2. PICK k \in Codes : Answer(r, k)
        BY <1>1, <3>1
      <4> QED BY <4>1, <4>2, OthersKept
    <3>2. CASE r \notin Commands
      BY <1>1, <3>2
    <3> QED BY <3>1, <3>2
  <2> QED BY <1>2, <1>3, <1>6, <1>8, <2>1, PlaceStays
<1> QED BY <1>9, <1>10

\* A step request goes to run(), or is answered.
LEMMA StepAnswer ==
  ASSUME Typed, ModelInv, AnswerInv, DispatchStep
  PROVE  AnswerInv'
<1>1. PICK r \in StepRequests :
           /\ r = Head(queue).req /\ queue # <<>> /\ Head(queue).tag = "step" /\ up
           /\ inbound.at = "idle" /\ queue' = Tail(queue)
           /\ UNCHANGED <<runner, hops, buffer, up>>
           /\ \/ (\E k \in Codes : Answer(r, k)) /\ UNCHANGED <<inbound, pending, run>>
              \/ /\ answers' = answers /\ pending' = r
                 /\ inbound'.at = "await" /\ run'.at = run.at /\ run'.req = run.req
  BY DispatchStepIs
<1>2. /\ r \in Requests /\ queue \in Seq(Items) /\ request' = request /\ hops' = hops
      /\ pending = NoRequest /\ run'.at = run.at /\ run'.req = run.req
  BY <1>1 DEF Requests, Typed, RunnerTyped, runner, asks, ModelInv, AskOK
<1>3. \A q \in Requests : ~Handled(q)'
  BY <1>1 DEF Handled, InHand
<1>4. SUFFICES ASSUME NEW q \in Requests PROVE InOnePlace(q)'
  BY DEF AnswerInv
<1>5. InOnePlace(q) /\ Once(queue, q) /\ Once(hops', q)
  BY <1>2 DEF AnswerInv, InOnePlace
<1>6. /\ Once(queue', q) /\ (None(queue, q) => None(queue', q))
      /\ Bears(Head(queue), q) => None(queue', q) /\ ~None(queue, q)
  BY <1>1, <1>2, <1>5, BearsTail
<1>7. CASE q = r
  <2>1. Bears(Head(queue), q)
    BY <1>1, <1>7 DEF Bears
  <2>2. PICK p : Placed(q, p)
    BY <1>5 DEF InOnePlace
  <2>3. p = "queue"
    BY <1>6, <2>1, <2>2 DEF Placed
  <2>4. /\ answers[q] = <<>> /\ request[q].at = "over" /\ None(hops, q)
        /\ pending # q /\ ~ (run.at \in Asked /\ run.req = q)
    BY <2>2, <2>3 DEF Placed
  <2>5. CASE (\E k \in Codes : Answer(r, k)) /\ UNCHANGED <<inbound, pending, run>>
    <3>1. PICK k \in Codes : Answer(q, k)
      BY <1>7, <2>5
    <3> QED BY <1>2, <1>3, <1>6, <2>1, <2>4, <2>5, <3>1, PlaceAnswered
  <2>6. CASE answers' = answers /\ pending' = r
    <3>1. PICK p2 : p2 = "pending"
      OBVIOUS
    <3>2. Placed(q, p2)'
      BY <1>2, <1>3, <1>6, <2>1, <2>4, <2>6, <3>1 DEF Placed
    <3> QED BY <1>5, <1>6, <2>6, <3>2 DEF InOnePlace
  <2> QED BY <1>1, <2>5, <2>6
<1>8. CASE q # r
  <2>1. answers'[q] = answers[q] /\ (pending' = q => pending = q)
    <3>1. CASE \E k \in Codes : Answer(r, k) /\ UNCHANGED <<inbound, pending, run>>
      BY <1>2, <1>8, <3>1, OthersKept
    <3>2. CASE answers' = answers /\ pending' = r
      BY <1>8, <3>2
    <3> QED BY <1>1, <3>1, <3>2
  <2> QED BY <1>2, <1>3, <1>5, <1>6, <1>8, <2>1, PlaceStays
<1> QED BY <1>7, <1>8

LEMMA InboundAnswer ==
  ASSUME Typed, ModelInv, AnswerInv, InboundLoop
  PROVE  AnswerInv'
<1>1. CASE DispatchCommand
  BY <1>1, CommandAnswer
<1>2. CASE CommandRuns
  BY <1>2, CommandRunsAnswer
<1>3. CASE DispatchStep
  BY <1>3, StepAnswer
<1>4. CASE DispatchConnection \/ DispatchSessionStarted \/ DispatchStartingInputApplied
           \/ DispatchSessionEnded
  <2>1. PICK tag : NextIs(tag) /\ tag \in {"connected", "disconnected", "started", "applied", "ended"}
    BY <1>4 DEF DispatchConnection, DispatchSessionStarted, DispatchStartingInputApplied,
            DispatchSessionEnded
  <2>2. queue # <<>> /\ queue' = Tail(queue) /\ Head(queue).tag = tag /\ inbound.at = "idle"
    BY <2>1, NextItem
  <2>3. /\ UNCHANGED <<answers, hops, pending, request>>
        /\ run' = [run EXCEPT !.woken = @ \/ (run.at = "turn" /\ live')]
        /\ inbound' = inbound \/ inbound' = [at |-> "lock", item |-> Head(queue)]
    BY <1>4 DEF DispatchConnection, DispatchSessionStarted, DispatchStartingInputApplied,
            DispatchSessionEnded, UpdateLive, runner, asks, WantsLock, Done
  <2>4. run'.at = run.at /\ run'.req = run.req
    BY <2>3 DEF Typed, ModelTyped
  <2>5. \A r \in Requests : ~Handled(r)'
    BY <2>1, <2>2, <2>3 DEF Handled, InHand
  <2> QED BY <2>2, <2>3, <2>4, <2>5, InboundStays
<1>5. CASE ConnectionHookRuns \/ SessionStartedRuns \/ SessionEndedRuns
  <2>1. UNCHANGED <<answers, hops, pending, request, run, queue>> /\ inbound' = Idle
    BY <1>5 DEF ConnectionHookRuns, SessionStartedRuns, SessionEndedRuns, Locked, runner, asks
  <2>2. \A r \in Requests : ~Handled(r)'
    BY <2>1 DEF Handled, InHand, Idle
  <2> QED BY <2>1, <2>2, InboundStays
<1> QED BY <1>1, <1>2, <1>3, <1>4, <1>5 DEF InboundLoop

\* run() takes the pending request, and answers it or reports its step.
LEMMA RunAnswer ==
  ASSUME Typed, ModelInv, AnswerInv, RunStep
  PROVE  AnswerInv'
<1>0. /\ UNCHANGED <<request, queue>> /\ up /\ RunGoes /\ RunTells
      /\ inbound' = inbound \/ inbound' = Idle
      /\ hops \in Seq(Callbacks) /\ accepted \in Nat
      /\ run.req \in StepRequests \union {NoRequest} /\ pending \in StepRequests \union {NoRequest}
  BY DEF RunStep, runner, asks, Typed, RunnerTyped, ModelTyped
<1>1. NoRequest \notin Requests
  BY StepAssumption
<1>2. SUFFICES ASSUME NEW q \in Requests PROVE InOnePlace(q)'
  BY DEF AnswerInv
<1>3. InOnePlace(q) /\ Once(hops, q) /\ Once(queue', q) /\ None(queue', q) = None(queue, q)
  BY <1>0 DEF AnswerInv, InOnePlace
<1>4. Handled(q)' => Handled(q)
  BY <1>0 DEF Handled, InHand, Idle
<1>5. PICK p : Placed(q, p)
  BY <1>3 DEF InOnePlace
<1>6. /\ pending' = q => pending = q
      /\ run'.at \in Asked /\ run'.req = q =>
           (run.at \in Asked /\ run.req = q /\ pending' = pending) \/ (pending = q /\ pending' = NoRequest)
  BY <1>0, <1>1 DEF RunGoes, Asked
<1>7. CASE hops' = hops /\ answers' = answers
  <2>1. CASE run'.at \in Asked /\ run'.req = q /\ pending = q /\ pending' = NoRequest
    <3>1. p = "pending"
      BY <1>5, <2>1 DEF Placed
    <3>2. PICK p2 : p2 = "run"
      OBVIOUS
    <3>3. Placed(q, p2)'
      BY <1>0, <1>1, <1>3, <1>4, <1>5, <1>7, <2>1, <3>1, <3>2 DEF Placed
    <3> QED BY <1>3, <1>7, <3>3 DEF InOnePlace
  <2>2. CASE ~ (run'.at \in Asked /\ run'.req = q /\ pending = q /\ pending' = NoRequest)
    <3>1. run'.at \in Asked /\ run'.req = q => run.at \in Asked /\ run.req = q
      BY <1>6, <2>2
    <3> QED BY <1>0, <1>3, <1>4, <1>6, <1>7, <3>1, PlaceStays
  <2> QED BY <2>1, <2>2
<1>8. CASE /\ run.at \in {"output", "emit"} /\ hops' = Append(hops, Report(NoRequest, 0))
           /\ answers' = answers /\ run'.at = "sleep"
  <2>0. NoRequest \in StepRequests \union {NoRequest} /\ 0 \in Nat
    OBVIOUS
  <2>1. PICK h : h = Report(NoRequest, 0)
    OBVIOUS
  <2>2. /\ h \in Callbacks
        /\ h = [tag |-> "report", session |-> run.session, req |-> NoRequest, index |-> 0]
    BY <2>0, <2>1, ReportIs
  <2>3. ~Bears(h, q)
    BY <1>1, <2>2 DEF Bears
  <2>4. Once(hops', q) /\ (None(hops, q) => None(hops', q))
    BY <1>0, <1>3, <1>8, <2>1, <2>2, <2>3, BearsAppend
  <2>5. run'.at \notin Asked
    BY <1>8 DEF Asked
  <2> QED BY <1>0, <1>3, <1>4, <1>6, <1>8, <2>4, <2>5, PlaceStays
<1>9. CASE /\ run.at = "request output" /\ hops' = Append(hops, Report(run.req, accepted))
           /\ answers' = answers /\ run'.at \notin Asked
  <2>1. PICK h : h = Report(run.req, accepted)
    OBVIOUS
  <2>2. /\ h \in Callbacks
        /\ h = [tag |-> "report", session |-> run.session, req |-> run.req, index |-> accepted]
    BY <1>0, <2>1, ReportIs
  <2>3. Bears(h, q) <=> run.req = q
    BY <2>2 DEF Bears
  <2>4. CASE run.req = q
    <3>1. p = "run"
      BY <1>5, <1>9, <2>4 DEF Placed, Asked
    <3>2. /\ answers[q] = <<>> /\ request[q].at = "over" /\ None(queue, q) /\ ~Handled(q)
          /\ pending # q /\ None(hops, q)
      BY <1>5, <3>1 DEF Placed
    <3>3. Once(hops', q)
      BY <1>0, <1>3, <1>9, <2>1, <2>2, <3>2, BearsAppend
    <3>4. PICK p2 : p2 = "hops"
      OBVIOUS
    <3>5. Placed(q, p2)'
      BY <1>0, <1>3, <1>4, <1>6, <1>9, <3>2, <3>4 DEF Placed
    <3> QED BY <1>3, <1>9, <3>2, <3>3, <3>5 DEF InOnePlace
  <2>5. CASE run.req # q
    <3>1. Once(hops', q) /\ (None(hops, q) => None(hops', q))
      BY <1>0, <1>3, <1>9, <2>1, <2>2, <2>3, <2>5, BearsAppend
    <3> QED BY <1>0, <1>3, <1>4, <1>6, <1>9, <3>1, PlaceStays
  <2> QED BY <2>4, <2>5
<1>10. CASE /\ run.at = "request input" /\ hops' = hops /\ run'.at \notin Asked
            /\ \E k \in Codes : Answer(run.req, k)
  <2>1. PICK r : r = run.req
    OBVIOUS
  <2>2. r \in Requests
    BY <1>0, <1>10, <2>1, AskedFor DEF Asked
  <2>3. PICK k \in Codes : Answer(r, k)
    BY <1>10, <2>1
  <2>4. CASE q = r
    <3>1. p = "run"
      BY <1>5, <1>10, <2>1, <2>4 DEF Placed, Asked
    <3>2. /\ answers[q] = <<>> /\ request[q].at = "over" /\ None(queue, q) /\ ~Handled(q)
          /\ pending # q /\ None(hops, q)
      BY <1>5, <3>1 DEF Placed
    <3> QED BY <1>0, <1>3, <1>4, <1>6, <1>10, <2>3, <2>4, <3>2, PlaceAnswered
  <2>5. CASE q # r
    <3>1. answers'[q] = answers[q]
      BY <2>2, <2>3, <2>5, OthersKept
    <3> QED BY <1>0, <1>3, <1>4, <1>6, <1>10, <3>1, PlaceStays
  <2> QED BY <2>4, <2>5
<1> QED BY <1>0, <1>7, <1>8, <1>9, <1>10 DEF RunTells

LEMMA CrashAnswer ==
  ASSUME Typed, AnswerInv, Crashes
  PROVE  AnswerInv'
<1>0. /\ UNCHANGED <<request, answers>> /\ hops' = Append(hops, [tag |-> "crash"])
      /\ queue' = <<>> /\ inbound' = Idle /\ pending' = NoRequest /\ run' = RunAt("over")
      /\ hops \in Seq(Callbacks)
  BY DEF Crashes, runner, asks, Typed, RunnerTyped
<1>1. PICK h \in Callbacks : h = [tag |-> "crash"]
  BY DEF Callbacks
<1>2. SUFFICES ASSUME NEW r \in Requests PROVE InOnePlace(r)'
  BY DEF AnswerInv
<1>3. InOnePlace(r) /\ Once(hops, r)
  BY DEF AnswerInv, InOnePlace
<1>4. ~Bears(h, r)
  BY <1>1 DEF Bears
<1>5. Once(hops', r) /\ (None(hops, r) => None(hops', r))
  BY <1>0, <1>1, <1>3, <1>4, BearsAppend
<1>6. None(queue', r) /\ Once(queue', r)
  BY <1>0 DEF None, Once
<1>7. ~Handled(r)' /\ run'.at \notin Asked /\ pending' # r
  BY <1>0, StepAssumption DEF Handled, InHand, Idle, RunAt, Asked
<1> QED BY <1>0, <1>3, <1>5, <1>6, <1>7, PlaceStays

-------------------------------------------------------------------------------
(* The invariant, and what it says.                                        *)

\* The two tasks and their lock, the runner's messages, the queue between them,
\* the starting input, the steps a session may take and the answers, together:
\* none of them holds by itself.
LoopInv ==
  Typed /\ ModelInv /\ RunnerInv /\ QueueInv /\ SeedInv /\ StopInv /\ AnswerInv

LEMMA LoopInit ==
  ASSUME Init
  PROVE  LoopInv
<1>0. 0 \in Sessions /\ 0 \in 0 .. MaxJoins
  BY StepAssumption DEF Sessions
<1>1. RunnerTyped
  <2>1. Bounded(buffer)
    BY EmptyIsBounded DEF Init
  <2>2. /\ request \in [Requests -> [at : Messages, session : Sessions]]
        /\ answers \in [Requests -> Seq(Codes)]
    BY <1>0 DEF Init, Messages
  <2>3. /\ state \in {"READY", "RUNNING", "CLOSING", "TERMINATED"}
        /\ posted \in Sessions /\ joins \in 0 .. MaxJoins
        /\ seeding \in {"none", "command", "finish"}
    BY <1>0 DEF Init
  <2>4. /\ client \in BOOLEAN /\ system \in BOOLEAN /\ startingDone \in BOOLEAN
        /\ stepsFailed \in BOOLEAN
    BY DEF Init
  <2>5. start \in Starts
    BY DEF Init, Starts
  <2>6. hops \in Seq(Callbacks) /\ queue \in Seq(Items) /\ completed \in Nat
    BY DEF Init
  <2> QED BY <2>1, <2>2, <2>3, <2>4, <2>5, <2>6 DEF RunnerTyped
<1>2. run \in RunTypes /\ run.at = "turn"
  BY <1>0 DEF Init, RunAt, RunTypes, Points
<1>3. ModelTyped
  <2>1. started \in Sessions /\ started <= posted /\ appState \in Sessions
    BY <1>0 DEF Init
  <2>2. /\ up \in BOOLEAN /\ active \in BOOLEAN /\ seedPending \in BOOLEAN
        /\ stepped \in BOOLEAN /\ connected \in BOOLEAN /\ live \in BOOLEAN
    BY DEF Init
  <2>3. accepted \in Nat /\ limit \in Nat /\ gateDrops \in Nat
    BY DEF Init
  <2>4. /\ failedCalls \in SUBSET StepRequests /\ pending \in StepRequests \union {NoRequest}
        /\ lock \in {"free", "run", "inbound"}
    BY DEF Init
  <2>5. inbound \in [at : {"idle", "lock", "await"}, item : Items \union {[tag |-> "none"]}]
    BY DEF Init, Idle
  <2> QED BY <1>2, <2>1, <2>2, <2>3, <2>4, <2>5 DEF ModelTyped, RunTypes
<1>4. ModelInv
  <2>1. LockOK
    BY <1>2 DEF Init, LockOK, Idle, StepPoints
  <2>2. GateOK
    BY <1>2 DEF Init, GateOK, Passing
  <2>3. AppOK
    BY <1>2 DEF Init, AppOK, InHand, Idle, StepPoints
  <2>4. AskOK
    BY <1>2 DEF Init, AskOK, Idle, Asked
  <2> QED BY <2>1, <2>2, <2>3, <2>4 DEF Init, ModelInv, DownOK
<1>5. RunnerInv
  BY DEF Init, RunnerInv
<1>6. QueueInv
  <2>1. PICK a, P, S, d, R : a = Now /\ P = posted /\ S = start /\ d = seeding /\ R = request
    OBVIOUS
  <2>2. a \in Stages /\ Then = a /\ queue = <<>>
    BY <2>1 DEF Init, Now, Then, Stage, Stages
  <2>3. Tracked(<<>>, a, a, P, S, d, R)
    BY <2>2, TrackedEmpty
  <2> QED BY <2>1, <2>2, <2>3 DEF QueueInv
<1>7. SeedInv
  BY <1>2 DEF Init, SeedInv, SeedWaits, StepPoints, Asked
<1>8. StopInv
  <2>1. StartInv
    BY DEF Init, StartInv
  <2>2. PassInv
    BY <1>2 DEF PassInv
  <2>3. ReportsInv
    <3>1. DOMAIN hops = {}
      BY DEF Init
    <3> QED BY <3>1 DEF ReportsInv
  <2>4. StopsAtItsSteps
    BY DEF Init, StopsAtItsSteps
  <2> QED BY <2>1, <2>2, <2>3, <2>4 DEF StopInv
<1>9. AnswerInv
  <2>1. SUFFICES ASSUME NEW r \in Requests PROVE InOnePlace(r)
    BY DEF AnswerInv
  <2>2. None(queue, r) /\ None(hops, r) /\ Once(queue, r) /\ Once(hops, r)
    BY DEF Init, None, Once
  <2>3. answers[r] = <<>> /\ Len(answers[r]) = 0 /\ ~Handled(r) /\ run.at \notin Asked /\ pending # r
    BY <1>2, StepAssumption DEF Init, Handled, InHand, Idle, Asked
  <2>4. PICK p : p = "runner"
    OBVIOUS
  <2>5. Placed(r, p)
    BY <2>2, <2>3, <2>4 DEF Placed
  <2> QED BY <2>2, <2>3, <2>5 DEF InOnePlace
<1> QED BY <1>1, <1>3, <1>4, <1>5, <1>6, <1>7, <1>8, <1>9 DEF LoopInv, Typed

\* The runner's steps find the model thread as they leave it.
LEMMA RunnerStepModel ==
  ASSUME Typed, ModelInv,
         \/ StartSession \/ StopSession \/ CleanupComplete \/ ClientConnects \/ ClientLeaves
         \/ MediaReceived \/ (\E r \in Requests : RequestArrives(r))
         \/ StartingInput \/ Reports
  PROVE  ModelInv'
<1>1. UNCHANGED <<up, model>>
  BY DEF StartSession, StopSession, CleanupComplete, ClientConnects, ClientLeaves, MediaReceived,
         RequestArrives, StartingInput, StartingCommandSubmitted, StartingCommandRefused,
         StartingInputApplied, Reports, RecordStep, EmitHandlerFailure, EvictOnFailure
<1>2. ~up => queue' = queue
  BY DEF StartSession, StopSession, CleanupComplete, ClientConnects, ClientLeaves, MediaReceived,
         RequestArrives, StartingInput, StartingCommandSubmitted, StartingCommandRefused,
         StartingInputApplied, Reports, RecordStep, EmitHandlerFailure, EvictOnFailure, StopAt, Post
<1> QED BY <1>1, <1>2, RunnerKeepsModel

LEMMA LoopStep ==
  ASSUME LoopInv, Next
  PROVE  LoopInv'
<1> USE DEF LoopInv
<1>1. CASE StartSession \/ StopSession \/ CleanupComplete \/ ClientConnects \/ ClientLeaves
             \/ MediaReceived \/ \E r \in Requests : RequestArrives(r)
  <2>1. Typed'
    BY <1>1, EnvironmentTyped
  <2>2. ModelInv'
    BY <1>1, RunnerStepModel
  <2>3. RunnerInv'
    BY <1>1, EnvironmentRunner
  <2>4. QueueInv'
    BY <1>1, <2>1, EnvironmentQueue
  <2>5. SeedInv'
    BY <1>1, RunnerSeed
  <2>6. StopInv'
    BY <1>1, RunnerStop, StartStop
  <2>7. AnswerInv'
    BY <1>1, <2>1, RunnerAnswer
  <2> QED BY <2>1, <2>2, <2>3, <2>4, <2>5, <2>6, <2>7
<1>2. CASE StartingInput
  <2>1. Typed'
    BY <1>2, StartingInputTyped
  <2>2. ModelInv'
    BY <1>2, RunnerStepModel
  <2>3. RunnerInv'
    BY <1>2, StartingInputRunner
  <2>4. QueueInv'
    BY <1>2, <2>1, StartingInputQueue
  <2>5. SeedInv'
    BY <1>2, RunnerSeed, SubmittedSeed DEF StartingInput
  <2>6. StopInv'
    BY <1>2, RunnerStop
  <2>7. AnswerInv'
    BY <1>2, <2>1, RunnerAnswer, SubmittedAnswer DEF StartingInput
  <2> QED BY <2>1, <2>2, <2>3, <2>4, <2>5, <2>6, <2>7
<1>3. CASE Reports
  <2>1. Typed'
    BY <1>3, ReportsTyped
  <2>2. ModelInv'
    BY <1>3, RunnerStepModel
  <2>3. RunnerInv'
    BY <1>3, ReportsRunner
  <2>4. QueueInv'
    BY <1>3, <2>1, ReportsQueue
  <2>5. SeedInv'
    BY <1>3, RunnerSeed
  <2>6. StopInv'
    BY <1>3, ReportsStop
  <2>7. AnswerInv'
    BY <1>3, <2>1, RunnerAnswer, RecordAnswer DEF Reports
  <2> QED BY <2>1, <2>2, <2>3, <2>4, <2>5, <2>6, <2>7
<1>4. CASE \E r \in Requests : ClientMessage(r)
  <2>0. PICK r \in Requests : ClientMessage(r)
    BY <1>4
  <2>1. Typed'
    BY <2>0, MessageTyped
  <2>2. ModelInv'
    <3>1. MessageStep(r) /\ UNCHANGED <<up, model>> /\ RunnerTyped
      BY <2>0, MessageIs DEF Typed
    <3>2. ~up => queue' = queue
      BY <3>1, SubmittedIs DEF MessageStep
    <3> QED BY <3>1, <3>2, RunnerKeepsModel
  <2>3. RunnerInv'
    BY <2>0, MessageRunner
  <2>4. QueueInv'
    BY <2>0, <2>1, MessageQueue
  <2>5. SeedInv'
    BY <2>0, MessageSeed
  <2>6. StopInv'
    BY <2>0, RunnerStop
  <2>7. AnswerInv'
    BY <2>0, <2>1, MessageAnswer
  <2> QED BY <2>1, <2>2, <2>3, <2>4, <2>5, <2>6, <2>7
<1>5. CASE InboundLoop \/ RunLoop \/ Crashes
  <2>1. Typed' /\ ModelInv'
    <3>1. CASE InboundLoop
      BY <3>1, ConnectionStep, SessionStartedStep, InputAppliedStep, SessionEndedStep,
         DispatchCommandStep, DispatchStepStep, ConnectionHookStep, SessionStartedRunsStep,
         SessionEndedRunsStep, CommandRunsStep DEF InboundLoop
    <3>2. CASE RunLoop
      BY <3>2, TurnTakenStep, StepBeginsStep, InputRefusedStep, InputAcceptedStep,
         OutputReturnsStep, EmitReturnsStep, SleepEndsStep, RequestedRefusedStep,
         RequestedAcceptedStep, RequestedOutputStep DEF RunLoop
    <3>3. CASE Crashes
      BY <3>3, CrashStep
    <3> QED BY <1>5, <3>1, <3>2, <3>3
  <2>2. RunnerInv'
    BY <1>5, ModelStepIs, ModelKeepsRunner
  <2>3. QueueInv'
    BY <1>5, <2>1, ModelQueue
  <2>4. CASE InboundLoop
    BY <2>1, <2>2, <2>3, <2>4, InboundSeed, InboundStop, InboundAnswer
  <2>5. CASE RunLoop
    <3>1. RunStep
      BY <2>5, RunStepIs
    <3> QED BY <2>1, <2>2, <2>3, <3>1, RunSeed, RunStop, RunAnswer
  <2>6. CASE Crashes
    <3>1. SeedInv'
      BY <2>6 DEF Crashes, SeedInv
    <3> QED BY <2>1, <2>2, <2>3, <2>6, <3>1, CrashStop, CrashAnswer
  <2> QED BY <1>5, <2>4, <2>5, <2>6
<1> QED BY <1>1, <1>2, <1>3, <1>4, <1>5 DEF Next, Environment

LEMMA LoopStutters ==
  ASSUME LoopInv, UNCHANGED vars
  PROVE  LoopInv'
<1>1. UNCHANGED <<state, posted, start, client, joins, system, seeding, startingDone, request, order,
                  completed, stepsFailed, answers, hops, queue, buffer, up>>
  BY DEF vars, runner, session, seeds, asks, records
<1>2. UNCHANGED <<started, active, seedPending, connected, live, gateDrops, stepped, accepted, limit,
                  failedCalls, appState, pending, lock, inbound, run>>
  BY DEF vars, model, gate, steps
<1>3. Typed'
  BY <1>1, <1>2 DEF LoopInv, Typed, RunnerTyped, ModelTyped
<1>4. ModelInv'
  BY <1>1, <1>2 DEF LoopInv, ModelInv, LockOK, GateOK, AppOK, AskOK, DownOK, InHand
<1>5. RunnerInv'
  BY <1>1, <1>2 DEF LoopInv, RunnerInv
<1>6. QueueInv'
  BY <1>1, <1>2 DEF LoopInv, QueueInv, Now, Then, Stage
<1>7. SeedInv'
  BY <1>1, <1>2 DEF LoopInv, SeedInv, SeedWaits
<1>8. StopInv'
  BY <1>1, <1>2 DEF LoopInv, StopInv, StartInv, PassInv, ReportsInv, StopsAtItsSteps
<1>9. AnswerInv'
  BY <1>1, <1>2 DEF LoopInv, AnswerInv, InOnePlace, Placed, Handled, InHand
<1> QED BY <1>3, <1>4, <1>5, <1>6, <1>7, <1>8, <1>9 DEF LoopInv

\* The loop's invariant holds at every step of the two threads.
THEOREM LoopInvariant == Spec => []LoopInv
<1>1. Init => LoopInv
  BY LoopInit
<1>2. LoopInv /\ [Next]_vars => LoopInv'
  BY LoopStep, LoopStutters
<1> QED BY <1>1, <1>2, PTL DEF Spec

\* A step belongs to one session, for every number of sessions, commands and
\* step requests: it runs on the state built for the session it is reported to
\* (reactor_app.py, run), in a pass of that session alone, behind its starting
\* command, and a requested one in the session that admitted it
\* (runner.py, _submit_step).
THEOREM StepsStayInTheirSession == Spec => []StepStaysInItsSession
<1>1. LoopInv => StepStaysInItsSession
  <2> SUFFICES ASSUME LoopInv PROVE StepStaysInItsSession
    OBVIOUS
  <2> USE DEF LoopInv
  <2>1. StepTypeOK
    <3>1. /\ state \in {"READY", "RUNNING", "CLOSING", "TERMINATED"}
          /\ posted \in Sessions /\ started \in Sessions /\ started <= posted
          /\ joins \in 0 .. MaxJoins /\ seeding \in {"none", "command", "finish"}
          /\ Len(buffer) <= Capacity /\ accepted \in Nat /\ completed \in Nat
      BY DEF Typed, RunnerTyped, ModelTyped, Bounded
    <3>2. \A r \in Requests : request[r].at \in Messages /\ request[r].session \in Sessions
      BY DEF Typed, RunnerTyped
    <3>3. /\ appState \in Sessions /\ failedCalls \subseteq StepRequests
          /\ pending \in StepRequests \union {NoRequest} /\ lock \in {"free", "run", "inbound"}
          /\ inbound.at \in {"idle", "lock", "await"} /\ run.at \in Points
      BY DEF Typed, ModelTyped
    <3> QED BY <3>1, <3>2, <3>3 DEF StepTypeOK
  <2>2. run.at \in StepPoints => up
    BY DEF ModelInv, DownOK, StepPoints
  <2>3. run.at \in StepPoints => run.session = started /\ appState = started /\ started > 0
    BY <2>2 DEF ModelInv, AppOK
  <2>4. StepSeesItsSession
    <3>1. started \in Nat
      BY DEF Typed, ModelTyped, Sessions
    <3> QED BY <2>3, <3>1 DEF StepSeesItsSession
  <2>5. PassServesOneSession
    BY <2>2, <2>3 DEF PassServesOneSession, ModelInv, GateOK, StepPoints
  <2>6. StartingInputFirst
    BY <2>2, <2>3 DEF StartingInputFirst, SeedInv, SeedWaits, IsStarting
  <2>7. RequestStaysInItsSession
    BY <2>2, <2>3 DEF RequestStaysInItsSession, SeedInv, Asked, StepPoints
  <2> QED BY <2>1, <2>4, <2>5, <2>6, <2>7 DEF StepStaysInItsSession
<1> QED BY <1>1, LoopInvariant, PTL

\* A session that has taken its steps does not go on, whatever reports of it or
\* of an earlier session are still on their way (runner.py, _record_step).
THEOREM SessionsStop == Spec => []StopsAtItsSteps
<1>1. LoopInv => StopsAtItsSteps
  BY DEF LoopInv, StopInv
<1> QED BY <1>1, LoopInvariant, PTL

\* No command and no step request is answered twice, whichever of the runner,
\* the model thread and the report's callback answers it.
THEOREM AnsweredAtMostOnce == Spec => []AtMostOneAnswer
<1>1. LoopInv => AtMostOneAnswer
  BY DEF LoopInv, AnswerInv, InOnePlace, AtMostOneAnswer
<1> QED BY <1>1, LoopInvariant, PTL

===============================================================================
