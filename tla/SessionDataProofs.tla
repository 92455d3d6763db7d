---------------------------- MODULE SessionDataProofs ----------------------------
(***************************************************************************)
(* Proofs about StepStore, Uploads, Recorder and SessionJournal, for any   *)
(* number of sessions, steps, reports, messages, uploads, commands,        *)
(* recordings, chunks, moves, consumers and frames and any size of the     *)
(* queues and of the history.                                              *)
(***************************************************************************)
EXTENDS StepStore, Uploads, Recorder, SessionJournal, SequenceTheorems, TLAPS

-------------------------------------------------------------------------------
(* The inductive invariant.                                                *)

Messages == [of : Nat, id : Nat]
Steps    == [run : Nat, step : Nat, messages : Seq(Messages)]
Reports  == [kind : {"step", "failure"}, run : Nat, messages : Seq(Messages)]
Failures == [run : Nat, step : Nat, last : Nat, messages : Seq(Messages)]
WriterAt == {"none", "poll", "wait", "empty", "holding", "range", "done"}

StoreTypeOK ==
  /\ runs \in Nat /\ running \in BOOLEAN /\ numbered \in Nat /\ failedSteps \in BOOLEAN /\ modelAt \in Nat
  /\ held \in Seq(Messages) /\ hops \in Seq(Reports)
  /\ saveQueue \in Seq(Steps) /\ ranges \in Seq(Failures)
  /\ writer \in [at : WriterAt, left : Nat, todo : Seq(Steps)]
  /\ storeClosed \in BOOLEAN /\ abandonedSaves \in BOOLEAN
  /\ admitted \in Seq(Steps) /\ saves \in Seq(Steps)
  /\ sentMessages \in Nat

\* The steps of a session in one log come before its steps in another.
Rising(log)  == \A i, j \in DOMAIN log : i < j /\ log[i].run = log[j].run => log[i].step < log[j].step
Before(A, B) == \A i \in DOMAIN A, j \in DOMAIN B : A[i].run = B[j].run => A[i].step < B[j].step

Disjoint(A, B) == \A i \in DOMAIN A, j \in DOMAIN B : A[i].run # B[j].run
OneOfEach(log) == \A i, j \in DOMAIN log : log[i].run = log[j].run => i = j

\* While a failed range is saved, the queued steps of its session are those the
\* worker counted when it took the range.
Counted(queue, left, todo) ==
  \A k \in DOMAIN queue, a \in DOMAIN todo :
      queue[k].run = todo[a].run => k <= left /\ queue[k].step < todo[a].step

\* The steps on their way to disk stand in the order of their numbers.
StepsInLine ==
  /\ Rising(saves) /\ Rising(saveQueue) /\ Before(saves, saveQueue)
  /\ writer.at = "holding" => Before(writer.todo, saveQueue) /\ Len(writer.todo) = 1
  /\ writer.at = "range" => Counted(saveQueue, writer.left, writer.todo)
  /\ writer.at \in {"holding", "range"} => Rising(writer.todo) /\ Before(saves, writer.todo)
  /\ writer.at \in {"none", "poll", "wait", "empty"} => writer.todo = <<>>

\* A failed range ends its session: every other step of the session is below it,
\* and there is no other range of the session.
RangesAreLast ==
  /\ Before(saves, ranges) /\ Before(saveQueue, ranges)
  /\ writer.at = "holding" => Before(writer.todo, ranges)
  /\ writer.at = "range" => Disjoint(writer.todo, ranges)
  /\ OneOfEach(ranges)
  /\ \A i \in DOMAIN ranges : ranges[i].step <= ranges[i].last

\* The runner's numbers: what is admitted of the running session is numbered, and
\* nothing more is once it failed.
Within(log, r, n, f) == \A i \in DOMAIN log : log[i].run <= r /\ (log[i].run = r => f \/ log[i].step <= n)
Ended(log, r, f)     == \A i \in DOMAIN log : log[i].run <= r /\ (log[i].run = r => f)
StepsAreNumbered ==
  /\ Within(saves, runs, numbered, failedSteps) /\ Within(saveQueue, runs, numbered, failedSteps)
  /\ Ended(ranges, runs, failedSteps)
  /\ writer.at = "holding" => Within(writer.todo, runs, numbered, failedSteps)
  /\ writer.at = "range" => Ended(writer.todo, runs, failedSteps)
  /\ failedSteps => ~running

\* A worker ends for the store's close, with no range left or told to abandon.
WorkerEnds ==
  /\ abandonedSaves => storeClosed
  /\ writer.at = "done" => storeClosed /\ (abandonedSaves \/ (ranges = <<>> /\ writer.todo = <<>>))

\* Whatever is saved or waits to be was admitted.
Items(log) == {log[k] : k \in DOMAIN log}
SavedWereAdmitted ==
  /\ Items(saves) \cup Items(saveQueue) \cup Items(writer.todo) \subseteq Items(admitted)
  /\ \A i \in DOMAIN ranges : Items(RangeSteps(ranges[i])) \subseteq Items(admitted)

\* A message is in one place.
Plain(m)    == \A a, b \in DOMAIN m : m[a].id = m[b].id => a = b
UpTo(m, n)  == \A a \in DOMAIN m : m[a].id <= n
Apart(m, h) == \A a \in DOMAIN m, b \in DOMAIN h : m[a].id # h[b].id
Carried(log, n) ==
  \A i \in DOMAIN log : /\ Plain(log[i].messages) /\ UpTo(log[i].messages, n)
                        /\ \A j \in DOMAIN log : i # j => Apart(log[i].messages, log[j].messages)
Elsewhere(m, log) == \A i \in DOMAIN log : Apart(m, log[i].messages)
MessagesInOnePlace ==
  /\ Plain(held) /\ UpTo(held, sentMessages)
  /\ Carried(hops, sentMessages) /\ Carried(admitted, sentMessages)
  /\ Elsewhere(held, hops) /\ Elsewhere(held, admitted)
  /\ \A i \in DOMAIN hops : Elsewhere(hops[i].messages, admitted)

StoreInv ==
  /\ StoreTypeOK /\ StepsInLine /\ RangesAreLast /\ StepsAreNumbered /\ WorkerEnds
  /\ SavedWereAdmitted /\ MessagesInOnePlace

-------------------------------------------------------------------------------
(* Sequences.                                                              *)

LEMMA TailIs ==
  ASSUME NEW S, NEW s \in Seq(S), s # <<>>
  PROVE  /\ Tail(s) \in Seq(S) /\ Head(s) \in S
         /\ Head(s) = s[1] /\ 1 \in DOMAIN s /\ Len(Tail(s)) = Len(s) - 1
         /\ \A i \in DOMAIN Tail(s) : i \in Nat /\ i + 1 \in DOMAIN s /\ Tail(s)[i] = s[i + 1]
         /\ \A i \in DOMAIN s : i \in Nat /\ i >= 1
OBVIOUS

LEMMA AppendIs ==
  ASSUME NEW S, NEW s \in Seq(S), NEW e \in S
  PROVE  /\ Append(s, e) \in Seq(S) /\ Append(s, e) # <<>>
         /\ \A i \in DOMAIN s : i \in Nat /\ i < Len(s) + 1
         /\ \A i \in DOMAIN s : i \in DOMAIN Append(s, e) /\ Append(s, e)[i] = s[i]
         /\ Len(s) + 1 \in DOMAIN Append(s, e) /\ Append(s, e)[Len(s) + 1] = e
         /\ \A i \in DOMAIN Append(s, e) : \/ i \in DOMAIN s /\ Append(s, e)[i] = s[i]
                                           \/ i = Len(s) + 1 /\ Append(s, e)[i] = e
OBVIOUS

LEMMA JoinIs ==
  ASSUME NEW S, NEW s \in Seq(S), NEW t \in Seq(S)
  PROVE  /\ s \o t \in Seq(S)
         /\ \A i \in DOMAIN s : i \in Nat /\ i <= Len(s) /\ i \in DOMAIN (s \o t) /\ (s \o t)[i] = s[i]
         /\ \A i \in DOMAIN t : i \in Nat /\ i + Len(s) \in DOMAIN (s \o t) /\ (s \o t)[i + Len(s)] = t[i]
         /\ \A i \in DOMAIN (s \o t) : \/ i \in DOMAIN s /\ (s \o t)[i] = s[i]
                                       \/ /\ i - Len(s) \in DOMAIN t /\ i \in Nat /\ i > Len(s)
                                          /\ (s \o t)[i] = t[i - Len(s)]
OBVIOUS

LEMMA EmptyIs == \A S : <<>> \in Seq(S) /\ DOMAIN <<>> = {} /\ Len(<<>>) = 0
OBVIOUS

LEMMA OneIs ==
  ASSUME NEW S, NEW e \in S
  PROVE  <<e>> \in Seq(S) /\ DOMAIN <<e>> = {1} /\ <<e>>[1] = e /\ Len(<<e>>) = 1 /\ Head(<<e>>) = e
OBVIOUS

LEMMA StepIs ==
  ASSUME NEW log \in Seq(Steps), NEW i \in DOMAIN log
  PROVE  /\ log[i] \in Steps /\ log[i].run \in Nat /\ log[i].step \in Nat
         /\ log[i].messages \in Seq(Messages)
<1>1. log[i] \in Steps
  OBVIOUS
<1> QED BY <1>1 DEF Steps

LEMMA FailureIs ==
  ASSUME NEW log \in Seq(Failures), NEW i \in DOMAIN log
  PROVE  log[i] \in Failures /\ log[i].run \in Nat /\ log[i].step \in Nat /\ log[i].last \in Nat
<1>1. log[i] \in Failures
  OBVIOUS
<1> QED BY <1>1 DEF Failures

-------------------------------------------------------------------------------
(* Order.                                                                  *)

LEMMA RisingTail ==
  ASSUME NEW S, NEW s \in Seq(S), s # <<>>, Rising(s)
  PROVE  Rising(Tail(s)) /\ Rising(<<Head(s)>>) /\ Before(<<Head(s)>>, Tail(s))
<1>1. Rising(Tail(s))
  BY TailIs DEF Rising
<1>2. Rising(<<Head(s)>>)
  BY TailIs, OneIs DEF Rising
<1>3. Before(<<Head(s)>>, Tail(s))
  <2> SUFFICES ASSUME NEW j \in DOMAIN Tail(s), Head(s).run = Tail(s)[j].run
               PROVE  Head(s).step < Tail(s)[j].step
    BY TailIs, OneIs DEF Before
  <2>1. j + 1 \in DOMAIN s /\ Tail(s)[j] = s[j + 1] /\ 1 < j + 1 /\ j \in Nat
    <3>1. j \in Nat /\ j + 1 \in DOMAIN s /\ Tail(s)[j] = s[j + 1] /\ j >= 1
      BY TailIs
    <3> QED BY <3>1
  <2> QED BY <2>1, TailIs DEF Rising
<1> QED BY <1>1, <1>2, <1>3

LEMMA RisingAppend ==
  ASSUME NEW S, NEW s \in Seq(S), NEW e \in S, Rising(s), Before(s, <<e>>)
  PROVE  Rising(Append(s, e))
<1> SUFFICES ASSUME NEW i \in DOMAIN Append(s, e), NEW j \in DOMAIN Append(s, e), i < j,
                    Append(s, e)[i].run = Append(s, e)[j].run
             PROVE  Append(s, e)[i].step < Append(s, e)[j].step
  BY DEF Rising
<1>1. i \in DOMAIN s /\ Append(s, e)[i] = s[i]
  BY AppendIs
<1>2. CASE j \in DOMAIN s /\ Append(s, e)[j] = s[j]
  BY <1>1, <1>2 DEF Rising
<1>3. CASE Append(s, e)[j] = e
  BY <1>1, <1>3, OneIs DEF Before
<1> QED BY <1>2, <1>3, AppendIs

LEMMA BeforeParts ==
  ASSUME NEW S, NEW A \in Seq(S), NEW B, Before(A, B), A # <<>>
  PROVE  Before(Tail(A), B) /\ Before(<<Head(A)>>, B)
BY TailIs, OneIs DEF Before

LEMMA AfterParts ==
  ASSUME NEW S, NEW A, NEW B \in Seq(S), Before(A, B), B # <<>>
  PROVE  Before(A, Tail(B)) /\ Before(A, <<Head(B)>>)
<1>1. Before(A, <<Head(B)>>)
  BY TailIs, OneIs DEF Before
<1>2. Before(A, Tail(B))
  <2> SUFFICES ASSUME NEW i \in DOMAIN A, NEW j \in DOMAIN Tail(B), A[i].run = Tail(B)[j].run
               PROVE  A[i].step < Tail(B)[j].step
    BY DEF Before
  <2>1. j + 1 \in DOMAIN B /\ Tail(B)[j] = B[j + 1]
    BY TailIs
  <2> QED BY <2>1 DEF Before
<1> QED BY <1>1, <1>2

LEMMA BeforeAppend ==
  ASSUME NEW S, NEW A \in Seq(S), NEW e \in S, NEW B, Before(A, B), Before(<<e>>, B)
  PROVE  Before(Append(A, e), B)
BY AppendIs, OneIs DEF Before

LEMMA AfterAppend ==
  ASSUME NEW S, NEW A, NEW B \in Seq(S), NEW e \in S, Before(A, B), Before(A, <<e>>)
  PROVE  Before(A, Append(B, e))
BY AppendIs, OneIs DEF Before

LEMMA BeforeNothing == \A A : Before(A, <<>>) /\ Before(<<>>, A) /\ Rising(<<>>)
BY EmptyIs DEF Before, Rising

LEMMA ItemParts ==
  ASSUME NEW S, NEW s \in Seq(S)
  PROVE  /\ s # <<>> => Items(Tail(s)) \subseteq Items(s) /\ Head(s) \in Items(s)
         /\ \A e \in S : Items(Append(s, e)) = Items(s) \cup {e} /\ Items(<<e>>) = {e}
         /\ Items(<<>>) = {}
<1>1. s # <<>> => Items(Tail(s)) \subseteq Items(s) /\ Head(s) \in Items(s)
  BY TailIs DEF Items
<1>2. ASSUME NEW e \in S PROVE Items(Append(s, e)) = Items(s) \cup {e} /\ Items(<<e>>) = {e}
  <2>1. Items(Append(s, e)) \subseteq Items(s) \cup {e}
    BY AppendIs DEF Items
  <2>2. Items(s) \cup {e} \subseteq Items(Append(s, e))
    BY AppendIs DEF Items
  <2>3. Items(<<e>>) = {e}
    BY OneIs DEF Items
  <2> QED BY <2>1, <2>2, <2>3
<1>3. Items(<<>>) = {}
  BY EmptyIs DEF Items
<1> QED BY <1>1, <1>2, <1>3

LEMMA StepItems ==
  ASSUME NEW log \in Seq(Steps), NEW e \in Steps
  PROVE  Items(Append(log, e)) = Items(log) \cup {e}
<1>1. Items(Append(log, e)) \subseteq Items(log) \cup {e}
  BY AppendIs DEF Items
<1>2. Items(log) \cup {e} \subseteq Items(Append(log, e))
  BY AppendIs DEF Items
<1> QED BY <1>1, <1>2

LEMMA WithinParts ==
  ASSUME NEW S, NEW s \in Seq(S), NEW r, NEW n, NEW f
  PROVE  /\ s # <<>> /\ Within(s, r, n, f) => Within(Tail(s), r, n, f) /\ Within(<<Head(s)>>, r, n, f)
         /\ \A e \in S : Within(s, r, n, f) /\ Within(<<e>>, r, n, f) => Within(Append(s, e), r, n, f)
         /\ s # <<>> /\ Ended(s, r, f) => Ended(Tail(s), r, f) /\ Ended(<<Head(s)>>, r, f)
         /\ \A e \in S : Ended(s, r, f) /\ Ended(<<e>>, r, f) => Ended(Append(s, e), r, f)
         /\ Ended(s, r, f) => Within(s, r, n, f)
         /\ Ended(<<>>, r, f) /\ Within(<<>>, r, n, f)
<1>1. s # <<>> /\ Within(s, r, n, f) => Within(Tail(s), r, n, f) /\ Within(<<Head(s)>>, r, n, f)
  BY TailIs, OneIs DEF Within
<1>2. \A e \in S : Within(s, r, n, f) /\ Within(<<e>>, r, n, f) => Within(Append(s, e), r, n, f)
  BY AppendIs, OneIs DEF Within
<1>3. s # <<>> /\ Ended(s, r, f) => Ended(Tail(s), r, f) /\ Ended(<<Head(s)>>, r, f)
  BY TailIs, OneIs DEF Ended
<1>4. \A e \in S : Ended(s, r, f) /\ Ended(<<e>>, r, f) => Ended(Append(s, e), r, f)
  BY AppendIs, OneIs DEF Ended
<1>5. Ended(s, r, f) => Within(s, r, n, f)
  BY DEF Ended, Within
<1>6. Ended(<<>>, r, f) /\ Within(<<>>, r, n, f)
  BY EmptyIs DEF Ended, Within
<1> QED BY <1>1, <1>2, <1>3, <1>4, <1>5, <1>6

\* What the worker saves of a failed range.
LEMMA RangeIs ==
  ASSUME NEW r \in Failures, r.step <= r.last
  PROVE  /\ RangeSteps(r) \in Seq(Steps)
         /\ Rising(RangeSteps(r))
         /\ \A i \in DOMAIN RangeSteps(r) :
              /\ i \in Nat /\ i >= 1 /\ RangeSteps(r)[i].run = r.run /\ RangeSteps(r)[i].step >= r.step
              /\ RangeSteps(r)[i].messages = IF i = 1 THEN r.messages ELSE <<>>
<1> DEFINE n == r.last - r.step + 1
<1>1. n \in Nat /\ r.step \in Nat /\ r.run \in Nat /\ r.messages \in Seq(Messages) /\ <<>> \in Seq(Messages)
  BY EmptyIs DEF Failures
<1>2. RangeSteps(r) = [i \in 1..n |-> [run |-> r.run, step |-> r.step + i - 1,
                                       messages |-> IF i = 1 THEN r.messages ELSE <<>>]]
  BY DEF RangeSteps, Entry
<1> HIDE DEF n
<1>3. DOMAIN RangeSteps(r) = 1..n
  BY <1>2
<1>4. ASSUME NEW i \in 1..n
      PROVE  /\ RangeSteps(r)[i] = [run |-> r.run, step |-> r.step + i - 1,
                                    messages |-> IF i = 1 THEN r.messages ELSE <<>>]
             /\ RangeSteps(r)[i] \in Steps
             /\ i \in Nat /\ i >= 1 /\ RangeSteps(r)[i].run = r.run /\ RangeSteps(r)[i].step = r.step + i - 1
             /\ RangeSteps(r)[i].messages = IF i = 1 THEN r.messages ELSE <<>>
  <2>1. RangeSteps(r)[i] = [run |-> r.run, step |-> r.step + i - 1,
                            messages |-> IF i = 1 THEN r.messages ELSE <<>>]
    BY <1>2
  <2>2. i \in Nat /\ i >= 1 /\ r.step + i - 1 \in Nat
    BY <1>1
  <2>3. (IF i = 1 THEN r.messages ELSE <<>>) \in Seq(Messages)
    BY <1>1
  <2> QED BY <1>1, <2>1, <2>2, <2>3 DEF Steps
<1>5. RangeSteps(r) \in Seq(Steps)
  BY <1>1, <1>2, <1>3, <1>4
<1>6. Rising(RangeSteps(r))
  BY <1>1, <1>3, <1>4 DEF Rising
<1>7. \A i \in DOMAIN RangeSteps(r) : RangeSteps(r)[i].step >= r.step
  BY <1>1, <1>3, <1>4
<1> QED BY <1>3, <1>4, <1>5, <1>6, <1>7

-------------------------------------------------------------------------------
(* The types.                                                              *)

LEMMA StoreTypeInit == StoreInit => StoreTypeOK
<1> SUFFICES ASSUME StoreInit PROVE StoreTypeOK
  OBVIOUS
<1>1. <<>> \in Seq(Messages) /\ <<>> \in Seq(Reports) /\ <<>> \in Seq(Steps) /\ <<>> \in Seq(Failures)
  BY EmptyIs
<1>2. writer \in [at : WriterAt, left : Nat, todo : Seq(Steps)]
  BY <1>1 DEF StoreInit, WriterAt
<1> QED BY <1>1, <1>2 DEF StoreInit, StoreTypeOK

\* The model's thread and the session's start and stop.
LEMMA ModelTypes ==
  ASSUME StoreTypeOK,
         \/ BeginRun \/ StopRun \/ ModelReachesRun \/ BroadcastMessage \/ OnStepCompleted \/ OnHandlerFailure
         \/ CloseStore \/ AbandonSaves
  PROVE  StoreTypeOK'
<1> USE DEF runnerSide
<1>1. UNCHANGED <<saveQueue, ranges, writer, admitted, saves>>
  BY DEF BeginRun, StopRun, ModelReachesRun, BroadcastMessage, OnStepCompleted, OnHandlerFailure, CloseStore,
         AbandonSaves
<1>2. /\ runs' \in Nat /\ running' \in BOOLEAN /\ numbered' \in Nat /\ failedSteps' \in BOOLEAN
      /\ modelAt' \in Nat /\ storeClosed' \in BOOLEAN /\ abandonedSaves' \in BOOLEAN /\ sentMessages' \in Nat
  <2>1. runs' \in {runs, runs + 1} /\ numbered' \in {numbered, 0} /\ modelAt' \in {modelAt, modelAt + 1}
    BY DEF BeginRun, StopRun, ModelReachesRun, BroadcastMessage, OnStepCompleted, OnHandlerFailure,
           CloseStore, AbandonSaves
  <2>2. /\ running' \in {running, TRUE, FALSE} /\ failedSteps' \in {failedSteps, FALSE}
        /\ storeClosed' \in {storeClosed, TRUE} /\ abandonedSaves' \in {abandonedSaves, TRUE}
    BY DEF BeginRun, StopRun, ModelReachesRun, BroadcastMessage, OnStepCompleted, OnHandlerFailure,
           CloseStore, AbandonSaves
  <2>3. sentMessages' \in {sentMessages, sentMessages + 1}
    BY DEF BeginRun, StopRun, ModelReachesRun, BroadcastMessage, OnStepCompleted, OnHandlerFailure,
           CloseStore, AbandonSaves
  <2>4. /\ running' \in BOOLEAN /\ failedSteps' \in BOOLEAN
        /\ storeClosed' \in BOOLEAN /\ abandonedSaves' \in BOOLEAN
    BY <2>2, Zenon DEF StoreTypeOK
  <2> QED BY <2>1, <2>3, <2>4 DEF StoreTypeOK
<1>3. <<>> \in Seq(Messages) /\ held \in Seq(Messages) /\ hops \in Seq(Reports)
  BY EmptyIs DEF StoreTypeOK
<1>4. held' \in Seq(Messages)
  <2>1. CASE BroadcastMessage
    <3>1. [of |-> modelAt, id |-> sentMessages'] \in Messages
      BY <1>2 DEF StoreTypeOK, Messages
    <3>2. held' = Append(held, [of |-> modelAt, id |-> sentMessages'])
      BY <2>1 DEF BroadcastMessage
    <3> QED BY <1>3, <3>1, <3>2, AppendIs
  <2>2. CASE ~BroadcastMessage
    <3>1. held' \in {held, <<>>}
      BY <2>2 DEF BeginRun, StopRun, ModelReachesRun, OnStepCompleted, OnHandlerFailure, CloseStore, AbandonSaves
    <3> QED BY <1>3, <3>1
  <2> QED BY <2>1, <2>2
<1>5. hops' \in Seq(Reports)
  <2>1. CASE UNCHANGED hops
    BY <1>3, <2>1
  <2>2. CASE OnStepCompleted \/ OnHandlerFailure
    <3>1. PICK k \in {"step", "failure"}, m \in Seq(Messages) :
             hops' = Append(hops, [kind |-> k, run |-> modelAt, messages |-> m])
      BY <1>3, <2>2 DEF OnStepCompleted, OnHandlerFailure
    <3>2. [kind |-> k, run |-> modelAt, messages |-> m] \in Reports
      BY DEF StoreTypeOK, Reports
    <3> QED BY <1>3, <3>1, <3>2, AppendIs
  <2> QED BY <2>1, <2>2 DEF BeginRun, StopRun, ModelReachesRun, BroadcastMessage, CloseStore, AbandonSaves
<1> QED BY <1>1, <1>2, <1>4, <1>5 DEF StoreTypeOK

\* A report the loop runs, and what it admits.
LEMMA HopIs ==
  ASSUME StoreTypeOK, hops # <<>>
  PROVE  /\ Tail(hops) \in Seq(Reports) /\ Head(hops).run \in Nat /\ Head(hops).messages \in Seq(Messages)
         /\ Head(hops).messages = hops[1].messages /\ 1 \in DOMAIN hops
<1>1. Tail(hops) \in Seq(Reports) /\ Head(hops) \in Reports /\ Head(hops) = hops[1] /\ 1 \in DOMAIN hops
  BY TailIs DEF StoreTypeOK
<1> QED BY <1>1 DEF Reports

LEMMA EntryIs ==
  ASSUME NEW s \in Nat, NEW n \in Nat, NEW m \in Seq(Messages)
  PROVE  /\ Entry(s, n, m) \in Steps
         /\ Entry(s, n, m).run = s /\ Entry(s, n, m).step = n /\ Entry(s, n, m).messages = m
BY DEF Entry, Steps

LEMMA StartsWriterIs ==
  ASSUME StoreTypeOK, StartsWriter
  PROVE  /\ writer' \in [at : WriterAt, left : Nat, todo : Seq(Steps)]
         /\ writer'.left = writer.left /\ writer'.todo = writer.todo
         /\ writer'.at = writer.at \/ (writer.at = "none" /\ writer'.at = "poll")
BY DEF StoreTypeOK, StartsWriter, WriterAt

\* What RecordStep does.
LEMMA RecordStepIs ==
  ASSUME StoreTypeOK, RecordStep
  PROVE  /\ hops # <<>> /\ hops' = Tail(hops)
         /\ UNCHANGED <<runs, failedSteps, modelAt, held, ranges, storeClosed, abandonedSaves, saves,
                        sentMessages>>
         /\ \/ UNCHANGED <<numbered, running, writer, saveQueue, admitted>>
            \/ /\ ~failedSteps /\ numbered' = numbered + 1 /\ running' = (running /\ numbered' # StepCount)
               /\ \/ UNCHANGED writer \/ (StartsWriter /\ ~storeClosed)
               /\ UNCHANGED <<saveQueue, admitted>>
            \/ /\ ~failedSteps /\ numbered' = numbered + 1 /\ running' = (running /\ numbered' # StepCount)
               /\ StartsWriter /\ ~storeClosed
               /\ saveQueue' = Append(saveQueue, Entry(runs, numbered + 1, Head(hops).messages))
               /\ admitted' = Append(admitted, Entry(runs, numbered + 1, Head(hops).messages))
<1>1. CASE Head(hops).run # runs \/ failedSteps
  BY <1>1 DEF RecordStep
<1>2. CASE ~(Head(hops).run # runs \/ failedSteps)
  <2>1. /\ hops # <<>> /\ hops' = Tail(hops) /\ numbered' = numbered + 1
        /\ running' = (running /\ numbered' # StepCount)
        /\ Admit(runs, numbered + 1, Head(hops).messages)
        /\ UNCHANGED <<runs, failedSteps, modelAt, held, ranges, storeClosed, abandonedSaves, saves,
                       sentMessages>>
    BY <1>2 DEF RecordStep
  <2>2. CASE storeClosed
    BY <1>2, <2>1, <2>2 DEF Admit
  <2>3. CASE ~storeClosed /\ Len(saveQueue) >= SaveQueue
    BY <1>2, <2>1, <2>3 DEF Admit
  <2>4. CASE ~storeClosed /\ ~(Len(saveQueue) >= SaveQueue)
    BY <1>2, <2>1, <2>4 DEF Admit
  <2> QED BY <2>2, <2>3, <2>4
<1> QED BY <1>1, <1>2

\* What FailRemainingSteps does.
Failing == [run |-> runs, step |-> numbered + 1, last |-> StepCount, messages |-> Head(hops).messages \o held]

LEMMA FailIs ==
  ASSUME StoreTypeOK, FailRemainingSteps
  PROVE  /\ hops # <<>> /\ hops' = Tail(hops)
         /\ UNCHANGED <<runs, modelAt, saveQueue, storeClosed, abandonedSaves, saves, sentMessages>>
         /\ \/ UNCHANGED <<numbered, running, failedSteps, held, writer, ranges, admitted>>
            \/ /\ running /\ ~running' /\ failedSteps' = TRUE /\ held' = <<>> /\ numbered' \in Nat
               /\ UNCHANGED <<writer, ranges, admitted>>
            \/ /\ running /\ ~running' /\ failedSteps' = TRUE /\ held' = <<>> /\ numbered' \in Nat
               /\ StartsWriter /\ ~storeClosed /\ numbered + 1 <= StepCount
               /\ ranges' = Append(ranges, Failing)
               /\ admitted' = admitted \o RangeSteps(Failing)
<1>1. CASE Head(hops).run # runs \/ ~running
  BY <1>1 DEF FailRemainingSteps
<1>2. CASE ~(Head(hops).run # runs \/ ~running)
  <2>1. /\ hops # <<>> /\ hops' = Tail(hops) /\ failedSteps' = TRUE /\ held' = <<>>
        /\ AdmitFailed(runs, numbered + 1, StepCount, Head(hops).messages \o held)
        /\ numbered' = IF StepCount > numbered THEN StepCount ELSE numbered
        /\ running' = FALSE
        /\ UNCHANGED <<runs, modelAt, saveQueue, storeClosed, abandonedSaves, saves, sentMessages>>
    BY <1>2 DEF FailRemainingSteps
  <2>2. numbered \in Nat /\ StepCount \in Nat
    BY StoreAssumption DEF StoreTypeOK
  <2>3. numbered' \in Nat
    BY <2>1, <2>2
  <2>4. CASE StepCount < numbered + 1 \/ storeClosed
    <3>1. UNCHANGED <<writer, ranges, admitted>>
      BY <2>1, <2>4 DEF AdmitFailed
    <3> QED BY <1>2, <2>1, <2>3, <3>1
  <2>5. CASE ~(StepCount < numbered + 1 \/ storeClosed)
    <3>1. StartsWriter /\ ranges' = Append(ranges, Failing) /\ admitted' = admitted \o RangeSteps(Failing)
      BY <2>1, <2>5 DEF AdmitFailed, Failing
    <3>2. numbered + 1 <= StepCount
      BY <2>2, <2>5
    <3> QED BY <1>2, <2>1, <2>3, <2>5, <3>1, <3>2
  <2> QED BY <2>4, <2>5
<1> QED BY <1>1, <1>2

LEMMA FailingIs ==
  ASSUME StoreTypeOK, hops # <<>>, numbered + 1 <= StepCount
  PROVE  /\ Failing \in Failures /\ Failing.step <= Failing.last
         /\ Failing.run = runs /\ Failing.step = numbered + 1
         /\ Failing.messages = Head(hops).messages \o held
         /\ Failing.messages \in Seq(Messages)
         /\ RangeSteps(Failing) \in Seq(Steps)
<1>1. Head(hops).messages \o held \in Seq(Messages)
  BY HopIs, JoinIs DEF StoreTypeOK
<1>2. StepCount \in Nat /\ numbered + 1 \in Nat /\ runs \in Nat
  BY StoreAssumption DEF StoreTypeOK
<1>3. /\ Failing \in Failures /\ Failing.step <= Failing.last
      /\ Failing.run = runs /\ Failing.step = numbered + 1
      /\ Failing.messages = Head(hops).messages \o held
  BY <1>1, <1>2 DEF Failing, Failures
<1> QED BY <1>1, <1>3, RangeIs

LEMMA LoopTypes ==
  ASSUME StoreTypeOK, LoopStep
  PROVE  StoreTypeOK'
<1>1. CASE RecordStep
  <2>1. Tail(hops) \in Seq(Reports) /\ Head(hops).messages \in Seq(Messages) /\ hops # <<>>
    BY <1>1, RecordStepIs, HopIs
  <2>2. Entry(runs, numbered + 1, Head(hops).messages) \in Steps
    <3>1. runs \in Nat /\ numbered + 1 \in Nat
      BY DEF StoreTypeOK
    <3>2. PICK n, h : n = numbered + 1 /\ h = Head(hops).messages
      OBVIOUS
    <3>3. n \in Nat /\ h \in Seq(Messages)
      BY <2>1, <3>1, <3>2
    <3>4. Entry(runs, n, h) \in Steps
      BY <3>1, <3>3, EntryIs
    <3> QED BY <3>2, <3>4
  <2>3. /\ Append(saveQueue, Entry(runs, numbered + 1, Head(hops).messages)) \in Seq(Steps)
        /\ Append(admitted, Entry(runs, numbered + 1, Head(hops).messages)) \in Seq(Steps)
    BY <2>2, AppendIs DEF StoreTypeOK
  <2>4. saveQueue' \in Seq(Steps) /\ admitted' \in Seq(Steps)
    BY <1>1, <2>3, RecordStepIs DEF StoreTypeOK
  <2>5. writer' \in [at : WriterAt, left : Nat, todo : Seq(Steps)]
    BY <1>1, RecordStepIs, StartsWriterIs DEF StoreTypeOK
  <2>6. numbered' \in Nat /\ running' \in BOOLEAN
    BY <1>1, RecordStepIs DEF StoreTypeOK
  <2> QED BY <1>1, <2>1, <2>4, <2>5, <2>6, RecordStepIs DEF StoreTypeOK
<1>2. CASE FailRemainingSteps
  <2>1. Tail(hops) \in Seq(Reports) /\ hops # <<>>
    BY <1>2, FailIs, HopIs
  <2>2. numbered + 1 <= StepCount => Failing \in Failures /\ RangeSteps(Failing) \in Seq(Steps)
    BY <2>1, FailingIs
  <2>3. numbered + 1 <= StepCount => /\ Append(ranges, Failing) \in Seq(Failures)
                                     /\ admitted \o RangeSteps(Failing) \in Seq(Steps)
    BY <2>2, AppendIs, JoinIs DEF StoreTypeOK
  <2>4. ranges' \in Seq(Failures) /\ admitted' \in Seq(Steps)
    BY <1>2, <2>3, FailIs DEF StoreTypeOK
  <2>5. writer' \in [at : WriterAt, left : Nat, todo : Seq(Steps)]
    BY <1>2, FailIs, StartsWriterIs DEF StoreTypeOK
  <2>6. numbered' \in Nat /\ running' \in BOOLEAN /\ failedSteps' \in BOOLEAN /\ held' \in Seq(Messages)
    <3>1. running' \in BOOLEAN
      BY <1>2 DEF FailRemainingSteps, StoreTypeOK
    <3> QED BY <1>2, <3>1, FailIs, EmptyIs DEF StoreTypeOK
  <2> QED BY <1>2, <2>1, <2>4, <2>5, <2>6, FailIs DEF StoreTypeOK
<1> QED BY <1>1, <1>2 DEF LoopStep

LEMMA WriterFields ==
  ASSUME StoreTypeOK
  PROVE  writer.at \in WriterAt /\ writer.left \in Nat /\ writer.todo \in Seq(Steps)
BY DEF StoreTypeOK

\* The fields of the worker's record.
LEMMA WriterIs ==
  ASSUME StoreTypeOK
  PROVE  /\ writer.at \in WriterAt /\ writer.left \in Nat /\ writer.todo \in Seq(Steps)
         /\ \A v \in WriterAt :
              /\ [writer EXCEPT !.at = v] \in [at : WriterAt, left : Nat, todo : Seq(Steps)]
              /\ [writer EXCEPT !.at = v].at = v
              /\ [writer EXCEPT !.at = v].left = writer.left /\ [writer EXCEPT !.at = v].todo = writer.todo
         /\ \A v \in WriterAt, t \in Seq(Steps) :
              /\ [writer EXCEPT !.at = v, !.todo = t] \in [at : WriterAt, left : Nat, todo : Seq(Steps)]
              /\ [writer EXCEPT !.at = v, !.todo = t].at = v /\ [writer EXCEPT !.at = v, !.todo = t].todo = t
         /\ \A t \in Seq(Steps) :
              /\ [writer EXCEPT !.todo = t] \in [at : WriterAt, left : Nat, todo : Seq(Steps)]
              /\ [writer EXCEPT !.todo = t].at = writer.at /\ [writer EXCEPT !.todo = t].todo = t
              /\ [writer EXCEPT !.todo = t].left = writer.left
         /\ \A n \in Nat :
              /\ [writer EXCEPT !.left = n] \in [at : WriterAt, left : Nat, todo : Seq(Steps)]
              /\ [writer EXCEPT !.left = n].at = writer.at /\ [writer EXCEPT !.left = n].left = n
              /\ [writer EXCEPT !.left = n].todo = writer.todo
BY DEF StoreTypeOK

\* What the worker's steps do, one disjunct for each way they end.
Stands(v) == writer'.at = v /\ writer'.left = writer.left /\ writer'.todo = writer.todo
             /\ UNCHANGED <<saveQueue, ranges, saves>>
Saved(e) == saves' \in {saves, Append(saves, e)}

TurnsAside ==
  \/ writer.at \in {"poll", "holding"} /\ abandonedSaves /\ Stands("done")
  \/ writer.at = "range" /\ writer.left = 0 /\ writer.todo # <<>> /\ abandonedSaves /\ Stands("done")
  \/ writer.at = "poll" /\ Stands("wait")
  \/ writer.at = "wait" /\ Stands("empty")
  \/ writer.at = "empty" /\ storeClosed /\ ranges = <<>> /\ Stands("done")
  \/ writer.at = "empty" /\ Stands("poll")
  \/ writer.at = "range" /\ writer.todo = <<>> /\ Stands("poll")
TakesRange ==
  /\ writer.at = "poll" /\ ranges # <<>> /\ ranges' = Tail(ranges)
  /\ writer' = [at |-> "range", left |-> Len(saveQueue), todo |-> RangeSteps(Head(ranges))]
  /\ UNCHANGED <<saveQueue, saves>>
TakesEntry ==
  /\ writer.at = "wait" /\ saveQueue # <<>> /\ saveQueue' = Tail(saveQueue)
  /\ writer'.at = "holding" /\ writer'.todo = <<Head(saveQueue)>>
  /\ UNCHANGED <<ranges, saves>>
SavesHeld ==
  /\ writer.at = "holding" /\ Saved(Head(writer.todo))
  /\ writer'.at = "poll" /\ writer'.todo = <<>>
  /\ UNCHANGED <<saveQueue, ranges>>
QueueWasEmptied ==
  /\ writer.at = "range" /\ saveQueue = <<>>
  /\ writer'.at = "range" /\ writer'.left = 0 /\ writer'.todo = writer.todo
  /\ UNCHANGED <<saveQueue, ranges, saves>>
DropsQueued ==
  /\ writer.at = "range" /\ saveQueue # <<>> /\ abandonedSaves
  /\ saveQueue' = Tail(saveQueue)
  /\ writer'.at = "done" /\ writer'.todo = writer.todo
  /\ UNCHANGED <<ranges, saves>>
SavesQueued ==
  /\ writer.at = "range" /\ writer.left > 0 /\ saveQueue # <<>> /\ Saved(Head(saveQueue))
  /\ saveQueue' = Tail(saveQueue)
  /\ writer'.at = "range" /\ writer'.left = writer.left - 1 /\ writer'.todo = writer.todo
  /\ UNCHANGED ranges
SavesOfRange ==
  /\ writer.at = "range" /\ writer.left = 0 /\ writer.todo # <<>> /\ Saved(Head(writer.todo))
  /\ writer'.at = "range" /\ writer'.left = 0 /\ writer'.todo = Tail(writer.todo)
  /\ UNCHANGED <<saveQueue, ranges>>

\* A step that only moves the worker on.
LEMMA MovesTo ==
  ASSUME StoreTypeOK, NEW v \in WriterAt, writer' = [writer EXCEPT !.at = v], UNCHANGED <<saveQueue, ranges, saves>>
  PROVE  Stands(v) /\ writer' \in [at : WriterAt, left : Nat, todo : Seq(Steps)]
BY WriterIs DEF Stands

LEMMA WriterStepIs ==
  ASSUME StoreTypeOK, RangesAreLast, WriterStep
  PROVE  /\ UNCHANGED <<runnerSide, storeClosed, abandonedSaves, admitted>>
         /\ writer' \in [at : WriterAt, left : Nat, todo : Seq(Steps)]
         /\ \/ TurnsAside \/ TakesRange \/ TakesEntry \/ SavesHeld \/ QueueWasEmptied \/ DropsQueued
            \/ SavesQueued \/ SavesOfRange
<1>1. UNCHANGED <<runnerSide, storeClosed, abandonedSaves, admitted>>
  BY DEF WriterStep, WriterPolls, WriterTakes, WriterTimesOut, WriterChecksClosing, WriterSaves,
         WriterSavesQueued, WriterSavesFailed
<1>2. CASE WriterPolls
  <2>1. CASE abandonedSaves
    <3>1. writer.at = "poll" /\ writer' = [writer EXCEPT !.at = "done"] /\ UNCHANGED <<saveQueue, ranges, saves>>
      BY <1>2, <2>1 DEF WriterPolls
    <3>2. Stands("done") /\ writer' \in [at : WriterAt, left : Nat, todo : Seq(Steps)]
      BY <3>1, MovesTo DEF WriterAt
    <3> QED BY <1>1, <2>1, <3>1, <3>2 DEF TurnsAside
  <2>2. CASE ~abandonedSaves /\ ranges # <<>>
    <3>1. TakesRange
      BY <1>2, <2>2 DEF WriterPolls, TakesRange
    <3>2. 1 \in DOMAIN ranges /\ Head(ranges) \in Failures /\ Head(ranges).step <= Head(ranges).last
      BY <2>2, TailIs DEF RangesAreLast, StoreTypeOK
    <3>3. RangeSteps(Head(ranges)) \in Seq(Steps) /\ Len(saveQueue) \in Nat
      BY <3>2, RangeIs DEF StoreTypeOK
    <3>4. writer' \in [at : WriterAt, left : Nat, todo : Seq(Steps)]
      BY <3>1, <3>3 DEF TakesRange, WriterAt
    <3> QED BY <1>1, <3>1, <3>4
  <2>3. CASE ~abandonedSaves /\ ranges = <<>>
    <3>1. writer.at = "poll" /\ writer' = [writer EXCEPT !.at = "wait"] /\ UNCHANGED <<saveQueue, ranges, saves>>
      BY <1>2, <2>3 DEF WriterPolls
    <3>2. Stands("wait") /\ writer' \in [at : WriterAt, left : Nat, todo : Seq(Steps)]
      BY <3>1, MovesTo DEF WriterAt
    <3> QED BY <1>1, <3>1, <3>2 DEF TurnsAside
  <2> QED BY <2>1, <2>2, <2>3
<1>3. CASE WriterTakes
  <2>1. <<Head(saveQueue)>> \in Seq(Steps)
    BY <1>3, TailIs, OneIs DEF StoreTypeOK, WriterTakes
  <2>2. writer' = [writer EXCEPT !.at = "holding", !.todo = <<Head(saveQueue)>>]
    BY <1>3 DEF WriterTakes
  <2>3. /\ writer' \in [at : WriterAt, left : Nat, todo : Seq(Steps)]
        /\ writer'.at = "holding" /\ writer'.todo = <<Head(saveQueue)>>
    BY <2>1, <2>2, WriterIs DEF WriterAt
  <2>4. TakesEntry
    BY <1>3, <2>3 DEF WriterTakes, TakesEntry
  <2> QED BY <1>1, <2>3, <2>4
<1>4. CASE WriterTimesOut
  <2>1. writer.at = "wait" /\ writer' = [writer EXCEPT !.at = "empty"] /\ UNCHANGED <<saveQueue, ranges, saves>>
    BY <1>4 DEF WriterTimesOut
  <2>2. Stands("empty") /\ writer' \in [at : WriterAt, left : Nat, todo : Seq(Steps)]
    BY <2>1, MovesTo DEF WriterAt
  <2> QED BY <1>1, <2>1, <2>2 DEF TurnsAside
<1>5. CASE WriterChecksClosing
  <2>1. writer.at = "empty" /\ UNCHANGED <<saveQueue, ranges, saves>>
    BY <1>5 DEF WriterChecksClosing
  <2>2. CASE storeClosed /\ ranges = <<>>
    <3>1. writer' = [writer EXCEPT !.at = "done"]
      BY <1>5, <2>2 DEF WriterChecksClosing
    <3>2. Stands("done") /\ writer' \in [at : WriterAt, left : Nat, todo : Seq(Steps)]
      BY <2>1, <3>1, MovesTo DEF WriterAt
    <3> QED BY <1>1, <2>1, <2>2, <3>2 DEF TurnsAside
  <2>3. CASE ~(storeClosed /\ ranges = <<>>)
    <3>1. writer' = [writer EXCEPT !.at = "poll"]
      BY <1>5, <2>3 DEF WriterChecksClosing
    <3>2. Stands("poll") /\ writer' \in [at : WriterAt, left : Nat, todo : Seq(Steps)]
      BY <2>1, <3>1, MovesTo DEF WriterAt
    <3> QED BY <1>1, <2>1, <3>2 DEF TurnsAside
  <2> QED BY <2>2, <2>3
<1>6. CASE WriterSaves
  <2>1. CASE abandonedSaves
    <3>1. writer.at = "holding" /\ writer' = [writer EXCEPT !.at = "done"] /\ UNCHANGED <<saveQueue, ranges, saves>>
      BY <1>6, <2>1 DEF WriterSaves
    <3>2. Stands("done") /\ writer' \in [at : WriterAt, left : Nat, todo : Seq(Steps)]
      BY <3>1, MovesTo DEF WriterAt
    <3> QED BY <1>1, <2>1, <3>1, <3>2 DEF TurnsAside
  <2>2. CASE ~abandonedSaves
    <3>1. <<>> \in Seq(Steps)
      BY EmptyIs
    <3>2. Saved(Head(writer.todo))
      BY <1>6, <2>2 DEF WriterSaves, SaveStep, Saved
    <3>3. writer' = [writer EXCEPT !.at = "poll", !.todo = <<>>]
      BY <1>6, <2>2 DEF WriterSaves
    <3>4. /\ writer' \in [at : WriterAt, left : Nat, todo : Seq(Steps)]
          /\ writer'.at = "poll" /\ writer'.todo = <<>>
      BY <3>1, <3>3, WriterIs DEF WriterAt
    <3>5. SavesHeld
      BY <1>6, <3>2, <3>4 DEF WriterSaves, SavesHeld
    <3> QED BY <1>1, <3>4, <3>5
  <2> QED BY <2>1, <2>2
<1>7. CASE WriterSavesQueued
  <2>0. writer.at = "range" /\ writer.left > 0 /\ UNCHANGED ranges
    BY <1>7 DEF WriterSavesQueued
  <2>1. CASE saveQueue = <<>>
    <3>1. writer' = [writer EXCEPT !.left = 0] /\ UNCHANGED <<saveQueue, saves>>
      BY <1>7, <2>1 DEF WriterSavesQueued
    <3>2. /\ writer' \in [at : WriterAt, left : Nat, todo : Seq(Steps)]
          /\ writer'.at = writer.at /\ writer'.left = 0 /\ writer'.todo = writer.todo
      BY <3>1, WriterIs
    <3>3. QueueWasEmptied
      BY <2>0, <2>1, <3>1, <3>2 DEF QueueWasEmptied
    <3> QED BY <1>1, <3>2, <3>3
  <2>2. CASE saveQueue # <<>> /\ abandonedSaves
    <3>1. writer' = [writer EXCEPT !.at = "done"] /\ saveQueue' = Tail(saveQueue) /\ UNCHANGED saves
      BY <1>7, <2>2 DEF WriterSavesQueued
    <3>2. /\ writer' \in [at : WriterAt, left : Nat, todo : Seq(Steps)]
          /\ writer'.at = "done" /\ writer'.todo = writer.todo
      BY <3>1, WriterIs DEF WriterAt
    <3>3. DropsQueued
      BY <2>0, <2>2, <3>1, <3>2 DEF DropsQueued
    <3> QED BY <1>1, <3>2, <3>3
  <2>3. CASE saveQueue # <<>> /\ ~abandonedSaves
    <3>1. Saved(Head(saveQueue)) /\ saveQueue' = Tail(saveQueue)
      BY <1>7, <2>3 DEF WriterSavesQueued, SaveStep, Saved
    <3>2. writer.left - 1 \in Nat
      BY <2>0, WriterFields
    <3>3. writer' = [writer EXCEPT !.left = writer.left - 1]
      BY <1>7, <2>3 DEF WriterSavesQueued
    <3>4. /\ writer' \in [at : WriterAt, left : Nat, todo : Seq(Steps)]
          /\ writer'.at = writer.at /\ writer'.left = writer.left - 1 /\ writer'.todo = writer.todo
      BY <3>2, <3>3, WriterIs
    <3>5. SavesQueued
      BY <2>0, <2>3, <3>1, <3>4 DEF SavesQueued
    <3> QED BY <1>1, <3>4, <3>5
  <2> QED BY <2>1, <2>2, <2>3
<1>8. CASE WriterSavesFailed
  <2>0. writer.at = "range" /\ writer.left = 0 /\ UNCHANGED <<saveQueue, ranges>>
    BY <1>8 DEF WriterSavesFailed
  <2>1. CASE writer.todo = <<>>
    <3>1. writer' = [writer EXCEPT !.at = "poll"] /\ UNCHANGED saves
      BY <1>8, <2>1 DEF WriterSavesFailed
    <3>2. Stands("poll") /\ writer' \in [at : WriterAt, left : Nat, todo : Seq(Steps)]
      BY <2>0, <3>1, MovesTo DEF WriterAt
    <3> QED BY <1>1, <2>0, <2>1, <3>2 DEF TurnsAside
  <2>2. CASE writer.todo # <<>> /\ abandonedSaves
    <3>1. writer' = [writer EXCEPT !.at = "done"] /\ UNCHANGED saves
      BY <1>8, <2>2 DEF WriterSavesFailed
    <3>2. Stands("done") /\ writer' \in [at : WriterAt, left : Nat, todo : Seq(Steps)]
      BY <2>0, <3>1, MovesTo DEF WriterAt
    <3> QED BY <1>1, <2>0, <2>2, <3>2 DEF TurnsAside
  <2>3. CASE writer.todo # <<>> /\ ~abandonedSaves
    <3>1. Saved(Head(writer.todo))
      BY <1>8, <2>3 DEF WriterSavesFailed, SaveStep, Saved
    <3>2. Tail(writer.todo) \in Seq(Steps)
      BY <2>3, WriterIs, TailIs
    <3>3. writer' = [writer EXCEPT !.todo = Tail(writer.todo)]
      BY <1>8, <2>3 DEF WriterSavesFailed
    <3>4. /\ writer' \in [at : WriterAt, left : Nat, todo : Seq(Steps)]
          /\ writer'.at = writer.at /\ writer'.left = writer.left /\ writer'.todo = Tail(writer.todo)
      BY <3>2, <3>3, WriterIs
    <3>5. SavesOfRange
      BY <2>0, <2>3, <3>1, <3>4 DEF SavesOfRange
    <3> QED BY <1>1, <3>4, <3>5
  <2> QED BY <2>1, <2>2, <2>3
<1> QED BY <1>2, <1>3, <1>4, <1>5, <1>6, <1>7, <1>8 DEF WriterStep

LEMMA SavedIs ==
  ASSUME StoreTypeOK, NEW e \in Steps, Saved(e)
  PROVE  saves' \in Seq(Steps)
<1>1. saves \in Seq(Steps) /\ Append(saves, e) \in Seq(Steps)
  BY AppendIs DEF StoreTypeOK
<1> QED BY <1>1 DEF Saved

LEMMA WriterTypes ==
  ASSUME StoreTypeOK, RangesAreLast, StepsInLine, WriterStep
  PROVE  StoreTypeOK'
<1>1. UNCHANGED <<runnerSide, storeClosed, abandonedSaves, admitted>>
  BY WriterStepIs
<1>2. writer' \in [at : WriterAt, left : Nat, todo : Seq(Steps)]
  BY WriterStepIs
<1>3. saveQueue' = saveQueue \/ (saveQueue # <<>> /\ saveQueue' = Tail(saveQueue))
  BY WriterStepIs
     DEF TurnsAside, TakesRange, TakesEntry, SavesHeld, QueueWasEmptied, DropsQueued, SavesQueued,
         SavesOfRange, Stands
<1>4. saveQueue' \in Seq(Steps)
  <2>1. saveQueue \in Seq(Steps)
    BY DEF StoreTypeOK
  <2>2. saveQueue # <<>> => Tail(saveQueue) \in Seq(Steps)
    BY <2>1, TailIs
  <2> QED BY <1>3, <2>1, <2>2
<1>5. ranges' = ranges \/ (ranges # <<>> /\ ranges' = Tail(ranges))
  BY WriterStepIs
     DEF TurnsAside, TakesRange, TakesEntry, SavesHeld, QueueWasEmptied, DropsQueued, SavesQueued,
         SavesOfRange, Stands
<1>6. ranges' \in Seq(Failures)
  BY <1>5, TailIs DEF StoreTypeOK
<1>7. \/ saves' = saves
      \/ writer.todo # <<>> /\ Saved(Head(writer.todo))
      \/ saveQueue # <<>> /\ Saved(Head(saveQueue))
  <2>1. writer.at = "holding" => writer.todo # <<>>
    <3>1. Len(<<>>) = 0
      BY EmptyIs
    <3> QED BY <3>1 DEF StepsInLine
  <2> QED BY <2>1, WriterStepIs
     DEF TurnsAside, TakesRange, TakesEntry, SavesHeld, QueueWasEmptied, DropsQueued, SavesQueued,
         SavesOfRange, Stands
<1>8. saves' \in Seq(Steps)
  <2>1. writer.todo # <<>> => Head(writer.todo) \in Steps
    BY TailIs, WriterIs
  <2>2. saveQueue # <<>> => Head(saveQueue) \in Steps
    BY TailIs DEF StoreTypeOK
  <2> QED BY <1>7, <2>1, <2>2, SavedIs DEF StoreTypeOK
<1> QED BY <1>1, <1>2, <1>4, <1>6, <1>8 DEF StoreTypeOK, runnerSide

-------------------------------------------------------------------------------
(* The steps on their way to disk.                                         *)

StoreLine == StepsInLine /\ RangesAreLast /\ StepsAreNumbered /\ WorkerEnds /\ SavedWereAdmitted

LEMMA StoreLineInit == StoreInit => StoreLine
<1> SUFFICES ASSUME StoreInit PROVE StoreLine
  OBVIOUS
<1>1. /\ saves = <<>> /\ saveQueue = <<>> /\ ranges = <<>> /\ writer.at = "none" /\ writer.todo = <<>>
      /\ failedSteps = FALSE /\ abandonedSaves = FALSE
  BY DEF StoreInit
<1>2. DOMAIN <<>> = {}
  BY EmptyIs
<1>3. StepsInLine
  BY <1>1, BeforeNothing DEF StepsInLine
<1>4. RangesAreLast
  BY <1>1, <1>2, BeforeNothing DEF RangesAreLast, OneOfEach
<1>5. StepsAreNumbered
  BY <1>1, <1>2 DEF StepsAreNumbered, Within, Ended
<1>6. WorkerEnds
  BY <1>1 DEF WorkerEnds
<1>7. SavedWereAdmitted
  BY <1>1, <1>2 DEF SavedWereAdmitted, Items
<1> QED BY <1>3, <1>4, <1>5, <1>6, <1>7 DEF StoreLine

\* The model's thread, a stop, a close and its deadline leave the line alone.
LEMMA ModelKeepsLine ==
  ASSUME StoreTypeOK, StoreLine,
         \/ StopRun \/ ModelReachesRun \/ BroadcastMessage \/ OnStepCompleted \/ OnHandlerFailure
         \/ CloseStore \/ AbandonSaves
  PROVE  StoreLine'
<1> USE DEF runnerSide
<1>1. UNCHANGED <<runs, numbered, failedSteps, saveQueue, ranges, writer, saves, admitted>>
  BY DEF StopRun, ModelReachesRun, BroadcastMessage, OnStepCompleted, OnHandlerFailure, CloseStore, AbandonSaves
<1>2. failedSteps' => ~running'
  BY DEF StoreLine, StepsAreNumbered, StopRun, ModelReachesRun, BroadcastMessage, OnStepCompleted,
         OnHandlerFailure, CloseStore, AbandonSaves
<1>3. WorkerEnds'
  BY DEF StoreLine, WorkerEnds, StopRun, ModelReachesRun, BroadcastMessage, OnStepCompleted,
         OnHandlerFailure, CloseStore, AbandonSaves
<1>4. StepsInLine' /\ RangesAreLast' /\ SavedWereAdmitted'
  BY <1>1 DEF StoreLine, StepsInLine, RangesAreLast, SavedWereAdmitted
<1>5. StepsAreNumbered'
  BY <1>1, <1>2 DEF StoreLine, StepsAreNumbered
<1> QED BY <1>3, <1>4, <1>5 DEF StoreLine

\* A session's start: everything there is belongs to an earlier one.
LEMMA BeginKeepsLine ==
  ASSUME StoreTypeOK, StoreLine, BeginRun
  PROVE  StoreLine'
<1>1. /\ UNCHANGED <<saveQueue, ranges, writer, saves, admitted, storeClosed, abandonedSaves>>
      /\ runs' = runs + 1 /\ numbered' = 0 /\ failedSteps' = FALSE
  BY DEF BeginRun
<1>2. \A log \in Seq(Steps) : Within(log, runs, numbered, failedSteps) => Within(log, runs + 1, 0, FALSE)
  <2> SUFFICES ASSUME NEW log \in Seq(Steps), Within(log, runs, numbered, failedSteps), NEW i \in DOMAIN log
               PROVE  log[i].run <= runs + 1 /\ log[i].run # runs + 1
    BY DEF Within
  <2>1. log[i].run \in Nat /\ runs \in Nat
    BY StepIs DEF StoreTypeOK
  <2> QED BY <2>1 DEF Within
<1>3. \A log \in Seq(Steps) : Ended(log, runs, failedSteps) => Ended(log, runs + 1, FALSE)
  <2> SUFFICES ASSUME NEW log \in Seq(Steps), Ended(log, runs, failedSteps), NEW i \in DOMAIN log
               PROVE  log[i].run <= runs + 1 /\ log[i].run # runs + 1
    BY DEF Ended
  <2>1. log[i].run \in Nat /\ runs \in Nat
    BY StepIs DEF StoreTypeOK
  <2> QED BY <2>1 DEF Ended
<1>4. Ended(ranges, runs, failedSteps) => Ended(ranges, runs + 1, FALSE)
  <2> SUFFICES ASSUME Ended(ranges, runs, failedSteps), NEW i \in DOMAIN ranges
               PROVE  ranges[i].run <= runs + 1 /\ ranges[i].run # runs + 1
    BY DEF Ended
  <2>1. ranges[i].run \in Nat /\ runs \in Nat
    BY FailureIs DEF StoreTypeOK
  <2> QED BY <2>1 DEF Ended
<1>5. saves \in Seq(Steps) /\ saveQueue \in Seq(Steps) /\ writer.todo \in Seq(Steps)
  BY WriterFields DEF StoreTypeOK
<1>6. StepsInLine' /\ RangesAreLast' /\ SavedWereAdmitted' /\ WorkerEnds'
  BY <1>1 DEF StoreLine, StepsInLine, RangesAreLast, SavedWereAdmitted, WorkerEnds
<1>7. StepsAreNumbered'
  BY <1>1, <1>2, <1>3, <1>4, <1>5 DEF StoreLine, StepsAreNumbered
<1> QED BY <1>6, <1>7 DEF StoreLine

\* An entry saved, or lost to a fault.
LEMMA SaveKeeps ==
  ASSUME StoreTypeOK, NEW e \in Steps, Saved(e), Rising(saves), Before(saves, <<e>>)
  PROVE  /\ Rising(saves')
         /\ \A B : Before(saves, B) /\ Before(<<e>>, B) => Before(saves', B)
         /\ \A r, n, f : Within(saves, r, n, f) /\ Within(<<e>>, r, n, f) => Within(saves', r, n, f)
         /\ Items(saves') \subseteq Items(saves) \cup {e}
<1>1. saves \in Seq(Steps)
  BY DEF StoreTypeOK
<1>2. CASE saves' = saves
  BY <1>2
<1>3. CASE saves' = Append(saves, e)
  <2>1. Rising(saves')
    BY <1>1, <1>3, RisingAppend
  <2>2. \A B : Before(saves, B) /\ Before(<<e>>, B) => Before(saves', B)
    BY <1>1, <1>3, BeforeAppend
  <2>3. \A r, n, f : Within(saves, r, n, f) /\ Within(<<e>>, r, n, f) => Within(saves', r, n, f)
    BY <1>1, <1>3, WithinParts
  <2>4. Items(saves') \subseteq Items(saves) \cup {e}
    BY <1>1, <1>3, ItemParts
  <2> QED BY <2>1, <2>2, <2>3, <2>4
<1> QED BY <1>2, <1>3 DEF Saved

\* The worker moves on without taking or saving anything.
LEMMA AsideKeepsLine ==
  ASSUME StoreTypeOK, StoreLine, UNCHANGED <<runnerSide, storeClosed, abandonedSaves, admitted>>,
         TurnsAside \/ QueueWasEmptied
  PROVE  StoreLine'
<1>1. UNCHANGED <<runs, running, numbered, failedSteps, saveQueue, ranges, saves, admitted, storeClosed,
                  abandonedSaves>> /\ writer'.todo = writer.todo
  BY DEF runnerSide, TurnsAside, QueueWasEmptied, Stands
<1>2. \/ writer'.at = "done" /\ storeClosed /\ (abandonedSaves \/ (ranges = <<>> /\ writer.at = "empty"))
      \/ writer'.at \in {"poll", "wait", "empty"}
            /\ (writer.at \in {"poll", "wait", "empty"} \/ (writer.at = "range" /\ writer.todo = <<>>))
      \/ writer.at = "range" /\ writer'.at = "range" /\ writer'.left = 0 /\ saveQueue = <<>>
  BY DEF TurnsAside, QueueWasEmptied, Stands, StoreLine, WorkerEnds
<1>3. StepsInLine'
  <2>1. CASE writer'.at # "range"
    BY <1>1, <1>2, <2>1 DEF StoreLine, StepsInLine
  <2>2. CASE writer'.at = "range"
    <3>1. writer.at = "range" /\ Counted(saveQueue, 0, writer.todo)
      BY <1>2, <2>2, EmptyIs DEF Counted
    <3> QED BY <1>1, <1>2, <2>2, <3>1 DEF StoreLine, StepsInLine
  <2> QED BY <2>1, <2>2
<1>4. RangesAreLast'
  BY <1>1, <1>2 DEF StoreLine, RangesAreLast
<1>5. StepsAreNumbered'
  BY <1>1, <1>2 DEF StoreLine, StepsAreNumbered
<1>6. WorkerEnds'
  BY <1>1, <1>2 DEF StoreLine, WorkerEnds, StepsInLine
<1>7. SavedWereAdmitted'
  BY <1>1 DEF StoreLine, SavedWereAdmitted
<1> QED BY <1>3, <1>4, <1>5, <1>6, <1>7 DEF StoreLine

\* The worker takes a failed range, after the entries queued by then.
LEMMA TakesRangeKeepsLine ==
  ASSUME StoreTypeOK, StoreLine, UNCHANGED <<runnerSide, storeClosed, abandonedSaves, admitted>>, TakesRange
  PROVE  StoreLine'
<1>1. /\ UNCHANGED <<runs, running, numbered, failedSteps, saveQueue, saves, admitted, storeClosed, abandonedSaves>>
      /\ ranges # <<>> /\ ranges' = Tail(ranges) /\ writer.at = "poll"
      /\ writer'.at = "range" /\ writer'.left = Len(saveQueue) /\ writer'.todo = RangeSteps(Head(ranges))
  BY DEF runnerSide, TakesRange
<1> DEFINE r == Head(ranges)
           T == RangeSteps(r)
<1>2. /\ 1 \in DOMAIN ranges /\ r = ranges[1] /\ r \in Failures /\ ranges \in Seq(Failures)
      /\ saves \in Seq(Steps) /\ saveQueue \in Seq(Steps)
  BY <1>1, TailIs DEF StoreTypeOK
<1>3. r.step <= r.last /\ r.step \in Nat /\ r.run <= runs /\ (r.run = runs => failedSteps)
  BY <1>2, FailureIs DEF StoreLine, RangesAreLast, StepsAreNumbered, Ended
<1>4. /\ T \in Seq(Steps) /\ Rising(T)
      /\ \A i \in DOMAIN T : T[i].run = r.run /\ T[i].step >= r.step /\ T[i].step \in Nat
  BY <1>2, <1>3, RangeIs, StepIs
<1>5. \A j \in DOMAIN Tail(ranges) : j \in Nat /\ j + 1 \in DOMAIN ranges /\ Tail(ranges)[j] = ranges[j + 1] /\ j >= 1
  BY <1>1, <1>2, TailIs
<1> HIDE DEF T, r
<1>6. \A A \in Seq(Steps) : Before(A, ranges) => Before(A, T)
  <2> SUFFICES ASSUME NEW A \in Seq(Steps), Before(A, ranges), NEW i \in DOMAIN A, NEW j \in DOMAIN T,
                      A[i].run = T[j].run
               PROVE  A[i].step < T[j].step
    BY DEF Before
  <2>1. A[i].step < r.step
    BY <1>2, <1>4 DEF Before
  <2>2. A[i].step \in Nat
    BY StepIs
  <2> QED BY <1>3, <1>4, <2>1, <2>2
<1>7. \A A \in Seq(Steps) : Before(A, ranges) => Before(A, Tail(ranges))
  BY <1>1, <1>2, AfterParts
<1>8. Before(saves, T) /\ Before(saveQueue, T) /\ Before(saves, Tail(ranges)) /\ Before(saveQueue, Tail(ranges))
  BY <1>2, <1>6, <1>7 DEF StoreLine, RangesAreLast
<1>9. Counted(saveQueue, Len(saveQueue), T)
  <2>1. \A k \in DOMAIN saveQueue : k <= Len(saveQueue)
    BY <1>2
  <2> QED BY <1>8, <2>1 DEF Counted, Before
<1>10. StepsInLine'
  BY <1>1, <1>4, <1>8, <1>9 DEF StoreLine, StepsInLine, T, r
<1>11. RangesAreLast'
  <2>1. Disjoint(T, Tail(ranges))
    <3> SUFFICES ASSUME NEW i \in DOMAIN T, NEW j \in DOMAIN Tail(ranges), T[i].run = Tail(ranges)[j].run
                 PROVE  FALSE
      BY DEF Disjoint
    <3>1. ranges[1].run = ranges[j + 1].run
      BY <1>2, <1>4, <1>5
    <3>2. 1 = j + 1
      BY <1>2, <1>5, <3>1 DEF StoreLine, RangesAreLast, OneOfEach
    <3> QED BY <1>5, <3>2
  <2>2. OneOfEach(Tail(ranges))
    <3> SUFFICES ASSUME NEW i \in DOMAIN Tail(ranges), NEW j \in DOMAIN Tail(ranges),
                        Tail(ranges)[i].run = Tail(ranges)[j].run
                 PROVE  i = j
      BY DEF OneOfEach
    <3>1. i + 1 = j + 1
      BY <1>5 DEF StoreLine, RangesAreLast, OneOfEach
    <3> QED BY <1>5, <3>1
  <2>3. \A j \in DOMAIN Tail(ranges) : Tail(ranges)[j].step <= Tail(ranges)[j].last
    BY <1>5 DEF StoreLine, RangesAreLast
  <2> QED BY <1>1, <1>8, <2>1, <2>2, <2>3 DEF StoreLine, RangesAreLast, T, r
<1>12. StepsAreNumbered'
  <2>1. Ended(T, runs, failedSteps)
    BY <1>3, <1>4 DEF Ended
  <2>2. Ended(Tail(ranges), runs, failedSteps)
    BY <1>1, <1>2, WithinParts DEF StoreLine, StepsAreNumbered
  <2> QED BY <1>1, <2>1, <2>2 DEF StoreLine, StepsAreNumbered, T, r
<1>13. WorkerEnds'
  BY <1>1 DEF StoreLine, WorkerEnds
<1>14. SavedWereAdmitted'
  <2>1. Items(T) \subseteq Items(admitted)
    BY <1>2 DEF StoreLine, SavedWereAdmitted, T
  <2>2. \A j \in DOMAIN Tail(ranges) : Items(RangeSteps(Tail(ranges)[j])) \subseteq Items(admitted)
    BY <1>5 DEF StoreLine, SavedWereAdmitted
  <2> QED BY <1>1, <2>1, <2>2 DEF StoreLine, SavedWereAdmitted, T, r
<1> QED BY <1>10, <1>11, <1>12, <1>13, <1>14 DEF StoreLine

\* It takes the first entry of the queue.
LEMMA TakesEntryKeepsLine ==
  ASSUME StoreTypeOK, StoreLine, UNCHANGED <<runnerSide, storeClosed, abandonedSaves, admitted>>, TakesEntry
  PROVE  StoreLine'
<1>1. /\ UNCHANGED <<runs, running, numbered, failedSteps, ranges, saves, admitted, storeClosed, abandonedSaves>>
      /\ saveQueue # <<>> /\ saveQueue' = Tail(saveQueue)
      /\ writer'.at = "holding" /\ writer'.todo = <<Head(saveQueue)>>
  BY DEF runnerSide, TakesEntry
<1>2. saves \in Seq(Steps) /\ saveQueue \in Seq(Steps) /\ Head(saveQueue) \in Steps
  BY <1>1, TailIs DEF StoreTypeOK
<1>3. StepsInLine'
  <2>1. Rising(Tail(saveQueue)) /\ Rising(<<Head(saveQueue)>>) /\ Before(<<Head(saveQueue)>>, Tail(saveQueue))
    BY <1>1, <1>2, RisingTail DEF StoreLine, StepsInLine
  <2>2. Before(saves, Tail(saveQueue)) /\ Before(saves, <<Head(saveQueue)>>)
    BY <1>1, <1>2, AfterParts DEF StoreLine, StepsInLine
  <2>3. Len(<<Head(saveQueue)>>) = 1
    BY <1>2, OneIs
  <2> QED BY <1>1, <2>1, <2>2, <2>3 DEF StoreLine, StepsInLine
<1>4. RangesAreLast'
  <2>1. Before(Tail(saveQueue), ranges) /\ Before(<<Head(saveQueue)>>, ranges)
    BY <1>1, <1>2, BeforeParts DEF StoreLine, RangesAreLast
  <2> QED BY <1>1, <2>1 DEF StoreLine, RangesAreLast
<1>5. StepsAreNumbered'
  <2>1. /\ Within(Tail(saveQueue), runs, numbered, failedSteps)
        /\ Within(<<Head(saveQueue)>>, runs, numbered, failedSteps)
    BY <1>1, <1>2, WithinParts DEF StoreLine, StepsAreNumbered
  <2> QED BY <1>1, <2>1 DEF StoreLine, StepsAreNumbered
<1>6. WorkerEnds'
  BY <1>1 DEF StoreLine, WorkerEnds
<1>7. SavedWereAdmitted'
  <2>1. Items(Tail(saveQueue)) \subseteq Items(saveQueue) /\ Items(<<Head(saveQueue)>>) \subseteq Items(saveQueue)
    BY <1>1, <1>2, ItemParts
  <2> QED BY <1>1, <2>1 DEF StoreLine, SavedWereAdmitted
<1> QED BY <1>3, <1>4, <1>5, <1>6, <1>7 DEF StoreLine

\* It saves the entry it holds.
LEMMA SavesHeldKeepsLine ==
  ASSUME StoreTypeOK, StoreLine, UNCHANGED <<runnerSide, storeClosed, abandonedSaves, admitted>>, SavesHeld
  PROVE  StoreLine'
<1>1. /\ UNCHANGED <<runs, running, numbered, failedSteps, saveQueue, ranges, admitted, storeClosed, abandonedSaves>>
      /\ writer.at = "holding" /\ writer'.at = "poll" /\ writer'.todo = <<>>
  BY DEF runnerSide, SavesHeld
<1>2. /\ writer.todo # <<>> /\ Rising(saves) /\ Before(writer.todo, saveQueue) /\ Before(saves, writer.todo)
      /\ Before(writer.todo, ranges) /\ Within(writer.todo, runs, numbered, failedSteps)
  <2>1. Len(writer.todo) = 1
    BY <1>1 DEF StoreLine, StepsInLine
  <2>2. writer.todo # <<>>
    BY <2>1, EmptyIs
  <2> QED BY <1>1, <2>2 DEF StoreLine, StepsInLine, RangesAreLast, StepsAreNumbered
<1> DEFINE e == Head(writer.todo)
<1>3. e \in Steps /\ writer.todo \in Seq(Steps) /\ saves \in Seq(Steps)
  BY <1>2, WriterFields, TailIs DEF StoreTypeOK
<1>4. /\ Before(<<e>>, saveQueue) /\ Before(<<e>>, ranges) /\ Before(saves, <<e>>)
      /\ Within(<<e>>, runs, numbered, failedSteps) /\ e \in Items(writer.todo)
  BY <1>2, <1>3, BeforeParts, AfterParts, WithinParts, ItemParts
<1>5. Saved(e)
  BY DEF SavesHeld
<1> HIDE DEF e
<1>6. /\ Rising(saves')
      /\ \A B : Before(saves, B) /\ Before(<<e>>, B) => Before(saves', B)
      /\ \A r, n, f : Within(saves, r, n, f) /\ Within(<<e>>, r, n, f) => Within(saves', r, n, f)
      /\ Items(saves') \subseteq Items(saves) \cup {e}
  BY <1>2, <1>3, <1>4, <1>5, SaveKeeps
<1>7. StepsInLine'
  BY <1>1, <1>4, <1>6 DEF StoreLine, StepsInLine
<1>8. RangesAreLast'
  BY <1>1, <1>4, <1>6 DEF StoreLine, RangesAreLast
<1>9. StepsAreNumbered'
  BY <1>1, <1>4, <1>6 DEF StoreLine, StepsAreNumbered
<1>10. WorkerEnds'
  BY <1>1 DEF StoreLine, WorkerEnds
<1>11. SavedWereAdmitted'
  <2>1. Items(<<>>) = {}
    BY EmptyIs DEF Items
  <2> QED BY <1>1, <1>4, <1>6, <2>1 DEF StoreLine, SavedWereAdmitted
<1> QED BY <1>7, <1>8, <1>9, <1>10, <1>11 DEF StoreLine

\* Told to abandon the saves, it drops the entry it took.
LEMMA DropsKeepsLine ==
  ASSUME StoreTypeOK, StoreLine, UNCHANGED <<runnerSide, storeClosed, abandonedSaves, admitted>>, DropsQueued
  PROVE  StoreLine'
<1>1. /\ UNCHANGED <<runs, running, numbered, failedSteps, ranges, saves, admitted, storeClosed, abandonedSaves>>
      /\ saveQueue # <<>> /\ saveQueue' = Tail(saveQueue) /\ abandonedSaves
      /\ writer'.at = "done" /\ writer'.todo = writer.todo
  BY DEF runnerSide, DropsQueued
<1>2. saveQueue \in Seq(Steps)
  BY DEF StoreTypeOK
<1>3. /\ Rising(Tail(saveQueue)) /\ Before(saves, Tail(saveQueue)) /\ Before(Tail(saveQueue), ranges)
      /\ Within(Tail(saveQueue), runs, numbered, failedSteps) /\ Items(Tail(saveQueue)) \subseteq Items(saveQueue)
  BY <1>1, <1>2, RisingTail, BeforeParts, AfterParts, WithinParts, ItemParts
     DEF StoreLine, StepsInLine, RangesAreLast, StepsAreNumbered
<1>4. StepsInLine'
  BY <1>1, <1>3 DEF StoreLine, StepsInLine
<1>5. RangesAreLast'
  BY <1>1, <1>3 DEF StoreLine, RangesAreLast
<1>6. StepsAreNumbered'
  BY <1>1, <1>3 DEF StoreLine, StepsAreNumbered
<1>7. WorkerEnds'
  BY <1>1 DEF StoreLine, WorkerEnds
<1>8. SavedWereAdmitted'
  BY <1>1, <1>3 DEF StoreLine, SavedWereAdmitted
<1> QED BY <1>4, <1>5, <1>6, <1>7, <1>8 DEF StoreLine

\* Ahead of the range, it saves an entry it counted.
LEMMA SavesQueuedKeepsLine ==
  ASSUME StoreTypeOK, StoreLine, UNCHANGED <<runnerSide, storeClosed, abandonedSaves, admitted>>, SavesQueued
  PROVE  StoreLine'
<1>1. /\ UNCHANGED <<runs, running, numbered, failedSteps, ranges, admitted, storeClosed, abandonedSaves>>
      /\ saveQueue # <<>> /\ saveQueue' = Tail(saveQueue) /\ writer.at = "range"
      /\ writer'.at = "range" /\ writer'.left = writer.left - 1 /\ writer'.todo = writer.todo
  BY DEF runnerSide, SavesQueued
<1>2. saveQueue \in Seq(Steps) /\ saves \in Seq(Steps) /\ writer.left \in Nat
  BY WriterFields DEF StoreTypeOK
<1>3. /\ Rising(Tail(saveQueue)) /\ Before(saves, Tail(saveQueue)) /\ Before(Tail(saveQueue), ranges)
      /\ Within(Tail(saveQueue), runs, numbered, failedSteps) /\ Items(Tail(saveQueue)) \subseteq Items(saveQueue)
  BY <1>1, <1>2, RisingTail, BeforeParts, AfterParts, WithinParts, ItemParts
     DEF StoreLine, StepsInLine, RangesAreLast, StepsAreNumbered
<1> DEFINE e == Head(saveQueue)
<1>4. /\ e \in Steps /\ 1 \in DOMAIN saveQueue /\ e = saveQueue[1]
      /\ \A k \in DOMAIN Tail(saveQueue) : k \in Nat /\ k + 1 \in DOMAIN saveQueue /\ Tail(saveQueue)[k] = saveQueue[k + 1]
  BY <1>1, <1>2, TailIs
<1>5. /\ Before(<<e>>, Tail(saveQueue)) /\ Before(<<e>>, ranges) /\ Before(saves, <<e>>)
      /\ Within(<<e>>, runs, numbered, failedSteps) /\ e \in Items(saveQueue)
  BY <1>1, <1>2, RisingTail, BeforeParts, AfterParts, WithinParts, ItemParts
     DEF StoreLine, StepsInLine, RangesAreLast, StepsAreNumbered
<1>6. Saved(e)
  BY DEF SavesQueued
<1> HIDE DEF e
<1>7. Rising(saves) /\ Counted(saveQueue, writer.left, writer.todo)
  BY <1>1 DEF StoreLine, StepsInLine
<1>8. Before(<<e>>, writer.todo)
  BY <1>4, <1>7, OneIs DEF Before, Counted
<1>9. Counted(Tail(saveQueue), writer.left - 1, writer.todo)
  <2> SUFFICES ASSUME NEW k \in DOMAIN Tail(saveQueue), NEW a \in DOMAIN writer.todo,
                      Tail(saveQueue)[k].run = writer.todo[a].run
               PROVE  k <= writer.left - 1 /\ Tail(saveQueue)[k].step < writer.todo[a].step
    BY DEF Counted
  <2>1. k + 1 <= writer.left /\ saveQueue[k + 1].step < writer.todo[a].step
    BY <1>4, <1>7 DEF Counted
  <2> QED BY <1>2, <1>4, <2>1
<1>10. /\ Rising(saves')
       /\ \A B : Before(saves, B) /\ Before(<<e>>, B) => Before(saves', B)
       /\ \A r, n, f : Within(saves, r, n, f) /\ Within(<<e>>, r, n, f) => Within(saves', r, n, f)
       /\ Items(saves') \subseteq Items(saves) \cup {e}
  BY <1>4, <1>5, <1>6, <1>7, SaveKeeps
<1>11. StepsInLine'
  BY <1>1, <1>3, <1>5, <1>8, <1>9, <1>10 DEF StoreLine, StepsInLine
<1>12. RangesAreLast'
  BY <1>1, <1>3, <1>5, <1>10 DEF StoreLine, RangesAreLast
<1>13. StepsAreNumbered'
  BY <1>1, <1>3, <1>5, <1>10 DEF StoreLine, StepsAreNumbered
<1>14. WorkerEnds'
  BY <1>1 DEF StoreLine, WorkerEnds
<1>15. SavedWereAdmitted'
  BY <1>1, <1>3, <1>5, <1>10 DEF StoreLine, SavedWereAdmitted
<1> QED BY <1>11, <1>12, <1>13, <1>14, <1>15 DEF StoreLine

\* No entry of the range's session is left in the queue: it saves the range's own.
LEMMA SavesOfRangeKeepsLine ==
  ASSUME StoreTypeOK, StoreLine, UNCHANGED <<runnerSide, storeClosed, abandonedSaves, admitted>>, SavesOfRange
  PROVE  StoreLine'
<1>1. /\ UNCHANGED <<runs, running, numbered, failedSteps, saveQueue, ranges, admitted, storeClosed, abandonedSaves>>
      /\ writer.at = "range" /\ writer.left = 0 /\ writer.todo # <<>>
      /\ writer'.at = "range" /\ writer'.left = 0 /\ writer'.todo = Tail(writer.todo)
  BY DEF runnerSide, SavesOfRange
<1>2. writer.todo \in Seq(Steps) /\ saves \in Seq(Steps) /\ saveQueue \in Seq(Steps)
  BY WriterFields DEF StoreTypeOK
<1>3. /\ Rising(saves) /\ Rising(writer.todo) /\ Before(saves, writer.todo)
      /\ Counted(saveQueue, 0, writer.todo) /\ Disjoint(writer.todo, ranges) /\ Ended(writer.todo, runs, failedSteps)
  BY <1>1 DEF StoreLine, StepsInLine, RangesAreLast, StepsAreNumbered
<1> DEFINE e == Head(writer.todo)
<1>4. /\ e \in Steps /\ 1 \in DOMAIN writer.todo /\ e = writer.todo[1] /\ e \in Items(writer.todo)
      /\ \A k \in DOMAIN Tail(writer.todo) : k + 1 \in DOMAIN writer.todo /\ Tail(writer.todo)[k] = writer.todo[k + 1]
  BY <1>1, <1>2, TailIs, ItemParts
<1>5. /\ Rising(Tail(writer.todo)) /\ Before(<<e>>, Tail(writer.todo)) /\ Before(saves, Tail(writer.todo))
      /\ Before(saves, <<e>>) /\ Items(Tail(writer.todo)) \subseteq Items(writer.todo)
  BY <1>1, <1>2, <1>3, RisingTail, AfterParts, ItemParts
<1>6. Ended(Tail(writer.todo), runs, failedSteps) /\ Within(<<e>>, runs, numbered, failedSteps)
  <2>1. Ended(Tail(writer.todo), runs, failedSteps)
    BY <1>1, <1>2, <1>3, WithinParts
  <2>2. Within(<<e>>, runs, numbered, failedSteps)
    BY <1>3, <1>4, OneIs DEF Ended, Within
  <2> QED BY <2>1, <2>2
<1>7. Saved(e)
  BY DEF SavesOfRange
<1> HIDE DEF e
<1>8. \A k \in DOMAIN saveQueue, a \in DOMAIN writer.todo : saveQueue[k].run # writer.todo[a].run
  <2>1. \A k \in DOMAIN saveQueue : k \in Nat /\ k >= 1
    BY <1>2
  <2> QED BY <1>3, <2>1 DEF Counted
<1>9. Before(<<e>>, saveQueue) /\ Before(<<e>>, ranges) /\ Counted(saveQueue, 0, Tail(writer.todo))
  <2>1. Before(<<e>>, saveQueue)
    BY <1>4, <1>8, OneIs DEF Before
  <2>2. Before(<<e>>, ranges)
    BY <1>3, <1>4, OneIs DEF Before, Disjoint
  <2>3. Counted(saveQueue, 0, Tail(writer.todo))
    BY <1>4, <1>8 DEF Counted
  <2> QED BY <2>1, <2>2, <2>3
<1>10. Disjoint(Tail(writer.todo), ranges)
  BY <1>3, <1>4 DEF Disjoint
<1>11. /\ Rising(saves')
       /\ \A B : Before(saves, B) /\ Before(<<e>>, B) => Before(saves', B)
       /\ \A r, n, f : Within(saves, r, n, f) /\ Within(<<e>>, r, n, f) => Within(saves', r, n, f)
       /\ Items(saves') \subseteq Items(saves) \cup {e}
  BY <1>3, <1>4, <1>5, <1>7, SaveKeeps
<1>12. StepsInLine'
  BY <1>1, <1>5, <1>9, <1>11 DEF StoreLine, StepsInLine
<1>13. RangesAreLast'
  BY <1>1, <1>9, <1>10, <1>11 DEF StoreLine, RangesAreLast
<1>14. StepsAreNumbered'
  BY <1>1, <1>6, <1>11 DEF StoreLine, StepsAreNumbered
<1>15. WorkerEnds'
  BY <1>1 DEF StoreLine, WorkerEnds
<1>16. SavedWereAdmitted'
  BY <1>1, <1>4, <1>5, <1>11 DEF StoreLine, SavedWereAdmitted
<1> QED BY <1>12, <1>13, <1>14, <1>15, <1>16 DEF StoreLine

LEMMA WriterKeepsLine ==
  ASSUME StoreTypeOK, StoreLine, WriterStep
  PROVE  StoreLine'
<1>1. RangesAreLast
  BY DEF StoreLine
<1> QED BY <1>1, WriterStepIs, AsideKeepsLine, TakesRangeKeepsLine, TakesEntryKeepsLine, SavesHeldKeepsLine,
           DropsKeepsLine, SavesQueuedKeepsLine, SavesOfRangeKeepsLine

\* Starting the worker moves nothing.
LEMMA StartKeepsLine ==
  ASSUME StoreTypeOK, StoreLine, UNCHANGED writer \/ (StartsWriter /\ ~storeClosed)
  PROVE  /\ writer'.todo = writer.todo /\ writer'.left = writer.left
         /\ writer'.at \in {"holding", "range", "done"} <=> writer.at \in {"holding", "range", "done"}
         /\ writer'.at \in {"holding", "range", "done"} => writer'.at = writer.at
         /\ writer'.at \in {"none", "poll", "wait", "empty"} => writer.at \in {"none", "poll", "wait", "empty"}
<1>1. CASE UNCHANGED writer
  BY <1>1
<1>2. CASE StartsWriter
  <2>1. /\ writer'.todo = writer.todo /\ writer'.left = writer.left
        /\ writer'.at = writer.at \/ (writer.at = "none" /\ writer'.at = "poll")
    BY <1>2, StartsWriterIs
  <2> QED BY <2>1
<1> QED BY <1>1, <1>2

\* While the session has not failed, what there is of it is below the next number.
LEMMA NextStepIsLast ==
  ASSUME StoreTypeOK, StoreLine, ~failedSteps, NEW S, NEW e \in S, e.run = runs, e.step = numbered + 1
  PROVE  /\ Before(saves, <<e>>) /\ Before(saveQueue, <<e>>)
         /\ writer.at = "holding" => Before(writer.todo, <<e>>)
         /\ writer.at = "range" => \A a \in DOMAIN writer.todo : writer.todo[a].run # runs
         /\ \A i \in DOMAIN ranges : ranges[i].run # runs
<1>1. \A log \in Seq(Steps) : Within(log, runs, numbered, failedSteps) => Before(log, <<e>>)
  <2> SUFFICES ASSUME NEW log \in Seq(Steps), Within(log, runs, numbered, failedSteps), NEW i \in DOMAIN log,
                      log[i].run = runs
               PROVE  log[i].step < numbered + 1
    BY OneIs DEF Before
  <2>1. log[i].step \in Nat /\ numbered \in Nat
    BY StepIs DEF StoreTypeOK
  <2>2. log[i].step <= numbered
    BY DEF Within
  <2> QED BY <2>1, <2>2
<1>2. saves \in Seq(Steps) /\ saveQueue \in Seq(Steps) /\ writer.todo \in Seq(Steps)
  BY WriterFields DEF StoreTypeOK
<1>3. Before(saves, <<e>>) /\ Before(saveQueue, <<e>>) /\ (writer.at = "holding" => Before(writer.todo, <<e>>))
  BY <1>1, <1>2 DEF StoreLine, StepsAreNumbered
<1>4. /\ writer.at = "range" => \A a \in DOMAIN writer.todo : writer.todo[a].run # runs
      /\ \A i \in DOMAIN ranges : ranges[i].run # runs
  BY DEF StoreLine, StepsAreNumbered, Ended
<1> QED BY <1>3, <1>4

LEMMA RecordKeepsLine ==
  ASSUME StoreTypeOK, StoreLine, RecordStep
  PROVE  StoreLine'
<1>1. UNCHANGED <<runs, failedSteps, ranges, storeClosed, abandonedSaves, saves>>
  BY RecordStepIs
<1>2. CASE UNCHANGED <<numbered, running, writer, saveQueue, admitted>>
  BY <1>1, <1>2 DEF StoreLine, StepsInLine, RangesAreLast, StepsAreNumbered, WorkerEnds, SavedWereAdmitted
<1>3. CASE /\ ~failedSteps /\ numbered' = numbered + 1
           /\ UNCHANGED writer \/ (StartsWriter /\ ~storeClosed)
  <2>1. /\ writer'.todo = writer.todo /\ writer'.left = writer.left
        /\ writer'.at \in {"holding", "range", "done"} => writer'.at = writer.at
        /\ writer'.at \in {"none", "poll", "wait", "empty"} => writer.at \in {"none", "poll", "wait", "empty"}
    BY <1>3, StartKeepsLine
  <2>2. \A log \in Seq(Steps) : Within(log, runs, numbered, failedSteps) => Within(log, runs, numbered + 1, failedSteps)
    <3> SUFFICES ASSUME NEW log \in Seq(Steps), Within(log, runs, numbered, failedSteps), NEW i \in DOMAIN log
                 PROVE  log[i].run <= runs /\ (log[i].run = runs => failedSteps \/ log[i].step <= numbered + 1)
      BY DEF Within
    <3>1. log[i].step \in Nat /\ numbered \in Nat
      BY StepIs DEF StoreTypeOK
    <3>2. log[i].run <= runs /\ (log[i].run = runs => failedSteps \/ log[i].step <= numbered)
      BY DEF Within
    <3> QED BY <3>1, <3>2
  <2>3. saves \in Seq(Steps) /\ saveQueue \in Seq(Steps) /\ writer.todo \in Seq(Steps) /\ admitted \in Seq(Steps)
    BY WriterFields DEF StoreTypeOK
  <2>4. WorkerEnds'
    BY <1>1, <2>1 DEF StoreLine, WorkerEnds
  <2>5. CASE UNCHANGED <<saveQueue, admitted>>
    <3>1. StepsInLine'
      BY <1>1, <2>1, <2>5 DEF StoreLine, StepsInLine
    <3>2. RangesAreLast'
      BY <1>1, <2>1, <2>5 DEF StoreLine, RangesAreLast
    <3>3. StepsAreNumbered'
      BY <1>1, <1>3, <2>1, <2>2, <2>3, <2>5 DEF StoreLine, StepsAreNumbered
    <3>4. SavedWereAdmitted'
      BY <1>1, <2>1, <2>5 DEF StoreLine, SavedWereAdmitted
    <3> QED BY <2>4, <3>1, <3>2, <3>3, <3>4 DEF StoreLine
  <2>6. CASE /\ saveQueue' = Append(saveQueue, Entry(runs, numbered + 1, Head(hops).messages))
             /\ admitted' = Append(admitted, Entry(runs, numbered + 1, Head(hops).messages))
    <3> DEFINE e == Entry(runs, numbered + 1, Head(hops).messages)
    <3>1. e \in Steps /\ e.run = runs /\ e.step = numbered + 1
      <4>1. Head(hops).messages \in Seq(Messages)
        BY RecordStepIs, HopIs
      <4>2. runs \in Nat /\ numbered + 1 \in Nat
        BY DEF StoreTypeOK
      <4> QED BY <4>1, <4>2, EntryIs
    <3>2. saveQueue' = Append(saveQueue, e) /\ admitted' = Append(admitted, e)
      BY <2>6
    <3> HIDE DEF e
    <3>3. /\ Before(saves, <<e>>) /\ Before(saveQueue, <<e>>)
          /\ writer.at = "holding" => Before(writer.todo, <<e>>)
          /\ writer.at = "range" => \A a \in DOMAIN writer.todo : writer.todo[a].run # runs
          /\ \A i \in DOMAIN ranges : ranges[i].run # runs
      BY <1>3, <3>1, NextStepIsLast
    <3>4. StepsInLine'
      <4>1. Rising(saveQueue') /\ Before(saves, saveQueue')
        BY <2>3, <3>1, <3>2, <3>3, RisingAppend, AfterAppend DEF StoreLine, StepsInLine
      <4>2. writer.at = "holding" => Before(writer.todo, saveQueue')
        BY <2>3, <3>1, <3>2, <3>3, AfterAppend DEF StoreLine, StepsInLine
      <4>3. writer.at = "range" => Counted(saveQueue', writer.left, writer.todo)
        <5> SUFFICES ASSUME writer.at = "range", NEW k \in DOMAIN saveQueue', NEW a \in DOMAIN writer.todo,
                            saveQueue'[k].run = writer.todo[a].run
                     PROVE  k <= writer.left /\ saveQueue'[k].step < writer.todo[a].step
          BY DEF Counted
        <5>1. k \in DOMAIN saveQueue /\ saveQueue'[k] = saveQueue[k]
          BY <2>3, <3>1, <3>2, <3>3, AppendIs
        <5> QED BY <5>1 DEF StoreLine, StepsInLine, Counted
      <4> QED BY <1>1, <2>1, <4>1, <4>2, <4>3 DEF StoreLine, StepsInLine
    <3>5. RangesAreLast'
      <4>1. Before(<<e>>, ranges)
        BY <3>1, <3>3, OneIs DEF Before
      <4>2. Before(saveQueue', ranges)
        BY <2>3, <3>1, <3>2, <4>1, BeforeAppend DEF StoreLine, RangesAreLast
      <4> QED BY <1>1, <2>1, <4>2 DEF StoreLine, RangesAreLast
    <3>6. StepsAreNumbered'
      <4>1. Within(<<e>>, runs, numbered + 1, failedSteps)
        <5>1. runs \in Nat /\ numbered + 1 \in Nat
          BY DEF StoreTypeOK
        <5> QED BY <3>1, <5>1, OneIs DEF Within
      <4>2. Within(saveQueue, runs, numbered + 1, failedSteps)
        BY <2>2, <2>3 DEF StoreLine, StepsAreNumbered
      <4>3. Within(saveQueue', runs, numbered + 1, failedSteps)
        BY <2>3, <3>1, <3>2, <4>1, <4>2, WithinParts
      <4> QED BY <1>1, <1>3, <2>1, <2>2, <2>3, <4>3 DEF StoreLine, StepsAreNumbered
    <3>7. SavedWereAdmitted'
      <4>1. Items(saveQueue') = Items(saveQueue) \cup {e}
        BY <2>3, <3>1, <3>2, StepItems
      <4>2. Items(admitted') = Items(admitted) \cup {e}
        BY <2>3, <3>1, <3>2, StepItems
      <4> QED BY <1>1, <2>1, <4>1, <4>2 DEF StoreLine, SavedWereAdmitted
    <3> QED BY <2>4, <3>4, <3>5, <3>6, <3>7 DEF StoreLine
  <2> QED BY <1>3, <2>5, <2>6, RecordStepIs
<1> QED BY <1>2, <1>3, RecordStepIs

LEMMA FailKeepsLine ==
  ASSUME StoreTypeOK, StoreLine, FailRemainingSteps
  PROVE  StoreLine'
<1>1. UNCHANGED <<runs, saveQueue, storeClosed, abandonedSaves, saves>>
  BY FailIs
<1>2. CASE UNCHANGED <<numbered, running, failedSteps, held, writer, ranges, admitted>>
  BY <1>1, <1>2 DEF StoreLine, StepsInLine, RangesAreLast, StepsAreNumbered, WorkerEnds, SavedWereAdmitted
<1>3. CASE /\ running /\ ~running' /\ failedSteps' = TRUE
           /\ UNCHANGED writer \/ (StartsWriter /\ ~storeClosed)
  <2>1. /\ writer'.todo = writer.todo /\ writer'.left = writer.left
        /\ writer'.at \in {"holding", "range", "done"} => writer'.at = writer.at
        /\ writer'.at \in {"none", "poll", "wait", "empty"} => writer.at \in {"none", "poll", "wait", "empty"}
    BY <1>3, StartKeepsLine
  <2>2. \A log, n : Within(log, runs, numbered, failedSteps) => Within(log, runs, n, TRUE)
    BY DEF Within
  <2>3. \A log : Ended(log, runs, failedSteps) => Ended(log, runs, TRUE)
    BY DEF Ended
  <2>4. StepsInLine'
    BY <1>1, <2>1 DEF StoreLine, StepsInLine
  <2>5. CASE UNCHANGED <<ranges, admitted>>
    <3>1. RangesAreLast'
      BY <1>1, <2>1, <2>5 DEF StoreLine, RangesAreLast
    <3>2. StepsAreNumbered'
      BY <1>1, <1>3, <2>1, <2>2, <2>3, <2>5 DEF StoreLine, StepsAreNumbered
    <3>3. WorkerEnds'
      BY <1>1, <2>1, <2>5 DEF StoreLine, WorkerEnds
    <3>4. SavedWereAdmitted'
      BY <1>1, <2>1, <2>5 DEF StoreLine, SavedWereAdmitted
    <3> QED BY <2>4, <3>1, <3>2, <3>3, <3>4 DEF StoreLine
  <2>6. CASE /\ numbered + 1 <= StepCount /\ ~storeClosed
             /\ ranges' = Append(ranges, Failing)
             /\ admitted' = admitted \o RangeSteps(Failing)
    <3>1. /\ Failing \in Failures /\ Failing.step <= Failing.last
          /\ Failing.run = runs /\ Failing.step = numbered + 1 /\ RangeSteps(Failing) \in Seq(Steps)
      BY <2>6, FailIs, FailingIs
    <3>2. /\ Before(saves, <<Failing>>) /\ Before(saveQueue, <<Failing>>)
          /\ writer.at = "holding" => Before(writer.todo, <<Failing>>)
          /\ writer.at = "range" => \A a \in DOMAIN writer.todo : writer.todo[a].run # runs
          /\ \A i \in DOMAIN ranges : ranges[i].run # runs
      <4>1. ~failedSteps
        BY <1>3 DEF StoreLine, StepsAreNumbered
      <4> QED BY <3>1, <4>1, NextStepIsLast
    <3>3. ranges \in Seq(Failures) /\ admitted \in Seq(Steps)
      BY DEF StoreTypeOK
    <3>4. \A i \in DOMAIN ranges' : \/ i \in DOMAIN ranges /\ ranges'[i] = ranges[i]
                                    \/ i = Len(ranges) + 1 /\ ranges'[i] = Failing
      BY <2>6, <3>1, <3>3, AppendIs
    <3>5. RangesAreLast'
      <4>1. Before(saves, ranges') /\ Before(saveQueue, ranges') /\ (writer.at = "holding" => Before(writer.todo, ranges'))
        BY <2>6, <3>1, <3>2, <3>3, AfterAppend DEF StoreLine, RangesAreLast
      <4>2. writer.at = "range" => Disjoint(writer.todo, ranges')
        BY <3>1, <3>2, <3>4 DEF StoreLine, RangesAreLast, Disjoint
      <4>3. OneOfEach(ranges')
        BY <3>1, <3>2, <3>4 DEF StoreLine, RangesAreLast, OneOfEach
      <4>4. \A i \in DOMAIN ranges' : ranges'[i].step <= ranges'[i].last
        BY <3>1, <3>4 DEF StoreLine, RangesAreLast
      <4> QED BY <1>1, <2>1, <4>1, <4>2, <4>3, <4>4 DEF StoreLine, RangesAreLast
    <3>6. StepsAreNumbered'
      <4>1. Ended(<<Failing>>, runs, TRUE)
        <5>1. runs \in Nat
          BY DEF StoreTypeOK
        <5> QED BY <3>1, <5>1, OneIs DEF Ended
      <4>2. Ended(ranges', runs, TRUE)
        BY <2>3, <2>6, <3>1, <3>3, <4>1, WithinParts DEF StoreLine, StepsAreNumbered
      <4> QED BY <1>1, <1>3, <2>1, <2>2, <2>3, <4>2 DEF StoreLine, StepsAreNumbered
    <3>7. WorkerEnds'
      BY <1>1, <2>1, <2>6 DEF StoreLine, WorkerEnds
    <3>8. SavedWereAdmitted'
      <4>1. Items(admitted) \subseteq Items(admitted') /\ Items(RangeSteps(Failing)) \subseteq Items(admitted')
        <5>1. \A i \in DOMAIN admitted : i \in DOMAIN admitted' /\ admitted'[i] = admitted[i]
          BY <2>6, <3>1, <3>3, JoinIs
        <5>2. \A i \in DOMAIN RangeSteps(Failing) :
                i + Len(admitted) \in DOMAIN admitted' /\ admitted'[i + Len(admitted)] = RangeSteps(Failing)[i]
          BY <2>6, <3>1, <3>3, JoinIs
        <5> QED BY <5>1, <5>2 DEF Items
      <4>2. \A i \in DOMAIN ranges' : Items(RangeSteps(ranges'[i])) \subseteq Items(admitted')
        BY <3>4, <4>1 DEF StoreLine, SavedWereAdmitted
      <4> QED BY <1>1, <2>1, <4>1, <4>2 DEF StoreLine, SavedWereAdmitted
    <3> QED BY <2>4, <3>5, <3>6, <3>7, <3>8 DEF StoreLine
  <2> QED BY <1>3, <2>5, <2>6, FailIs
<1> QED BY <1>2, <1>3, FailIs

-------------------------------------------------------------------------------
(* The messages.                                                           *)

LEMMA MessagesInit == StoreInit => MessagesInOnePlace
<1> SUFFICES ASSUME StoreInit PROVE MessagesInOnePlace
  OBVIOUS
<1>1. held = <<>> /\ hops = <<>> /\ admitted = <<>>
  BY DEF StoreInit
<1>2. DOMAIN held = {} /\ DOMAIN hops = {} /\ DOMAIN admitted = {}
  BY <1>1, EmptyIs
<1> QED BY <1>2 DEF MessagesInOnePlace, Plain, UpTo, Carried, Elsewhere

LEMMA NoMessages ==
  ASSUME NEW n
  PROVE  Plain(<<>>) /\ UpTo(<<>>, n) /\ \A m : Apart(<<>>, m) /\ Apart(m, <<>>)
BY EmptyIs DEF Plain, UpTo, Apart

LEMMA ApartSwaps == \A m, h : Apart(m, h) => Apart(h, m)
BY DEF Apart

\* A log that gains one bearer of messages, and others that bear none.
LEMMA LogGains ==
  ASSUME NEW log, NEW log2, NEW at, NEW m, NEW n,
         Carried(log, n), Plain(m), UpTo(m, n), Elsewhere(m, log),
         \A i \in DOMAIN log2 : \/ i \in DOMAIN log /\ log2[i].messages = log[i].messages
                                \/ i = at /\ log2[i].messages = m
                                \/ log2[i].messages = <<>>
  PROVE  /\ Carried(log2, n)
         /\ \A h : Elsewhere(h, log) /\ Apart(h, m) => Elsewhere(h, log2)
<1>1. ASSUME NEW i \in DOMAIN log2 PROVE Plain(log2[i].messages) /\ UpTo(log2[i].messages, n)
  BY NoMessages DEF Carried
<1>2. ASSUME NEW i \in DOMAIN log2, NEW j \in DOMAIN log2, i # j
      PROVE  Apart(log2[i].messages, log2[j].messages)
  <2>1. CASE log2[i].messages = <<>> \/ log2[j].messages = <<>>
    BY <2>1, NoMessages
  <2>2. CASE i \in DOMAIN log /\ log2[i].messages = log[i].messages
    <3>1. CASE j \in DOMAIN log /\ log2[j].messages = log[j].messages
      BY <1>2, <2>2, <3>1 DEF Carried
    <3>2. CASE j = at /\ log2[j].messages = m
      BY <2>2, <3>2, ApartSwaps DEF Elsewhere
    <3> QED BY <2>1, <3>1, <3>2
  <2>3. CASE i = at /\ log2[i].messages = m
    <3>1. CASE j \in DOMAIN log /\ log2[j].messages = log[j].messages
      BY <2>3, <3>1 DEF Elsewhere
    <3> QED BY <1>2, <2>1, <2>3, <3>1
  <2> QED BY <2>1, <2>2, <2>3
<1>3. ASSUME NEW h, Elsewhere(h, log), Apart(h, m) PROVE Elsewhere(h, log2)
  BY <1>3, NoMessages DEF Elsewhere
<1> QED BY <1>1, <1>2, <1>3 DEF Carried

\* The hops behind the first.
LEMMA HopTaken ==
  ASSUME StoreTypeOK, MessagesInOnePlace, hops # <<>>
  PROVE  /\ Carried(Tail(hops), sentMessages) /\ Elsewhere(held, Tail(hops))
         /\ \A i \in DOMAIN Tail(hops) : Elsewhere(Tail(hops)[i].messages, admitted)
         /\ Plain(Head(hops).messages) /\ UpTo(Head(hops).messages, sentMessages)
         /\ Elsewhere(Head(hops).messages, admitted) /\ Apart(held, Head(hops).messages)
         /\ \A i \in DOMAIN Tail(hops) : Apart(Tail(hops)[i].messages, Head(hops).messages)
<1>1. /\ Head(hops).messages = hops[1].messages /\ 1 \in DOMAIN hops
      /\ \A i \in DOMAIN Tail(hops) : i \in Nat /\ i >= 1 /\ i + 1 \in DOMAIN hops /\ Tail(hops)[i] = hops[i + 1]
  BY HopIs, TailIs DEF StoreTypeOK
<1>2. \A i, j \in DOMAIN Tail(hops) : i # j => i + 1 # j + 1
  BY <1>1
<1>3. \A i \in DOMAIN Tail(hops) : i + 1 # 1
  BY <1>1
<1>4. Carried(Tail(hops), sentMessages)
  BY <1>1, <1>2 DEF MessagesInOnePlace, Carried
<1>5. Elsewhere(held, Tail(hops)) /\ \A i \in DOMAIN Tail(hops) : Elsewhere(Tail(hops)[i].messages, admitted)
  BY <1>1 DEF MessagesInOnePlace, Elsewhere
<1>6. /\ Plain(Head(hops).messages) /\ UpTo(Head(hops).messages, sentMessages)
      /\ Elsewhere(Head(hops).messages, admitted) /\ Apart(held, Head(hops).messages)
  BY <1>1 DEF MessagesInOnePlace, Carried, Elsewhere
<1>7. \A i \in DOMAIN Tail(hops) : Apart(Tail(hops)[i].messages, Head(hops).messages)
  BY <1>1, <1>3 DEF MessagesInOnePlace, Carried
<1> QED BY <1>4, <1>5, <1>6, <1>7

\* A broadcast has a number of its own.
LEMMA BroadcastKeepsMessages ==
  ASSUME StoreTypeOK, MessagesInOnePlace, BroadcastMessage
  PROVE  MessagesInOnePlace'
<1> DEFINE e == [of |-> modelAt, id |-> sentMessages + 1]
<1>1. UNCHANGED <<hops, admitted>> /\ sentMessages' = sentMessages + 1 /\ held' = Append(held, e)
  BY DEF BroadcastMessage
<1>2. e \in Messages /\ held \in Seq(Messages) /\ sentMessages \in Nat /\ e.id = sentMessages + 1
  BY DEF StoreTypeOK, Messages
<1> HIDE DEF e
<1>3. \A i \in DOMAIN held' : \/ i \in DOMAIN held /\ held'[i] = held[i]
                              \/ i = Len(held) + 1 /\ held'[i] = e
  BY <1>1, <1>2, AppendIs
<1>4. ASSUME NEW m \in Seq(Messages), UpTo(m, sentMessages), NEW i \in DOMAIN m
      PROVE  m[i].id < sentMessages + 1 /\ m[i].id <= sentMessages + 1
  <2>1. m[i] \in Messages
    OBVIOUS
  <2>2. m[i].id \in Nat
    BY <2>1 DEF Messages
  <2>3. m[i].id <= sentMessages
    BY <1>4 DEF UpTo
  <2> QED BY <1>2, <2>2, <2>3
<1>5. \A m \in Seq(Messages) : UpTo(m, sentMessages) => UpTo(m, sentMessages + 1)
  BY <1>4 DEF UpTo
<1>6. ASSUME NEW m \in Seq(Messages), UpTo(m, sentMessages), Apart(held, m) PROVE Apart(held', m)
  <2> SUFFICES ASSUME NEW a \in DOMAIN held', NEW b \in DOMAIN m PROVE held'[a].id # m[b].id
    BY DEF Apart
  <2>1. m[b].id < sentMessages + 1
    BY <1>4, <1>6
  <2>2. m[b].id # sentMessages + 1
    BY <1>2, <2>1
  <2> QED BY <1>2, <1>3, <1>6, <2>2 DEF Apart
<1>7. UpTo(held, sentMessages) /\ Plain(held)
  BY DEF MessagesInOnePlace
<1>8. Plain(held') /\ UpTo(held', sentMessages')
  <2>1. \A i \in DOMAIN held : held[i].id # sentMessages + 1 /\ held[i].id <= sentMessages + 1
    <3>1. \A i \in DOMAIN held : held[i].id < sentMessages + 1 /\ held[i].id <= sentMessages + 1
      BY <1>2, <1>4, <1>7
    <3> QED BY <1>2, <3>1
  <2>2. sentMessages + 1 <= sentMessages + 1
    BY <1>2
  <2>3. Plain(held')
    BY <1>2, <1>3, <1>7, <2>1 DEF Plain
  <2>4. UpTo(held', sentMessages + 1)
    BY <1>2, <1>3, <2>1, <2>2 DEF UpTo
  <2> QED BY <1>1, <2>3, <2>4
<1>9. /\ \A i \in DOMAIN hops : hops[i].messages \in Seq(Messages)
      /\ \A i \in DOMAIN admitted : admitted[i].messages \in Seq(Messages)
  <2>1. ASSUME NEW i \in DOMAIN hops PROVE hops[i].messages \in Seq(Messages)
    <3>1. hops[i] \in Reports
      BY DEF StoreTypeOK
    <3> QED BY <3>1 DEF Reports
  <2> QED BY <2>1, StepIs DEF StoreTypeOK
<1>10. Carried(hops, sentMessages + 1) /\ Carried(admitted, sentMessages + 1)
  BY <1>5, <1>9 DEF MessagesInOnePlace, Carried
<1>11. Elsewhere(held', hops) /\ Elsewhere(held', admitted)
  BY <1>6, <1>9 DEF MessagesInOnePlace, Carried, Elsewhere
<1> QED BY <1>1, <1>8, <1>10, <1>11 DEF MessagesInOnePlace

\* A report takes what the model sent since the last.
LEMMA ReportKeepsMessages ==
  ASSUME StoreTypeOK, MessagesInOnePlace, OnStepCompleted \/ OnHandlerFailure
  PROVE  MessagesInOnePlace'
<1>1. UNCHANGED <<admitted, sentMessages>>
  BY DEF OnStepCompleted, OnHandlerFailure
<1>2. PICK k \in {"step", "failure"}, m \in {held, <<>>} :
         /\ hops' = Append(hops, [kind |-> k, run |-> modelAt, messages |-> m])
         /\ held' = IF m = held THEN <<>> ELSE held
  BY DEF OnStepCompleted, OnHandlerFailure
<1> DEFINE h == [kind |-> k, run |-> modelAt, messages |-> m]
<1>3. h \in Reports /\ h.messages = m /\ hops \in Seq(Reports)
  <2>1. m \in Seq(Messages)
    BY EmptyIs DEF StoreTypeOK
  <2> QED BY <2>1 DEF StoreTypeOK, Reports
<1>4. hops' = Append(hops, h)
  BY <1>2
<1> HIDE DEF h
<1>5. \A i \in DOMAIN hops' : \/ i \in DOMAIN hops /\ hops'[i] = hops[i]
                              \/ i = Len(hops) + 1 /\ hops'[i] = h
  BY <1>3, <1>4, AppendIs
<1>6. Plain(m) /\ UpTo(m, sentMessages) /\ Elsewhere(m, hops) /\ Elsewhere(m, admitted)
  BY NoMessages DEF MessagesInOnePlace, Elsewhere
<1>7. Carried(hops', sentMessages) /\ \A x : Elsewhere(x, hops) /\ Apart(x, m) => Elsewhere(x, hops')
  <2>1. \A i \in DOMAIN hops' : \/ i \in DOMAIN hops /\ hops'[i].messages = hops[i].messages
                                \/ i = Len(hops) + 1 /\ hops'[i].messages = m
                                \/ hops'[i].messages = <<>>
    BY <1>3, <1>5
  <2>2. Carried(hops, sentMessages)
    BY DEF MessagesInOnePlace
  <2> QED BY <1>6, <2>1, <2>2, LogGains
<1>8. \A i \in DOMAIN hops' : Elsewhere(hops'[i].messages, admitted)
  BY <1>3, <1>5, <1>6 DEF MessagesInOnePlace
<1>9. /\ Plain(held') /\ UpTo(held', sentMessages) /\ Elsewhere(held', admitted)
      /\ Elsewhere(held', hops) /\ Apart(held', m)
  BY <1>2, NoMessages DEF MessagesInOnePlace, Elsewhere
<1> QED BY <1>1, <1>7, <1>8, <1>9 DEF MessagesInOnePlace

\* The messages of a step the loop numbers go to the entry it admits, or nowhere.
LEMMA RecordKeepsMessages ==
  ASSUME StoreTypeOK, MessagesInOnePlace, RecordStep
  PROVE  MessagesInOnePlace'
<1> DEFINE m == Head(hops).messages
           e == Entry(runs, numbered + 1, m)
<1>1. hops # <<>> /\ hops' = Tail(hops) /\ UNCHANGED <<held, sentMessages>>
  BY RecordStepIs
<1>2. /\ Carried(Tail(hops), sentMessages) /\ Elsewhere(held, Tail(hops))
      /\ \A i \in DOMAIN Tail(hops) : Elsewhere(Tail(hops)[i].messages, admitted)
      /\ Plain(m) /\ UpTo(m, sentMessages) /\ Elsewhere(m, admitted) /\ Apart(held, m)
      /\ \A i \in DOMAIN Tail(hops) : Apart(Tail(hops)[i].messages, m)
  BY <1>1, HopTaken
<1>3. CASE UNCHANGED admitted
  BY <1>1, <1>2, <1>3 DEF MessagesInOnePlace
<1>4. CASE admitted' = Append(admitted, e)
  <2>1. e \in Steps /\ e.messages = m /\ admitted \in Seq(Steps)
    <3>1. m \in Seq(Messages)
      BY <1>1, HopIs
    <3>2. runs \in Nat /\ numbered + 1 \in Nat /\ admitted \in Seq(Steps)
      BY DEF StoreTypeOK
    <3> HIDE DEF m
    <3> QED BY <3>1, <3>2, EntryIs
  <2> HIDE DEF e, m
  <2>2. \A i \in DOMAIN admitted' : \/ i \in DOMAIN admitted /\ admitted'[i].messages = admitted[i].messages
                                    \/ i = Len(admitted) + 1 /\ admitted'[i].messages = m
                                    \/ admitted'[i].messages = <<>>
    BY <1>4, <2>1, AppendIs
  <2>3. Carried(admitted, sentMessages) /\ Elsewhere(held, admitted) /\ Plain(held) /\ UpTo(held, sentMessages)
    BY DEF MessagesInOnePlace
  <2>4. /\ Carried(admitted', sentMessages)
        /\ \A h : Elsewhere(h, admitted) /\ Apart(h, m) => Elsewhere(h, admitted')
    BY <1>2, <2>2, <2>3, LogGains
  <2> QED BY <1>1, <1>2, <2>3, <2>4 DEF MessagesInOnePlace
<1> QED BY <1>3, <1>4, RecordStepIs

\* Those of a failure, with what was sent after it, go to the first failed step.
LEMMA FailKeepsMessages ==
  ASSUME StoreTypeOK, MessagesInOnePlace, FailRemainingSteps
  PROVE  MessagesInOnePlace'
<1> DEFINE m == Head(hops).messages
<1>1. hops # <<>> /\ hops' = Tail(hops) /\ UNCHANGED sentMessages
  BY FailIs
<1>2. /\ Carried(Tail(hops), sentMessages) /\ Elsewhere(held, Tail(hops))
      /\ \A i \in DOMAIN Tail(hops) : Elsewhere(Tail(hops)[i].messages, admitted)
      /\ Plain(m) /\ UpTo(m, sentMessages) /\ Elsewhere(m, admitted) /\ Apart(held, m)
      /\ \A i \in DOMAIN Tail(hops) : Apart(Tail(hops)[i].messages, m)
  BY <1>1, HopTaken
<1>3. Carried(admitted, sentMessages) /\ Elsewhere(held, admitted) /\ Plain(held) /\ UpTo(held, sentMessages)
  BY DEF MessagesInOnePlace
<1>4. CASE UNCHANGED <<held, admitted>>
  BY <1>1, <1>2, <1>3, <1>4 DEF MessagesInOnePlace
<1>5. /\ Plain(<<>>) /\ UpTo(<<>>, sentMessages) /\ \A log : Elsewhere(<<>>, log)
      /\ \A x : Apart(x, <<>>) /\ Apart(<<>>, x)
  BY NoMessages DEF Elsewhere
<1>6. CASE held' = <<>> /\ UNCHANGED admitted
  BY <1>1, <1>2, <1>3, <1>5, <1>6 DEF MessagesInOnePlace
<1>7. CASE held' = <<>> /\ numbered + 1 <= StepCount /\ admitted' = admitted \o RangeSteps(Failing)
  <2> DEFINE all == m \o held
             R == RangeSteps(Failing)
  <2>1. m \in Seq(Messages) /\ held \in Seq(Messages) /\ admitted \in Seq(Steps)
    BY <1>1, HopIs DEF StoreTypeOK
  <2>2. /\ R \in Seq(Steps)
        /\ \A i \in DOMAIN R : i \in Nat /\ i >= 1 /\ R[i].messages = IF i = 1 THEN all ELSE <<>>
    BY <1>1, <1>7, FailingIs, RangeIs
  <2> HIDE DEF m
  <2>3. /\ \A i \in DOMAIN m : i \in Nat /\ i <= Len(m) /\ Len(m) \in Nat
        /\ \A i \in DOMAIN all : \/ i \in DOMAIN m /\ all[i] = m[i]
                                 \/ /\ i - Len(m) \in DOMAIN held /\ i \in Nat /\ i > Len(m)
                                    /\ all[i] = held[i - Len(m)]
    BY <2>1, JoinIs
  <2>4. Plain(all)
    <3> SUFFICES ASSUME NEW a \in DOMAIN all, NEW b \in DOMAIN all, all[a].id = all[b].id PROVE a = b
      BY DEF Plain
    <3> HIDE DEF all
    <3>1. CASE a \in DOMAIN m /\ all[a] = m[a] /\ b \in DOMAIN m /\ all[b] = m[b]
      BY <1>2, <3>1 DEF Plain
    <3>2. CASE a - Len(m) \in DOMAIN held /\ all[a] = held[a - Len(m)] /\ b \in DOMAIN m /\ all[b] = m[b]
      BY <1>2, <3>2 DEF Apart
    <3>3. CASE a \in DOMAIN m /\ all[a] = m[a] /\ b - Len(m) \in DOMAIN held /\ all[b] = held[b - Len(m)]
      BY <1>2, <3>3 DEF Apart
    <3>4. CASE /\ a \in Nat /\ a - Len(m) \in DOMAIN held /\ all[a] = held[a - Len(m)]
               /\ b \in Nat /\ b - Len(m) \in DOMAIN held /\ all[b] = held[b - Len(m)]
      <4>1. a - Len(m) = b - Len(m)
        BY <1>3, <3>4 DEF Plain
      <4>2. Len(m) \in Nat
        BY <2>1
      <4> QED BY <3>4, <4>1, <4>2
    <3> QED BY <2>3, <3>1, <3>2, <3>3, <3>4
  <2>5. UpTo(all, sentMessages)
    BY <1>2, <1>3, <2>3 DEF UpTo
  <2>6. \A x : Apart(x, m) /\ Apart(x, held) => Apart(x, all)
    BY <2>3 DEF Apart
  <2>7. Elsewhere(all, admitted)
    BY <1>2, <1>3, <2>6, ApartSwaps DEF Elsewhere
  <2>8. \A i \in DOMAIN Tail(hops) : Apart(Tail(hops)[i].messages, all)
    BY <1>2, <2>6, ApartSwaps DEF Elsewhere
  <2> HIDE DEF all, R
  <2>9. \A i \in DOMAIN admitted' : \/ i \in DOMAIN admitted /\ admitted'[i].messages = admitted[i].messages
                                    \/ i = Len(admitted) + 1 /\ admitted'[i].messages = all
                                    \/ admitted'[i].messages = <<>>
    <3> SUFFICES ASSUME NEW i \in DOMAIN admitted'
                 PROVE  \/ i \in DOMAIN admitted /\ admitted'[i].messages = admitted[i].messages
                        \/ i = Len(admitted) + 1 /\ admitted'[i].messages = all
                        \/ admitted'[i].messages = <<>>
      OBVIOUS
    <3>1. \/ i \in DOMAIN admitted /\ admitted'[i] = admitted[i]
          \/ /\ i - Len(admitted) \in DOMAIN R /\ i \in Nat
             /\ admitted'[i] = R[i - Len(admitted)]
      BY <1>7, <2>1, <2>2, JoinIs DEF R
    <3>2. CASE i \in DOMAIN admitted /\ admitted'[i] = admitted[i]
      BY <3>2
    <3>3. CASE /\ i - Len(admitted) \in DOMAIN R /\ i \in Nat /\ admitted'[i] = R[i - Len(admitted)]
      <4>1. Len(admitted) \in Nat
        BY <2>1
      <4>2. admitted'[i].messages = IF i - Len(admitted) = 1 THEN all ELSE <<>>
        BY <2>2, <3>3
      <4>3. i - Len(admitted) = 1 => i = Len(admitted) + 1
        BY <3>3, <4>1
      <4> QED BY <4>2, <4>3
    <3> QED BY <3>1, <3>2, <3>3
  <2>10. /\ Carried(admitted', sentMessages)
         /\ \A h : Elsewhere(h, admitted) /\ Apart(h, all) => Elsewhere(h, admitted')
    BY <1>3, <2>4, <2>5, <2>7, <2>9, LogGains
  <2> QED BY <1>1, <1>2, <1>5, <1>7, <2>8, <2>10 DEF MessagesInOnePlace
<1> QED BY <1>4, <1>6, <1>7, FailIs

-------------------------------------------------------------------------------
(* The theorem.                                                            *)

LEMMA StoreInvInit == StoreInit => StoreInv
BY StoreTypeInit, StoreLineInit, MessagesInit DEF StoreInv, StoreLine

LEMMA StoreInvStep == StoreInv /\ [StoreNext]_storeVars => StoreInv'
<1> SUFFICES ASSUME StoreInv, [StoreNext]_storeVars PROVE StoreInv'
  OBVIOUS
<1>1. StoreTypeOK /\ StoreLine /\ MessagesInOnePlace /\ RangesAreLast /\ StepsInLine
  BY DEF StoreInv, StoreLine
<1>2. CASE BeginRun
  <2>1. StoreTypeOK' /\ StoreLine'
    BY <1>1, <1>2, ModelTypes, BeginKeepsLine
  <2>2. held' = <<>> /\ UNCHANGED <<hops, admitted, sentMessages>>
    BY <1>2 DEF BeginRun
  <2>3. Plain(<<>>) /\ UpTo(<<>>, sentMessages) /\ Elsewhere(<<>>, hops) /\ Elsewhere(<<>>, admitted)
    BY NoMessages DEF Elsewhere
  <2>4. MessagesInOnePlace'
    BY <1>1, <2>2, <2>3 DEF MessagesInOnePlace
  <2> QED BY <2>1, <2>4 DEF StoreInv, StoreLine
<1>3. CASE BroadcastMessage
  BY <1>1, <1>3, ModelTypes, ModelKeepsLine, BroadcastKeepsMessages DEF StoreInv, StoreLine
<1>4. CASE OnStepCompleted \/ OnHandlerFailure
  BY <1>1, <1>4, ModelTypes, ModelKeepsLine, ReportKeepsMessages DEF StoreInv, StoreLine
<1>5. CASE StopRun \/ ModelReachesRun \/ CloseStore \/ AbandonSaves
  <2>1. StoreTypeOK' /\ StoreLine'
    BY <1>1, <1>5, ModelTypes, ModelKeepsLine
  <2>2. UNCHANGED <<held, hops, admitted, sentMessages>>
    BY <1>5 DEF StopRun, ModelReachesRun, CloseStore, AbandonSaves, runnerSide
  <2>3. MessagesInOnePlace'
    BY <1>1, <2>2 DEF MessagesInOnePlace
  <2> QED BY <2>1, <2>3 DEF StoreInv, StoreLine
<1>6. CASE LoopStep
  <2>1. StoreTypeOK'
    BY <1>1, <1>6, LoopTypes
  <2>2. StoreLine' /\ MessagesInOnePlace'
    BY <1>1, <1>6, RecordKeepsLine, FailKeepsLine, RecordKeepsMessages, FailKeepsMessages DEF LoopStep
  <2> QED BY <2>1, <2>2 DEF StoreInv, StoreLine
<1>7. CASE WriterStep
  <2>1. StoreTypeOK' /\ StoreLine'
    BY <1>1, <1>7, WriterTypes, WriterKeepsLine
  <2>2. UNCHANGED <<held, hops, admitted, sentMessages>>
    BY <1>1, <1>7, WriterStepIs DEF runnerSide
  <2>3. MessagesInOnePlace'
    BY <1>1, <2>2 DEF MessagesInOnePlace
  <2> QED BY <2>1, <2>3 DEF StoreInv, StoreLine
<1>8. CASE UNCHANGED storeVars
  <2>1. StoreTypeOK' /\ MessagesInOnePlace'
    BY <1>1, <1>8 DEF storeVars, StoreTypeOK, MessagesInOnePlace
  <2>2. StoreLine'
    BY <1>1, <1>8 DEF storeVars, StoreLine, StepsInLine, RangesAreLast, StepsAreNumbered, WorkerEnds,
                      SavedWereAdmitted
  <2> QED BY <2>1, <2>2 DEF StoreInv, StoreLine
<1> QED BY <1>2, <1>3, <1>4, <1>5, <1>6, <1>7, <1>8 DEF StoreNext

LEMMA StoreInvKeeps == StoreInv => StepsAreKept
<1> SUFFICES ASSUME StoreInv PROVE StepsAreKept
  OBVIOUS
<1>1. saves \in Seq(Steps) /\ admitted \in Seq(Steps)
  BY DEF StoreInv, StoreTypeOK
<1>2. DOMAIN saves = 1 .. Len(saves) /\ DOMAIN admitted = 1 .. Len(admitted)
  BY <1>1
<1>3. SavedInOrder
  <2>1. InOrder(saves)
    BY <1>2 DEF StoreInv, StepsInLine, Rising, InOrder
  <2>2. \A i \in DOMAIN saves : saves[i] \in {admitted[k] : k \in DOMAIN admitted}
    BY DEF StoreInv, SavedWereAdmitted, Items
  <2> QED BY <1>2, <2>1, <2>2 DEF SavedInOrder
<1>4. MessagesLandOnce
  <2> SUFFICES ASSUME NEW i \in 1 .. Len(admitted), NEW j \in 1 .. Len(admitted),
                      NEW a \in 1 .. Len(admitted[i].messages), NEW b \in 1 .. Len(admitted[j].messages),
                      admitted[i].messages[a] = admitted[j].messages[b]
               PROVE  i = j /\ a = b
    BY DEF MessagesLandOnce
  <2>1. admitted[i].messages \in Seq(Messages) /\ admitted[j].messages \in Seq(Messages)
    BY <1>1, <1>2, StepIs
  <2>2. a \in DOMAIN admitted[i].messages /\ b \in DOMAIN admitted[j].messages
    BY <2>1
  <2>3. i = j
    BY <1>2, <2>2 DEF StoreInv, MessagesInOnePlace, Carried, Apart
  <2>4. Plain(admitted[i].messages)
    BY <1>2 DEF StoreInv, MessagesInOnePlace, Carried
  <2> QED BY <2>2, <2>3, <2>4 DEF Plain
<1>5. FailedRangesAreSaved
  BY DEF StoreInv, WorkerEnds, FailedRangesAreSaved
<1> QED BY <1>3, <1>4, <1>5 DEF StepsAreKept

\* For any number of sessions, steps, reports and messages, any size of the save
\* queue and any saves that fail: the worker of step_results/store.py publishes
\* the steps of a session in the order of their numbers, each at most once and
\* only if it was admitted, a failed range after the steps queued ahead of it; a
\* message is in the result of one step at most; and a worker that ended without
\* being told to abandon its saves left no failed range.
THEOREM StepsSafe == StoreSpec => []StepsAreKept
BY StoreInvInit, StoreInvStep, StoreInvKeeps, PTL DEF StoreSpec

-------------------------------------------------------------------------------
(* Uploads: the store's slots, the bodies on their way and the commands    *)
(* that wait for them.                                                     *)

Bodies == [session : Nat, length : Nat]
Slots  == [there : BOOLEAN, session : Nat, size : Nat, data : Bodies]
Given  == [id : UploadIds, data : Bodies, whole : Nat]
Orders == [at : {"none", "resolving", "waiting", "woken", "submitted", "refused"}, session : Nat,
           refs : Seq(UploadIds), files : Seq(Given)]

UploadTypeOK ==
  /\ current \in Nat /\ serving \in BOOLEAN /\ minted \in SUBSET MintedIds
  /\ slots \in [UploadIds -> Slots]
  /\ filled \in [UploadIds -> SUBSET Commands]
  /\ DOMAIN puts = Puts
  /\ \A p \in Puts : puts[p].at = "reading" => puts[p].id \in UploadIds /\ puts[p].body \in Bodies
  /\ orders \in [Commands -> Orders]
  /\ \A k \in Commands : orders[k].at \in {"resolving", "waiting", "woken"} => orders[k].refs # <<>>

\* A slot is the running session's, and what it holds is what it declared.
SlotInSession(u) ==
  /\ slots[u].there => serving /\ slots[u].session = current /\ (u \in MintedIds => u \in minted)
  /\ ~slots[u].there => slots[u] = NoSlot
  /\ slots[u].data # NoData =>
       slots[u].data.length = slots[u].size /\ (u \in MintedIds => slots[u].data.session = slots[u].session)

\* A body under a minted id is for the slot it will find, if it finds one.
BodyFitsSlot(p) ==
  puts[p].at = "reading" /\ puts[p].id \in MintedIds =>
    /\ puts[p].id \in minted
    /\ slots[puts[p].id].there => puts[p].body.session = slots[puts[p].id].session

\* Who waits on an id's event is a command that waits for that id.
WaitsOnEvent(k) ==
  /\ orders[k].at = "waiting" => k \in filled[Head(orders[k].refs)] /\ ~Ready(Head(orders[k].refs))
  /\ \A u \in UploadIds : k \in filled[u] => orders[k].at = "waiting" /\ Head(orders[k].refs) = u

\* A minted id a command names was handed out in the command's session, if its
\* slot is there; what the command was given is whole.
NamesItsOwn(k) ==
  /\ \A i \in DOMAIN orders[k].refs :
       LET u == orders[k].refs[i] IN
       u \in MintedIds => u \in minted /\ (slots[u].there => slots[u].session = orders[k].session)
  /\ \A i \in DOMAIN orders[k].files :
       LET f == orders[k].files[i] IN
       /\ f.data # NoData /\ f.data.length = f.whole
       /\ f.id \in MintedIds => f.data.session = orders[k].session

UploadInv ==
  /\ UploadTypeOK
  /\ \A u \in UploadIds : SlotInSession(u)
  /\ \A p \in Puts : BodyFitsSlot(p)
  /\ \A k \in Commands : WaitsOnEvent(k) /\ NamesItsOwn(k)

LEMMA SlotIs ==
  ASSUME UploadTypeOK, NEW u \in UploadIds
  PROVE  /\ slots[u] \in Slots /\ slots[u].there \in BOOLEAN /\ slots[u].session \in Nat
         /\ slots[u].size \in Nat /\ slots[u].data \in Bodies /\ filled[u] \in SUBSET Commands
<1>1. slots[u] \in Slots /\ filled[u] \in SUBSET Commands
  BY DEF UploadTypeOK
<1> QED BY <1>1 DEF Slots

LEMMA OrderIs ==
  ASSUME UploadTypeOK, NEW k \in Commands
  PROVE  /\ orders[k] \in Orders /\ orders[k].session \in Nat
         /\ orders[k].refs \in Seq(UploadIds) /\ orders[k].files \in Seq(Given)
         /\ orders[k].at \in {"resolving", "waiting", "woken"} =>
              Head(orders[k].refs) \in UploadIds /\ orders[k].refs # <<>>
<1>1. orders[k] \in Orders
  BY DEF UploadTypeOK
<1>2. orders[k].session \in Nat /\ orders[k].refs \in Seq(UploadIds) /\ orders[k].files \in Seq(Given)
  BY <1>1 DEF Orders
<1>3. orders[k].at \in {"resolving", "waiting", "woken"} => orders[k].refs # <<>>
  BY DEF UploadTypeOK
<1> QED BY <1>1, <1>2, <1>3, TailIs

LEMMA NoSlotIs == NoSlot \in Slots /\ NoSlot.there = FALSE /\ NoSlot.data = NoData /\ NoSlot.session = 0 /\ NoData \in Bodies
BY DEF NoSlot, NoData, Slots, Bodies

\* Waking commands changes where they stand, and nothing else of theirs.
LEMMA WokenIs ==
  ASSUME UploadTypeOK, NEW W \in SUBSET Commands, \A k \in W : orders[k].at = "waiting"
  PROVE  /\ Woken(W) \in [Commands -> Orders]
         /\ \A k \in Commands :
              /\ Woken(W)[k].refs = orders[k].refs /\ Woken(W)[k].files = orders[k].files
              /\ Woken(W)[k].session = orders[k].session
              /\ k \in W => Woken(W)[k].at = "woken"
              /\ k \notin W => Woken(W)[k] = orders[k]
              /\ Woken(W)[k].at \in {"resolving", "waiting", "woken"} => Woken(W)[k].refs # <<>>
<1>1. \A k \in Commands : orders[k] \in Orders /\ [orders[k] EXCEPT !.at = "woken"] \in Orders
  BY DEF UploadTypeOK, Orders
<1>2. Woken(W) \in [Commands -> Orders]
  BY <1>1 DEF Woken
<1>3. ASSUME NEW k \in Commands
      PROVE  /\ Woken(W)[k].refs = orders[k].refs /\ Woken(W)[k].files = orders[k].files
             /\ Woken(W)[k].session = orders[k].session
             /\ k \in W => Woken(W)[k].at = "woken"
             /\ k \notin W => Woken(W)[k] = orders[k]
  <2>1. CASE k \in W
    <3>1. Woken(W)[k] = [orders[k] EXCEPT !.at = "woken"]
      BY <2>1 DEF Woken
    <3> QED BY <2>1, <3>1, <1>1 DEF Orders
  <2>2. CASE k \notin W
    BY <2>2 DEF Woken
  <2> QED BY <2>1, <2>2
<1>4. \A k \in Commands : Woken(W)[k].at \in {"resolving", "waiting", "woken"} => Woken(W)[k].refs # <<>>
  BY <1>3 DEF UploadTypeOK
<1> QED BY <1>2, <1>3, <1>4

\* The slot of the id a command names, if it is full, gives the command a whole
\* file of its own session.
LEMMA ResolvedIs ==
  ASSUME UploadInv, NEW k \in Commands, orders[k].at \in {"resolving", "woken"}, Ready(Head(orders[k].refs)),
         NEW o, o = Resolved(orders[k], Head(orders[k].refs))
  PROVE  /\ o \in Orders /\ o.session = orders[k].session /\ o.at \in {"resolving", "submitted"}
         /\ o.at = "resolving" => o.refs # <<>>
         /\ \A i \in DOMAIN o.refs : i + 1 \in DOMAIN orders[k].refs /\ o.refs[i] = orders[k].refs[i + 1]
         /\ \A i \in DOMAIN o.files :
              /\ o.files[i].data # NoData /\ o.files[i].data.length = o.files[i].whole
              /\ o.files[i].id \in MintedIds => o.files[i].data.session = o.session
<1> DEFINE u == Head(orders[k].refs)
           f == [id |-> u, data |-> slots[u].data, whole |-> slots[u].size]
<1> USE DEF UploadInv
<1>1. /\ orders[k] \in Orders /\ orders[k].session \in Nat
      /\ orders[k].refs \in Seq(UploadIds) /\ orders[k].files \in Seq(Given)
      /\ u \in UploadIds /\ orders[k].refs # <<>>
  BY OrderIs
<1>2. slots[u] \in Slots /\ slots[u].size \in Nat /\ slots[u].data \in Bodies
  BY <1>1, SlotIs
<1>3. f \in Given
  BY <1>1, <1>2 DEF Given
<1>4. o = [orders[k] EXCEPT !.files = Append(orders[k].files, f), !.refs = Tail(orders[k].refs),
                            !.at = IF Len(orders[k].refs) = 1 THEN "submitted" ELSE "resolving"]
  BY <1>1 DEF Resolved, Orders
<1>5. /\ o.files = Append(orders[k].files, f) /\ o.refs = Tail(orders[k].refs)
      /\ o.at = IF Len(orders[k].refs) = 1 THEN "submitted" ELSE "resolving"
      /\ o.session = orders[k].session
  BY <1>4, <1>1 DEF Orders
<1>6. Tail(orders[k].refs) \in Seq(UploadIds) /\ Append(orders[k].files, f) \in Seq(Given)
  BY <1>1, <1>3, TailIs, AppendIs
<1>7. o \in Orders
  BY <1>4, <1>1, <1>6 DEF Orders
<1>8. o.at = "resolving" => o.refs # <<>>
  <2>1. Len(Tail(orders[k].refs)) = Len(orders[k].refs) - 1 /\ Len(orders[k].refs) \in Nat
    BY <1>1, TailIs
  <2>2. CASE Len(orders[k].refs) = 1
    BY <2>2, <1>5
  <2>3. CASE Len(orders[k].refs) # 1
    <3>1. Len(Tail(orders[k].refs)) # 0
      BY <2>1, <2>3
    <3>2. Len(o.refs) # Len(<<>>)
      BY <3>1, <1>5, EmptyIs
    <3> QED BY <3>2
  <2> QED BY <2>2, <2>3
<1>9. \A i \in DOMAIN o.refs : i + 1 \in DOMAIN orders[k].refs /\ o.refs[i] = orders[k].refs[i + 1]
  <2>1. PICK r : r = orders[k].refs
    OBVIOUS
  <2>2. r \in Seq(UploadIds) /\ r # <<>>
    BY <2>1, <1>1
  <2>3. \A i \in DOMAIN Tail(r) : i + 1 \in DOMAIN r /\ Tail(r)[i] = r[i + 1]
    BY <2>2, TailIs
  <2>4. o.refs = Tail(r)
    BY <2>1, <1>5
  <2> QED BY <2>1, <2>3, <2>4
<1>10. /\ f.data # NoData /\ f.data.length = f.whole
       /\ f.id \in MintedIds => f.data.session = o.session
  <2>1. slots[u].there /\ slots[u].data # NoData
    BY DEF Ready
  <2>2. u = orders[k].refs[1] /\ 1 \in DOMAIN orders[k].refs
    BY <1>1, TailIs
  <2>3. u \in MintedIds => slots[u].session = orders[k].session
    BY <2>1, <2>2 DEF NamesItsOwn
  <2>4. /\ slots[u].data.length = slots[u].size
        /\ u \in MintedIds => slots[u].data.session = slots[u].session
    BY <1>1, <2>1 DEF SlotInSession
  <2> QED BY <2>1, <2>3, <2>4, <1>5
<1>11. ASSUME NEW i \in DOMAIN o.files
       PROVE  /\ o.files[i].data # NoData /\ o.files[i].data.length = o.files[i].whole
              /\ o.files[i].id \in MintedIds => o.files[i].data.session = o.session
  <2>1. \/ i \in DOMAIN orders[k].files /\ o.files[i] = orders[k].files[i]
        \/ o.files[i] = f
    BY <1>1, <1>3, <1>5, AppendIs
  <2>2. CASE i \in DOMAIN orders[k].files /\ o.files[i] = orders[k].files[i]
    BY <2>2, <1>5 DEF NamesItsOwn
  <2>3. CASE o.files[i] = f
    BY <2>3, <1>10
  <2> QED BY <2>1, <2>2, <2>3
<1> QED BY <1>5, <1>7, <1>8, <1>9, <1>11

-------------------------------------------------------------------------------
(* Each step keeps UploadInv.                                              *)

LEMMA UploadInvInit == UploadInit => UploadInv
<1> SUFFICES ASSUME UploadInit PROVE UploadInv
  OBVIOUS
<1> USE DEF UploadInit
<1>1. slots \in [UploadIds -> Slots] /\ (\A u \in UploadIds : slots[u] = NoSlot)
  BY NoSlotIs
<1>2. \A k \in Commands : orders[k] = [at |-> "none", session |-> 0, refs |-> <<>>, files |-> <<>>]
  OBVIOUS
<1>3. [at |-> "none", session |-> 0, refs |-> <<>>, files |-> <<>>] \in Orders
  BY EmptyIs DEF Orders
<1>4. orders \in [Commands -> Orders]
  BY <1>3
<1>5. \A p \in Puts : puts[p].at = "none"
  OBVIOUS
<1>6. UploadTypeOK
  BY <1>1, <1>2, <1>4, <1>5 DEF UploadTypeOK
<1>7. \A u \in UploadIds : SlotInSession(u)
  BY <1>1, NoSlotIs DEF SlotInSession
<1>8. \A p \in Puts : BodyFitsSlot(p)
  BY <1>5 DEF BodyFitsSlot
<1>9. \A k \in Commands : WaitsOnEvent(k)
  BY <1>2 DEF WaitsOnEvent
<1>10. \A k \in Commands : NamesItsOwn(k)
  BY <1>2, EmptyIs DEF NamesItsOwn
<1> QED BY <1>6, <1>7, <1>8, <1>9, <1>10 DEF UploadInv

\* A session starts on an empty store.
LEMMA OpensKeeps == UploadInv /\ SessionOpens => UploadInv'
<1> SUFFICES ASSUME UploadInv, SessionOpens PROVE UploadInv'
  OBVIOUS
<1> USE DEF UploadInv, SessionOpens
<1>1. \A u \in UploadIds : slots[u] = NoSlot
  <2>1. \A u \in UploadIds : ~slots[u].there
    BY DEF SlotInSession
  <2> QED BY <2>1 DEF SlotInSession
<1>2. UploadTypeOK'
  BY DEF UploadTypeOK
<1>3. \A u \in UploadIds : SlotInSession(u)'
  BY <1>1, NoSlotIs DEF SlotInSession
<1>4. \A p \in Puts : BodyFitsSlot(p)'
  BY DEF BodyFitsSlot
<1>5. \A k \in Commands : WaitsOnEvent(k)'
  BY DEF WaitsOnEvent, Ready
<1>6. \A k \in Commands : NamesItsOwn(k)'
  BY DEF NamesItsOwn
<1> QED BY <1>2, <1>3, <1>4, <1>5, <1>6

LEMMA ClosesKeeps == UploadInv /\ SessionCloses => UploadInv'
<1> SUFFICES ASSUME UploadInv, SessionCloses PROVE UploadInv'
  OBVIOUS
<1> USE DEF UploadInv, SessionCloses, Clears
<1> DEFINE W == UNION {filled[u] : u \in UploadIds}
<1>1. W \in SUBSET Commands
  BY SlotIs
<1>2. \A k \in W : orders[k].at = "waiting"
  BY <1>1 DEF WaitsOnEvent
<1>3. PICK V : V = W
  OBVIOUS
<1>4. /\ orders' \in [Commands -> Orders]
      /\ \A k \in Commands :
           /\ orders'[k].refs = orders[k].refs /\ orders'[k].files = orders[k].files
           /\ orders'[k].session = orders[k].session
           /\ k \in V => orders'[k].at = "woken"
           /\ k \notin V => orders'[k] = orders[k]
           /\ orders'[k].at \in {"resolving", "waiting", "woken"} => orders'[k].refs # <<>>
  <2>1. V \in SUBSET Commands /\ (\A k \in V : orders[k].at = "waiting")
    BY <1>1, <1>2, <1>3
  <2>2. orders' = Woken(V)
    BY <1>3
  <2>3. UploadTypeOK
    OBVIOUS
  <2> HIDE DEF W, UploadInv, SessionCloses, Clears
  <2> QED BY <2>1, <2>2, <2>3, WokenIs
<1>5. slots' \in [UploadIds -> Slots] /\ (\A u \in UploadIds : slots'[u] = NoSlot)
  BY NoSlotIs
<1>6. UploadTypeOK'
  BY <1>4, <1>5 DEF UploadTypeOK
<1>7. \A u \in UploadIds : SlotInSession(u)'
  BY <1>5, NoSlotIs DEF SlotInSession
<1>8. \A p \in Puts : BodyFitsSlot(p)'
  <2>1. \A p \in Puts : puts[p].at = "reading" => puts[p].id \in UploadIds
    BY DEF UploadTypeOK
  <2> QED BY <2>1, <1>5, NoSlotIs DEF BodyFitsSlot
<1>9. ASSUME NEW k \in Commands PROVE WaitsOnEvent(k)'
  <2>1. orders'[k].at # "waiting"
    <3>1. CASE k \in V
      BY <3>1, <1>4
    <3>2. CASE k \notin V
      <4>1. orders'[k] = orders[k]
        BY <3>2, <1>4
      <4>2. orders[k].at # "waiting"
        <5>1. SUFFICES ASSUME orders[k].at = "waiting" PROVE FALSE
          OBVIOUS
        <5>2. Head(orders[k].refs) \in UploadIds
          BY <5>1, OrderIs
        <5>3. k \in filled[Head(orders[k].refs)]
          BY <5>1 DEF WaitsOnEvent
        <5> QED BY <5>2, <5>3, <3>2, <1>3
      <4> QED BY <4>1, <4>2
    <3> QED BY <3>1, <3>2
  <2>2. \A u \in UploadIds : filled'[u] = {}
    OBVIOUS
  <2> QED BY <2>1, <2>2 DEF WaitsOnEvent
<1>10. ASSUME NEW k \in Commands PROVE NamesItsOwn(k)'
  <2>1. \A i \in DOMAIN orders[k].refs : orders[k].refs[i] \in UploadIds
    BY OrderIs
  <2> QED BY <2>1, <1>4, <1>5, NoSlotIs DEF NamesItsOwn
<1> QED BY <1>6, <1>7, <1>8, <1>9, <1>10

LEMMA CreateKeeps ==
  ASSUME UploadInv, NEW u \in UploadIds, NEW n \in Sizes, CreateSlot(u, n)
  PROVE  UploadInv'
<1> USE DEF UploadInv, CreateSlot
<1> DEFINE s == [there |-> TRUE, session |-> current, size |-> n, data |-> NoData]
<1>0. n \in Nat /\ current \in Nat /\ DOMAIN slots = UploadIds
  BY UploadAssumption DEF UploadTypeOK
<1>1. s \in Slots
  BY <1>0, NoSlotIs DEF Slots
<1>2. slots' = [slots EXCEPT ![u] = s]
  OBVIOUS
<1>3. slots'[u] = s /\ (\A v \in UploadIds : v # u => slots'[v] = slots[v])
  BY <1>0
<1>4. minted \subseteq minted' /\ (u \in MintedIds => u \in minted' /\ u \notin minted)
  OBVIOUS
<1>5. UploadTypeOK'
  BY <1>1, <1>2 DEF UploadTypeOK
<1>6. \A v \in UploadIds : SlotInSession(v)'
  BY <1>3, <1>4 DEF SlotInSession
<1>7. ASSUME NEW p \in Puts PROVE BodyFitsSlot(p)'
  <2>1. CASE puts[p].at = "reading" /\ puts[p].id \in MintedIds
    <3>1. puts[p].id \in minted /\ puts[p].id \in UploadIds
      BY <2>1 DEF BodyFitsSlot, UploadTypeOK
    <3>2. slots'[puts[p].id] = slots[puts[p].id]
      BY <3>1, <1>3
    <3> QED BY <3>1, <3>2, <1>4 DEF BodyFitsSlot
  <2> QED BY <2>1 DEF BodyFitsSlot
<1>8. ASSUME NEW k \in Commands PROVE WaitsOnEvent(k)'
  <2>1. CASE orders[k].at = "waiting"
    <3>1. Head(orders[k].refs) \in UploadIds
      BY <2>1, OrderIs
    <3>2. slots'[Head(orders[k].refs)] = slots[Head(orders[k].refs)] \/ slots'[Head(orders[k].refs)] = s
      BY <3>1, <1>3
    <3> QED BY <2>1, <3>2 DEF WaitsOnEvent, Ready
  <2> QED BY <2>1 DEF WaitsOnEvent
<1>9. ASSUME NEW k \in Commands PROVE NamesItsOwn(k)'
  <2>1. ASSUME NEW i \in DOMAIN orders[k].refs, orders[k].refs[i] \in MintedIds
        PROVE  /\ orders[k].refs[i] \in minted'
               /\ slots'[orders[k].refs[i]].there => slots'[orders[k].refs[i]].session = orders[k].session
    <3>1. orders[k].refs[i] \in UploadIds
      BY OrderIs
    <3>2. orders[k].refs[i] \in minted
      BY <2>1 DEF NamesItsOwn
    <3>3. slots'[orders[k].refs[i]] = slots[orders[k].refs[i]]
      BY <3>1, <3>2, <1>3
    <3> QED BY <2>1, <3>2, <3>3, <1>4 DEF NamesItsOwn
  <2> QED BY <2>1 DEF NamesItsOwn
<1> QED BY <1>5, <1>6, <1>7, <1>8, <1>9

LEMMA BeginPutKeeps ==
  ASSUME UploadInv, NEW p \in Puts, NEW u \in UploadIds, NEW n \in Sizes, BeginPut(p, u, n)
  PROVE  UploadInv'
<1> USE DEF UploadInv, BeginPut
<1> DEFINE b == [session |-> current, length |-> n]
<1>0. n \in Nat /\ current \in Nat /\ DOMAIN puts = Puts
  BY UploadAssumption DEF UploadTypeOK
<1>1. b \in Bodies
  BY <1>0 DEF Bodies
<1>2. /\ \/ puts'[p] = [at |-> "refused"]
         \/ puts'[p] = [at |-> "reading", id |-> u, body |-> b]
      /\ \A q \in Puts : q # p => puts'[q] = puts[q]
      /\ DOMAIN puts' = Puts
  BY <1>0
<1>3. \A q \in Puts : puts'[q].at = "reading" => puts'[q].id \in UploadIds /\ puts'[q].body \in Bodies
  BY <1>1, <1>2 DEF UploadTypeOK
<1>4. UploadTypeOK'
  BY <1>2, <1>3 DEF UploadTypeOK
<1>5. \A v \in UploadIds : SlotInSession(v)'
  BY DEF SlotInSession
<1>6. ASSUME NEW q \in Puts PROVE BodyFitsSlot(q)'
  <2>1. CASE puts'[q] = puts[q]
    BY <2>1 DEF BodyFitsSlot
  <2>2. CASE puts'[q].at = "refused"
    BY <2>2 DEF BodyFitsSlot
  <2>3. CASE puts'[q] = [at |-> "reading", id |-> u, body |-> b]
    <3>1. slots[u].session = current /\ (u \in MintedIds => u \in minted)
      BY DEF SlotInSession
    <3>2. puts'[q].id = u /\ puts'[q].body.session = current
      BY <2>3
    <3> QED BY <3>1, <3>2 DEF BodyFitsSlot
  <2> QED BY <2>1, <2>2, <2>3, <1>2
<1>7. \A k \in Commands : WaitsOnEvent(k)'
  BY DEF WaitsOnEvent, Ready
<1>8. \A k \in Commands : NamesItsOwn(k)'
  BY DEF NamesItsOwn
<1> QED BY <1>4, <1>5, <1>6, <1>7, <1>8

LEMMA EndPutKeeps ==
  ASSUME UploadInv, NEW p \in Puts, EndPut(p)
  PROVE  UploadInv'
<1> USE DEF UploadInv
<1>0. PICK u, body : u = puts[p].id /\ body = puts[p].body
  OBVIOUS
<1>1. u \in UploadIds /\ body \in Bodies /\ puts[p].at = "reading"
  BY <1>0 DEF EndPut, UploadTypeOK
<1>2. DOMAIN puts = Puts /\ DOMAIN slots = UploadIds /\ DOMAIN filled = UploadIds
  BY DEF UploadTypeOK
<1>3. /\ puts'[p].at \in {"stored", "refused"} /\ DOMAIN puts' = Puts
      /\ \A q \in Puts : q # p => puts'[q] = puts[q]
      /\ UNCHANGED <<current, serving, minted>>
  BY <1>2 DEF EndPut
<1>4. \A q \in Puts : puts'[q].at = "reading" => puts'[q] = puts[q]
  BY <1>3
<1>5. \A q \in Puts : puts'[q].at = "reading" => puts'[q].id \in UploadIds /\ puts'[q].body \in Bodies
  BY <1>4 DEF UploadTypeOK
<1>6. CASE ~Takes(slots[u], body)
  <2>1. UNCHANGED <<slots, orders, filled>>
    BY <1>0, <1>6 DEF EndPut
  <2>2. UploadTypeOK'
    BY <1>3, <1>5, <2>1 DEF UploadTypeOK
  <2>3. \A v \in UploadIds : SlotInSession(v)'
    BY <1>3, <2>1 DEF SlotInSession
  <2>4. \A q \in Puts : BodyFitsSlot(q)'
    BY <1>3, <1>4, <2>1 DEF BodyFitsSlot
  <2>5. \A k \in Commands : WaitsOnEvent(k)'
    BY <2>1 DEF WaitsOnEvent, Ready
  <2>6. \A k \in Commands : NamesItsOwn(k)'
    BY <2>1, <1>3 DEF NamesItsOwn
  <2> QED BY <2>2, <2>3, <2>4, <2>5, <2>6
<1>7. CASE Takes(slots[u], body)
  <2>1. /\ slots' = [slots EXCEPT ![u].data = body] /\ orders' = Woken(filled[u])
        /\ filled' = [filled EXCEPT ![u] = {}]
    BY <1>0, <1>7 DEF EndPut
  <2>2. slots[u] \in Slots /\ filled[u] \in SUBSET Commands
    BY <1>1, SlotIs
  <2>3. slots'[u] = [slots[u] EXCEPT !.data = body] /\ (\A v \in UploadIds : v # u => slots'[v] = slots[v])
    BY <1>1, <1>2, <2>1
  <2>4. slots'[u] \in Slots
    BY <1>1, <2>2, <2>3 DEF Slots
  <2>5. /\ slots'[u].there = slots[u].there /\ slots'[u].session = slots[u].session
        /\ slots'[u].size = slots[u].size /\ slots'[u].data = body
    BY <2>2, <2>3 DEF Slots
  <2>6. slots' \in [UploadIds -> Slots]
    BY <1>1, <2>1, <2>4, <2>3 DEF UploadTypeOK
  <2>7. PICK V : V = filled[u]
    OBVIOUS
  <2>8. V \in SUBSET Commands /\ (\A k \in V : orders[k].at = "waiting" /\ Head(orders[k].refs) = u)
    BY <1>1, <2>2, <2>7 DEF WaitsOnEvent
  <2>9. /\ orders' \in [Commands -> Orders]
        /\ \A k \in Commands :
             /\ orders'[k].refs = orders[k].refs /\ orders'[k].files = orders[k].files
             /\ orders'[k].session = orders[k].session
             /\ k \in V => orders'[k].at = "woken"
             /\ k \notin V => orders'[k] = orders[k]
             /\ orders'[k].at \in {"resolving", "waiting", "woken"} => orders'[k].refs # <<>>
    <3>1. orders' = Woken(V) /\ UploadTypeOK
      BY <2>1, <2>7
    <3> HIDE DEF UploadInv
    <3> QED BY <3>1, <2>8, WokenIs
  <2>10. filled'[u] = {} /\ (\A v \in UploadIds : v # u => filled'[v] = filled[v])
    BY <1>1, <1>2, <2>1
  <2>11. filled' \in [UploadIds -> SUBSET Commands]
    BY <2>1 DEF UploadTypeOK
  <2>12. UploadTypeOK'
    BY <1>3, <1>5, <2>6, <2>9, <2>11 DEF UploadTypeOK
  <2>13. ASSUME NEW v \in UploadIds PROVE SlotInSession(v)'
    <3>1. CASE v # u
      BY <3>1, <1>3, <2>3 DEF SlotInSession
    <3>2. CASE v = u
      <4>1. slots[u].there /\ body.length = slots[u].size
        BY <1>7 DEF Takes
      <4>2. u \in MintedIds => body.session = slots[u].session
        BY <1>0, <1>1, <4>1 DEF BodyFitsSlot
      <4>3. serving /\ slots[u].session = current /\ (u \in MintedIds => u \in minted)
        BY <1>1, <4>1 DEF SlotInSession
      <4> QED BY <3>2, <4>1, <4>2, <4>3, <2>5, <1>3 DEF SlotInSession
    <3> QED BY <3>1, <3>2
  <2>14. ASSUME NEW q \in Puts PROVE BodyFitsSlot(q)'
    <3>1. CASE puts'[q].at = "reading" /\ puts'[q].id \in MintedIds
      <4>1. puts'[q] = puts[q] /\ puts[q].id \in UploadIds
        BY <3>1, <1>4, <1>5
      <4>2. slots'[puts[q].id].there = slots[puts[q].id].there /\ slots'[puts[q].id].session = slots[puts[q].id].session
        BY <4>1, <2>3, <2>5
      <4> QED BY <3>1, <4>1, <4>2, <1>3 DEF BodyFitsSlot
    <3> QED BY <3>1 DEF BodyFitsSlot
  <2>15. ASSUME NEW k \in Commands PROVE WaitsOnEvent(k)'
    <3>1. CASE k \in V
      <4>1. orders'[k].at = "woken"
        BY <3>1, <2>9
      <4>2. \A v \in UploadIds : k \notin filled'[v]
        BY <3>1, <2>8, <2>10 DEF WaitsOnEvent
      <4> QED BY <4>1, <4>2 DEF WaitsOnEvent
    <3>2. CASE k \notin V
      <4>1. orders'[k] = orders[k]
        BY <3>2, <2>9
      <4>2. \A v \in UploadIds : k \in filled'[v] => orders[k].at = "waiting" /\ Head(orders[k].refs) = v
        BY <2>10 DEF WaitsOnEvent
      <4>3. ASSUME orders[k].at = "waiting"
            PROVE  k \in filled'[Head(orders[k].refs)] /\ ~Ready(Head(orders[k].refs))'
        <5>1. Head(orders[k].refs) \in UploadIds
          BY <4>3, OrderIs
        <5>2. k \in filled[Head(orders[k].refs)] /\ ~Ready(Head(orders[k].refs))
          BY <4>3 DEF WaitsOnEvent
        <5>3. Head(orders[k].refs) # u
          BY <5>2, <3>2, <2>7
        <5>4. slots'[Head(orders[k].refs)] = slots[Head(orders[k].refs)]
          BY <5>1, <5>3, <2>3
        <5>5. k \in filled'[Head(orders[k].refs)]
          BY <5>1, <5>2, <5>3, <2>10
        <5> QED BY <5>2, <5>4, <5>5, <4>1 DEF Ready
      <4> QED BY <4>1, <4>2, <4>3 DEF WaitsOnEvent, Ready
    <3> QED BY <3>1, <3>2
  <2>16. ASSUME NEW k \in Commands PROVE NamesItsOwn(k)'
    <3>1. ASSUME NEW i \in DOMAIN orders[k].refs
          PROVE  /\ slots'[orders[k].refs[i]].there = slots[orders[k].refs[i]].there
                 /\ slots'[orders[k].refs[i]].session = slots[orders[k].refs[i]].session
      <4>1. orders[k].refs[i] \in UploadIds
        BY OrderIs
      <4> QED BY <4>1, <2>3, <2>5
    <3> QED BY <3>1, <2>9, <1>3 DEF NamesItsOwn
  <2> QED BY <2>12, <2>13, <2>14, <2>15, <2>16
<1> QED BY <1>6, <1>7

\* A step of one command that leaves the store as it is: the other commands are
\* not touched, and this one's new state has to fit.
LEMMA CommandKeeps ==
  ASSUME UploadInv, NEW k \in Commands, NEW o \in Orders, orders' = [orders EXCEPT ![k] = o],
         UNCHANGED <<current, serving, slots, minted, puts>>,
         filled' \in [UploadIds -> SUBSET Commands],
         \A j \in Commands, u \in UploadIds : j # k => (j \in filled'[u] <=> j \in filled[u]),
         o.at \in {"resolving", "waiting", "woken"} => o.refs # <<>>,
         o.at = "waiting" => k \in filled'[Head(o.refs)] /\ ~Ready(Head(o.refs)),
         \A u \in UploadIds : k \in filled'[u] => o.at = "waiting" /\ Head(o.refs) = u,
         \A i \in DOMAIN o.refs : o.refs[i] \in MintedIds =>
           o.refs[i] \in minted /\ (slots[o.refs[i]].there => slots[o.refs[i]].session = o.session),
         \A i \in DOMAIN o.files :
           /\ o.files[i].data # NoData /\ o.files[i].data.length = o.files[i].whole
           /\ o.files[i].id \in MintedIds => o.files[i].data.session = o.session
  PROVE  UploadInv'
<1> USE DEF UploadInv
<1>1. orders'[k] = o /\ (\A j \in Commands : j # k => orders'[j] = orders[j])
  BY DEF UploadTypeOK
<1>2. orders' \in [Commands -> Orders]
  BY DEF UploadTypeOK
<1>3. \A j \in Commands : orders'[j].at \in {"resolving", "waiting", "woken"} => orders'[j].refs # <<>>
  BY <1>1 DEF UploadTypeOK
<1>4. UploadTypeOK'
  BY <1>2, <1>3 DEF UploadTypeOK
<1>5. \A u \in UploadIds : SlotInSession(u)'
  BY DEF SlotInSession
<1>6. \A p \in Puts : BodyFitsSlot(p)'
  BY DEF BodyFitsSlot
<1>7. ASSUME NEW j \in Commands PROVE WaitsOnEvent(j)'
  <2>1. CASE j = k
    BY <2>1, <1>1 DEF WaitsOnEvent, Ready
  <2>2. CASE j # k
    <3>1. orders'[j] = orders[j]
      BY <2>2, <1>1
    <3>2. \A u \in UploadIds : j \in filled'[u] => orders[j].at = "waiting" /\ Head(orders[j].refs) = u
      BY <2>2 DEF WaitsOnEvent
    <3>3. orders[j].at = "waiting" => j \in filled'[Head(orders[j].refs)] /\ ~Ready(Head(orders[j].refs))
      <4>1. orders[j].at = "waiting" => Head(orders[j].refs) \in UploadIds
        BY OrderIs
      <4> QED BY <4>1, <2>2 DEF WaitsOnEvent
    <3> QED BY <3>1, <3>2, <3>3 DEF WaitsOnEvent, Ready
  <2> QED BY <2>1, <2>2
<1>8. ASSUME NEW j \in Commands PROVE NamesItsOwn(j)'
  <2>1. CASE j = k
    BY <2>1, <1>1 DEF NamesItsOwn
  <2>2. CASE j # k
    BY <2>2, <1>1 DEF NamesItsOwn
  <2> QED BY <2>1, <2>2
<1> QED BY <1>4, <1>5, <1>6, <1>7, <1>8

LEMMA BeginCommandKeeps ==
  ASSUME UploadInv, NEW k \in Commands, NEW refs \in Seq(UploadIds), refs # <<>>, BeginCommand(k, refs)
  PROVE  UploadInv'
<1> USE DEF UploadInv
<1>1. PICK o : o = [at |-> "resolving", session |-> current, refs |-> refs, files |-> <<>>]
  OBVIOUS
<1>2. o.at = "resolving" /\ o.session = current /\ o.refs = refs /\ o.files = <<>>
  BY <1>1
<1>3. o \in Orders
  BY <1>1, EmptyIs DEF Orders, UploadTypeOK
<1>4. orders' = [orders EXCEPT ![k] = o] /\ UNCHANGED <<current, serving, slots, minted, filled, puts>>
  BY <1>1 DEF BeginCommand
<1>5. filled' \in [UploadIds -> SUBSET Commands]
  BY <1>4 DEF UploadTypeOK
<1>6. \A u \in UploadIds : k \notin filled'[u]
  BY <1>4 DEF WaitsOnEvent, BeginCommand
<1>7. ASSUME NEW i \in DOMAIN o.refs, o.refs[i] \in MintedIds
      PROVE  o.refs[i] \in minted /\ (slots[o.refs[i]].there => slots[o.refs[i]].session = o.session)
  <2>1. i \in 1 .. Len(refs) /\ refs[i] \in UploadIds
    BY <1>2
  <2>2. refs[i] \in ChosenIds \cup minted
    BY <2>1 DEF BeginCommand
  <2>3. refs[i] \in minted
    BY <2>2, <1>2, <1>7, UploadAssumption
  <2>4. slots[refs[i]].there => slots[refs[i]].session = current
    BY <2>1 DEF SlotInSession
  <2> QED BY <1>2, <2>3, <2>4
<1>8. DOMAIN o.files = {}
  BY <1>2, EmptyIs
<1> HIDE DEF UploadInv
<1> QED BY <1>2, <1>3, <1>4, <1>5, <1>6, <1>7, <1>8, CommandKeeps

\* A command whose bytes are there takes them.
LEMMA ResolvedKeeps ==
  ASSUME UploadInv, NEW k \in Commands, orders[k].at \in {"resolving", "woken"}, Ready(Head(orders[k].refs)),
         orders' = [orders EXCEPT ![k] = Resolved(@, Head(orders[k].refs))],
         UNCHANGED <<current, serving, slots, minted, filled, puts>>
  PROVE  UploadInv'
<1>1. PICK o : o = Resolved(orders[k], Head(orders[k].refs))
  OBVIOUS
<1>2. /\ o \in Orders /\ o.session = orders[k].session /\ o.at \in {"resolving", "submitted"}
      /\ o.at = "resolving" => o.refs # <<>>
      /\ \A i \in DOMAIN o.refs : i + 1 \in DOMAIN orders[k].refs /\ o.refs[i] = orders[k].refs[i + 1]
      /\ \A i \in DOMAIN o.files :
           /\ o.files[i].data # NoData /\ o.files[i].data.length = o.files[i].whole
           /\ o.files[i].id \in MintedIds => o.files[i].data.session = o.session
  BY <1>1, ResolvedIs
<1>3. orders' = [orders EXCEPT ![k] = o]
  BY <1>1
<1>4. filled' \in [UploadIds -> SUBSET Commands] /\ filled' = filled
  BY DEF UploadInv, UploadTypeOK
<1>5. \A u \in UploadIds : k \notin filled'[u]
  BY <1>4 DEF WaitsOnEvent, UploadInv
<1>6. ASSUME NEW i \in DOMAIN o.refs, o.refs[i] \in MintedIds
      PROVE  o.refs[i] \in minted /\ (slots[o.refs[i]].there => slots[o.refs[i]].session = o.session)
  <2>1. i + 1 \in DOMAIN orders[k].refs /\ o.refs[i] = orders[k].refs[i + 1]
    BY <1>2
  <2>2. PICK h : h = i + 1
    OBVIOUS
  <2>3. h \in DOMAIN orders[k].refs /\ o.refs[i] = orders[k].refs[h]
    BY <2>1, <2>2
  <2>4. NamesItsOwn(k)
    BY DEF UploadInv
  <2> QED BY <2>3, <2>4, <1>2, <1>6 DEF NamesItsOwn
<1>7. o.at # "waiting" /\ (o.at \in {"resolving", "waiting", "woken"} => o.refs # <<>>)
  BY <1>2
<1> QED BY <1>2, <1>3, <1>4, <1>5, <1>6, <1>7, CommandKeeps

LEMMA FetchKeeps ==
  ASSUME UploadInv, NEW k \in Commands, Fetch(k)
  PROVE  UploadInv'
<1>1. CASE Ready(Head(orders[k].refs))
  <2>1. /\ orders[k].at \in {"resolving", "woken"}
        /\ orders' = [orders EXCEPT ![k] = Resolved(@, Head(orders[k].refs))]
        /\ UNCHANGED <<current, serving, slots, minted, filled, puts>>
    BY <1>1 DEF Fetch
  <2> QED BY <1>1, <2>1, ResolvedKeeps
<1>2. CASE ~Ready(Head(orders[k].refs))
  <2>0. PICK u : u = Head(orders[k].refs)
    OBVIOUS
  <2>1. /\ orders[k].at = "resolving" /\ orders' = [orders EXCEPT ![k].at = "waiting"]
        /\ filled' = [filled EXCEPT ![u] = @ \cup {k}]
        /\ UNCHANGED <<current, serving, slots, minted, puts>>
    BY <1>2, <2>0 DEF Fetch
  <2>2. PICK o : o = [orders[k] EXCEPT !.at = "waiting"]
    OBVIOUS
  <2>3. /\ o \in Orders /\ o.at = "waiting" /\ o.refs = orders[k].refs
        /\ \A i \in DOMAIN o.refs : o.refs[i] \in MintedIds =>
             o.refs[i] \in minted /\ (slots[o.refs[i]].there => slots[o.refs[i]].session = o.session)
        /\ \A i \in DOMAIN o.files :
             /\ o.files[i].data # NoData /\ o.files[i].data.length = o.files[i].whole
             /\ o.files[i].id \in MintedIds => o.files[i].data.session = o.session
    <3>1. orders[k] \in Orders /\ NamesItsOwn(k)
      BY DEF UploadInv, UploadTypeOK
    <3>2. o \in Orders
      BY <3>1, <2>2 DEF Orders
    <3>3. o.at = "waiting" /\ o.refs = orders[k].refs /\ o.files = orders[k].files /\ o.session = orders[k].session
      BY <3>1, <2>2 DEF Orders
    <3> QED BY <3>1, <3>2, <3>3 DEF NamesItsOwn
  <2>4. orders' = [orders EXCEPT ![k] = o]
    BY <2>1, <2>2
  <2>5. u \in UploadIds /\ o.refs # <<>>
    <3>1. UploadTypeOK
      BY DEF UploadInv
    <3> QED BY <3>1, <2>0, <2>1, <2>3, OrderIs
  <2>6. filled \in [UploadIds -> SUBSET Commands]
    BY DEF UploadInv, UploadTypeOK
  <2>7. filled'[u] = filled[u] \cup {k} /\ (\A v \in UploadIds : v # u => filled'[v] = filled[v])
    BY <2>1, <2>5, <2>6
  <2>8. filled' \in [UploadIds -> SUBSET Commands]
    BY <2>1, <2>5, <2>6
  <2>9. \A j \in Commands, v \in UploadIds : j # k => (j \in filled'[v] <=> j \in filled[v])
    BY <2>7
  <2>10. \A v \in UploadIds : k \notin filled[v]
    BY <2>1 DEF UploadInv, WaitsOnEvent
  <2>11. \A v \in UploadIds : k \in filled'[v] => o.at = "waiting" /\ Head(o.refs) = v
    BY <2>7, <2>10, <2>3, <2>0
  <2>12. k \in filled'[Head(o.refs)] /\ ~Ready(Head(o.refs))
    BY <2>7, <2>3, <2>0, <1>2
  <2> QED BY <2>1, <2>3, <2>4, <2>5, <2>8, <2>9, <2>11, <2>12, CommandKeeps
<1> QED BY <1>1, <1>2

\* A command that gives up waits on no event any more.
LEMMA RefusedKeeps ==
  ASSUME UploadInv, NEW k \in Commands, orders' = [orders EXCEPT ![k].at = "refused"],
         UNCHANGED <<current, serving, slots, minted, puts>>,
         filled' = [u \in UploadIds |-> filled[u] \ {k}]
  PROVE  UploadInv'
<1>1. PICK o : o = [orders[k] EXCEPT !.at = "refused"]
  OBVIOUS
<1>2. /\ o \in Orders /\ o.at = "refused"
      /\ \A i \in DOMAIN o.refs : o.refs[i] \in MintedIds =>
           o.refs[i] \in minted /\ (slots[o.refs[i]].there => slots[o.refs[i]].session = o.session)
      /\ \A i \in DOMAIN o.files :
           /\ o.files[i].data # NoData /\ o.files[i].data.length = o.files[i].whole
           /\ o.files[i].id \in MintedIds => o.files[i].data.session = o.session
  <2>1. orders[k] \in Orders /\ NamesItsOwn(k)
    BY DEF UploadInv, UploadTypeOK
  <2>2. o \in Orders
    BY <2>1, <1>1 DEF Orders
  <2>3. o.at = "refused" /\ o.refs = orders[k].refs /\ o.files = orders[k].files /\ o.session = orders[k].session
    BY <2>1, <1>1 DEF Orders
  <2> QED BY <2>1, <2>2, <2>3 DEF NamesItsOwn
<1>3. orders' = [orders EXCEPT ![k] = o]
  BY <1>1
<1>4. filled' \in [UploadIds -> SUBSET Commands]
  BY DEF UploadInv, UploadTypeOK
<1>5. \A j \in Commands, u \in UploadIds : j # k => (j \in filled'[u] <=> j \in filled[u])
  OBVIOUS
<1>6. \A u \in UploadIds : k \notin filled'[u]
  OBVIOUS
<1> QED BY <1>2, <1>3, <1>4, <1>5, <1>6, CommandKeeps

LEMMA WakesKeeps ==
  ASSUME UploadInv, NEW k \in Commands, FetchWakes(k)
  PROVE  UploadInv'
<1>1. /\ orders[k].at \in {"resolving", "woken"} /\ orders[k].at # "waiting"
      /\ UNCHANGED <<current, serving, slots, minted, filled, puts>>
  BY DEF FetchWakes
<1>2. CASE Ready(Head(orders[k].refs))
  <2>1. orders' = [orders EXCEPT ![k] = Resolved(@, Head(orders[k].refs))]
    BY <1>2 DEF FetchWakes
  <2> QED BY <1>1, <1>2, <2>1, ResolvedKeeps
<1>3. CASE ~Ready(Head(orders[k].refs))
  <2>1. orders' = [orders EXCEPT ![k] = [@ EXCEPT !.at = "refused"]]
    BY <1>3 DEF FetchWakes
  <2>2. orders' = [orders EXCEPT ![k].at = "refused"]
    BY <2>1
  <2>3. filled \in [UploadIds -> SUBSET Commands] /\ (\A u \in UploadIds : k \notin filled[u])
    BY <1>1 DEF UploadInv, UploadTypeOK, WaitsOnEvent
  <2>4. filled' = [u \in UploadIds |-> filled[u] \ {k}]
    BY <1>1, <2>3
  <2> QED BY <1>1, <2>2, <2>4, RefusedKeeps
<1> QED BY <1>2, <1>3

LEMMA UploadInvStep == UploadInv /\ [UploadNext]_uploadVars => UploadInv'
<1> SUFFICES ASSUME UploadInv, [UploadNext]_uploadVars PROVE UploadInv'
  OBVIOUS
<1>1. CASE SessionOpens \/ SessionCloses
  BY <1>1, OpensKeeps, ClosesKeeps
<1>2. CASE \E u \in UploadIds, n \in Sizes : CreateSlot(u, n) \/ \E p \in Puts : BeginPut(p, u, n)
  BY <1>2, CreateKeeps, BeginPutKeeps
<1>3. CASE \E p \in Puts : EndPut(p)
  BY <1>3, EndPutKeeps
<1>4. ASSUME NEW k \in Commands, NEW refs \in {<<u>> : u \in UploadIds} \cup (UploadIds \X UploadIds),
             BeginCommand(k, refs)
      PROVE  UploadInv'
  <2>1. CASE refs \in {<<u>> : u \in UploadIds}
    <3>1. PICK u \in UploadIds : refs = <<u>>
      BY <2>1
    <3>2. refs \in Seq(UploadIds) /\ refs # <<>>
      BY <3>1
    <3> QED BY <1>4, <3>2, BeginCommandKeeps
  <2>2. CASE refs \in UploadIds \X UploadIds
    <3>1. PICK u \in UploadIds, v \in UploadIds : refs = <<u, v>>
      BY <2>2
    <3>2. refs \in Seq(UploadIds) /\ refs # <<>>
      BY <3>1
    <3> QED BY <1>4, <3>2, BeginCommandKeeps
  <2> QED BY <2>1, <2>2
<1>5. ASSUME NEW k \in Commands, Fetch(k) \/ FetchWakes(k) \/ FetchTimesOut(k)
      PROVE  UploadInv'
  <2>1. CASE Fetch(k)
    BY <2>1, FetchKeeps
  <2>2. CASE FetchWakes(k)
    BY <2>2, WakesKeeps
  <2>3. CASE FetchTimesOut(k)
    BY <2>3, RefusedKeeps DEF FetchTimesOut
  <2> QED BY <1>5, <2>1, <2>2, <2>3
<1>6. CASE UNCHANGED uploadVars
  <2> USE <1>6 DEF uploadVars
  <2>1. UploadTypeOK'
    BY DEF UploadInv, UploadTypeOK
  <2>2. \A u \in UploadIds : SlotInSession(u)'
    BY DEF UploadInv, SlotInSession
  <2>3. \A p \in Puts : BodyFitsSlot(p)'
    BY DEF UploadInv, BodyFitsSlot
  <2>4. \A k \in Commands : WaitsOnEvent(k)'
    BY DEF UploadInv, WaitsOnEvent, Ready
  <2>5. \A k \in Commands : NamesItsOwn(k)'
    BY DEF UploadInv, NamesItsOwn
  <2> QED BY <2>1, <2>2, <2>3, <2>4, <2>5 DEF UploadInv
<1> QED BY <1>1, <1>2, <1>3, <1>4, <1>5, <1>6 DEF UploadNext

LEMMA UploadInvArrives == UploadInv => UploadsArrive
<1> SUFFICES ASSUME UploadInv PROVE UploadsArrive
  OBVIOUS
<1>1. ASSUME NEW k \in Commands, orders[k].at = "waiting"
      PROVE  ~Ready(Head(orders[k].refs)) /\ slots[Head(orders[k].refs)].session \in {0, current}
  <2>1. PICK u : u = Head(orders[k].refs)
    OBVIOUS
  <2>2. UploadTypeOK
    BY DEF UploadInv
  <2>3. u \in UploadIds
    BY <1>1, <2>1, <2>2, OrderIs
  <2>4. slots[u].session \in {0, current}
    BY <2>3, NoSlotIs DEF UploadInv, SlotInSession
  <2> QED BY <1>1, <2>1, <2>4 DEF UploadInv, WaitsOnEvent
<1>2. ASSUME NEW k \in Commands, NEW i \in 1 .. Len(orders[k].files)
      PROVE  /\ orders[k].files[i].data # NoData
             /\ orders[k].files[i].data.length = orders[k].files[i].whole
             /\ orders[k].files[i].id \in MintedIds => orders[k].files[i].data.session = orders[k].session
  <2>1. UploadTypeOK /\ NamesItsOwn(k)
    BY DEF UploadInv
  <2>2. orders[k].files \in Seq(Given)
    BY <2>1, OrderIs
  <2>3. i \in DOMAIN orders[k].files
    BY <2>2
  <2> QED BY <2>1, <2>3 DEF NamesItsOwn
<1> QED BY <1>1, <1>2 DEF UploadsArrive, NoWaitForHeldBytes, FilesAreWhole

\* No command waits for bytes the store holds, and every file a command was given
\* is whole and, under an id the store minted, of the command's own session: for
\* any number of sessions, PUTs, commands, ids and sizes (upload_store.py).
THEOREM UploadsSafe == UploadSpec => []UploadsArrive
BY UploadInvInit, UploadInvStep, UploadInvArrives, PTL DEF UploadSpec

-------------------------------------------------------------------------------
(* The recorder: its types and its inductive invariant.                    *)

Hands    == [at : {"none", "idle", "checked", "built", "holding", "writing", "done"}, frame : Nat, enc : Nat]
Encoders == [dir : Nat, pos : Nat, stopped : BOOLEAN, failed : BOOLEAN, by : Nat]
Folders  == [there : BOOLEAN, segs : Nat, marks : SUBSET {"complete", "incomplete"}, from : SUBSET Nat]
Quiet    == {"none", "queued", "over"}
StopAt   == Quiet \cup {"joining", "closing", "complete", "incomplete"} \cup Marked
Notices  == [run : Recordings, at : Nat, clip : BOOLEAN]

\* The frames on their way to a file; a feed is of an encoder that was made.
FeedOK ==
  /\ encoders \in Seq(Encoders) /\ encoder \in 0 .. Len(encoders) /\ feedQueue \in Seq(Nat)
  /\ feeder \in [Recordings -> Hands] /\ emitting \in Hands /\ fed \in Nat
  /\ \A r \in Recordings : feeder[r].at \in {"holding", "writing"} => feeder[r].enc \in 1 .. Len(encoders)

RecorderTypeOK ==
  /\ posted \in Nat /\ posted <= MaxRecordings /\ open \in BOOLEAN /\ starting \in {"no", "reset", "claimed"}
  /\ started \in BOOLEAN /\ overlapped \in BOOLEAN /\ repeated \in BOOLEAN
  /\ run \in Nat /\ ids \in [Recordings -> Recordings \cup {0}] /\ folder \in Nat /\ dirs \in [Recordings -> Folders]
  /\ watch \in [Recordings -> {"none", "idle", "done"}] /\ stops \in [Recordings -> StopAt]
  /\ nextChunk \in Nat /\ clips \in SUBSET Nat /\ hands \in [Threads -> SUBSET Notices]
  /\ announced \in [Recordings -> SUBSET Nat] /\ fired \in SUBSET Notices

\* The directory of the moment is the last claim's, and there while it is recorded
\* into; nothing was said of a session that has claimed none.
ClaimsInStep ==
  /\ run <= posted /\ (starting = "reset" => run < posted) /\ (starting = "claimed" => run = posted)
  /\ (starting # "no" => ~started) /\ (open => posted # 0)
  /\ folder = (IF run = 0 THEN 0 ELSE ids[run])
  /\ (run # 0 => ids[run] \in Recordings)
  /\ \A q \in Recordings : q > run => ids[q] = 0 /\ announced[q] = {}
  /\ \A t \in Threads : \A n \in hands[t] : n.run <= run
  /\ \A f \in fired : f.run <= run
  /\ (started \/ starting = "claimed" => run # 0 /\ dirs[folder].there)

\* Only a thread that may report has anything in hand, and a session that is open
\* has no stop.
HandsAreHeld ==
  /\ \A r \in Recordings : hands[<<"watch", r>>] # {} => watch[r] = "idle"
  /\ \A r \in Recordings : hands[<<"stop", r>>] # {} => stops[r] \in {"announcing", "firing"}
  /\ \A r \in Recordings : r > posted \/ (r = posted /\ open) => stops[r] = "none"

\* What was claimed, announced or reported is closed for as long as its directory is
\* its session's.
SaidIsClosed ==
  /\ \A t \in Threads : \A n \in hands[t] : Kept(n.run) => Closed(ids[n.run], n.at)
  /\ \A f \in fired : Kept(f.run) => Closed(ids[f.run], f.at)
  /\ \A r \in Recordings : \A i \in announced[r] : Kept(r) => Closed(ids[r], i)

\* While a start is under way nobody reports, and nothing is claimed.
StartsAlone ==
  starting # "no" => nextChunk = 0 /\ \A r \in Recordings : ~Reporting(r)

\* The segments below the count are the running session's, each announced or in one
\* hand.
CountIsKept ==
  starting # "reset" /\ run # 0 =>
    /\ \A i \in announced[run] : i < nextChunk
    /\ \A i \in Nat : i < nextChunk => i \in announced[run] \/ InHand(run, i)
    /\ \A t \in Threads : \A n \in hands[t] : ~n.clip => n.at < nextChunk /\ n.at \notin announced[run]
    /\ \A t, u \in Threads : t # u =>
         \A n \in hands[t], m \in hands[u] : ~n.clip /\ ~m.clip => n.at # m.at

\* What is in hand is the running session's, and of an earlier one nothing was
\* passed over.
EarlierAreWhole ==
  /\ \A t \in Threads : \A n \in hands[t] : n.run = run
  /\ \A r \in Recordings : r # run \/ starting = "reset" =>
       \A i \in announced[r] : \A j \in Nat : j <= i => j \in announced[r]

\* The running session's directory is marked by a stop under way.
MarkedByItsStop ==
  /\ (starting = "claimed" => dirs[folder].marks = {})
  /\ (started => dirs[folder].marks = {} \/ \E s \in Recordings : stops[s] \in Marked)

InOneRun == StartsAlone /\ CountIsKept /\ EarlierAreWhole /\ MarkedByItsStop /\ ~repeated

ClaimsOK    == RecorderTypeOK /\ ClaimsInStep /\ HandsAreHeld /\ SaidIsClosed /\ (overlapped \/ InOneRun)
RecorderInv == FeedOK /\ ClaimsOK

-------------------------------------------------------------------------------
(* What the records are made of.                                           *)

LEMMA RecorderNats == MaxRecordings \in Nat \ {0} /\ Segment \in Nat \ {0} /\ FeedDepth \in Nat \ {0}
BY RecorderAssumption

LEMMA RecordingIs == \A r : r \in Recordings <=> r \in Nat /\ r >= 1 /\ r <= MaxRecordings
BY RecorderNats DEF Recordings

LEMMA ThreadIs ==
  /\ \A r \in Recordings : <<"watch", r>> \in Threads /\ <<"stop", r>> \in Threads
  /\ \A t \in Threads : \E r \in Recordings : t = <<"watch", r>> \/ t = <<"stop", r>>
  /\ \A r, q \in Recordings : /\ <<"watch", r>> # <<"stop", q>>
                              /\ (r # q => <<"stop", r>> # <<"stop", q>> /\ <<"watch", r>> # <<"watch", q>>)
BY DEF Threads

LEMMA QuotientIs == ASSUME NEW a \in Nat, NEW b \in Nat \ {0} PROVE a \div b \in Nat
OBVIOUS

LEMMA HandIs ==
  /\ Idle \in Hands /\ Done \in Hands /\ [Idle EXCEPT !.at = "none"] \in Hands
  /\ Idle.at = "idle" /\ Done.at = "done" /\ [Idle EXCEPT !.at = "none"].at = "none"
  /\ \A h \in Hands : /\ h.frame \in Nat /\ h.enc \in Nat
                      /\ [h EXCEPT !.at = "built"] \in Hands /\ [h EXCEPT !.at = "writing"] \in Hands
                      /\ [h EXCEPT !.at = "writing"].enc = h.enc
  /\ \A f, e \in Nat : /\ [at |-> "checked", frame |-> f, enc |-> e] \in Hands
                       /\ [at |-> "holding", frame |-> f, enc |-> e] \in Hands
BY DEF Hands, Idle, Done

LEMMA FolderIs ==
  /\ Absent \in Folders /\ Absent.there = FALSE
  /\ \A d \in Folders : d.there \in BOOLEAN /\ d.segs \in Nat /\ d.from \in SUBSET Nat
                        /\ d.marks \in SUBSET {"complete", "incomplete"}
BY DEF Folders, Absent

\* An encoder's change of state leaves the list of encoders one, and as long.
LEMMA EncoderIs ==
  ASSUME NEW es \in Seq(Encoders), NEW es2, NEW e \in Nat, NEW r \in Nat,
         \/ es2 = [es EXCEPT ![e].by = r]
         \/ es2 = [es EXCEPT ![e].stopped = TRUE]
         \/ es2 = [es EXCEPT ![e].by = 0, ![e].failed = TRUE]
         \/ es2 = [es EXCEPT ![e].by = 0, ![e].pos = es[e].pos + 1]
  PROVE  es2 \in Seq(Encoders) /\ Len(es2) = Len(es)
<1>1. Len(es) \in Nat /\ es \in [1 .. Len(es) -> Encoders]
  OBVIOUS
<1>2. \A f : f \in [1 .. Len(es) -> Encoders] => f \in Seq(Encoders) /\ Len(f) = Len(es)
  BY <1>1
<1>3. CASE es2 = [es EXCEPT ![e].by = r]
  <2>1. es2 \in [1 .. Len(es) -> Encoders]
    BY <1>1, <1>3 DEF Encoders
  <2> QED
    BY <1>2, <2>1
<1>4. CASE es2 = [es EXCEPT ![e].stopped = TRUE]
  <2>1. es2 \in [1 .. Len(es) -> Encoders]
    BY <1>1, <1>4 DEF Encoders
  <2> QED
    BY <1>2, <2>1
<1>5. CASE es2 = [es EXCEPT ![e].by = 0, ![e].failed = TRUE]
  <2>1. es2 \in [1 .. Len(es) -> Encoders]
    BY <1>1, <1>5 DEF Encoders
  <2> QED
    BY <1>2, <2>1
<1>6. CASE es2 = [es EXCEPT ![e].by = 0, ![e].pos = es[e].pos + 1]
  <2> DEFINE p == es[e].pos + 1
  <2>0. es2 = [es EXCEPT ![e].by = 0, ![e].pos = p] /\ (e \in 1 .. Len(es) => p \in Nat)
    BY <1>1, <1>6 DEF Encoders
  <2> HIDE DEF p
  <2>1. es2 \in [1 .. Len(es) -> Encoders]
    <3>1. CASE e \notin 1 .. Len(es)
      BY <1>1, <2>0, <3>1
    <3>2. CASE e \in 1 .. Len(es)
      <4>1. es[e] \in Encoders /\ p \in Nat
        BY <1>1, <2>0, <3>2
      <4>2. [es[e] EXCEPT !.by = 0] \in Encoders
        BY <4>1 DEF Encoders
      <4>3. [[es[e] EXCEPT !.by = 0] EXCEPT !.pos = p] \in Encoders
        BY <4>1, <4>2 DEF Encoders
      <4>4. es2 = [es EXCEPT ![e] = [[es[e] EXCEPT !.by = 0] EXCEPT !.pos = p]]
        BY <1>1, <2>0, <3>2
      <4> QED
        BY <1>1, <3>2, <4>3, <4>4
    <3> QED
      BY <3>1, <3>2
  <2> QED
    BY <1>2, <2>1
<1> QED
  BY <1>3, <1>4, <1>5, <1>6

-------------------------------------------------------------------------------
(* The frames on their way.                                                *)

feedVars == <<encoder, encoders, feedQueue, feeder, emitting, fed>>

LEMMA FeedInit == RecorderInit => FeedOK
<1> SUFFICES ASSUME RecorderInit PROVE FeedOK
  OBVIOUS
<1>1. encoders \in Seq(Encoders) /\ feedQueue \in Seq(Nat) /\ Len(encoders) = 0 /\ encoder \in 0 .. Len(encoders)
  BY DEF RecorderInit
<1>2. /\ feeder \in [Recordings -> Hands] /\ emitting \in Hands /\ fed \in Nat
      /\ \A r \in Recordings : feeder[r].at = "none"
  BY HandIs DEF RecorderInit
<1> QED
  BY <1>1, <1>2 DEF FeedOK

\* The model's thread.
LEMMA EmitKeepsFeed ==
  ASSUME FeedOK, RecorderTypeOK, EmitChunk \/ BuildEncoder \/ QueueFrame \/ DropFrame
  PROVE  FeedOK'
<1>0. encoders \in Seq(Encoders) /\ encoder \in 0 .. Len(encoders) /\ Len(encoders) \in Nat /\ feedQueue \in Seq(Nat)
  BY DEF FeedOK
<1>1. CASE EmitChunk
  <2>1. emitting' \in Hands
    BY <1>1, HandIs DEF RecorderTypeOK, EmitChunk
  <2>2. UNCHANGED <<encoder, encoders, feedQueue, feeder, fed>>
    BY <1>1 DEF EmitChunk, threadVars
  <2> QED
    BY <2>1, <2>2 DEF FeedOK
<1>2. CASE BuildEncoder
  <2>1. emitting' \in Hands
    BY <1>2, HandIs DEF FeedOK, BuildEncoder
  <2>2. UNCHANGED <<feedQueue, feeder, fed>>
    BY <1>2 DEF BuildEncoder, threadVars
  <2>3. CASE encoder # 0
    <3>1. UNCHANGED <<encoder, encoders>>
      BY <1>2, <2>3 DEF BuildEncoder
    <3> QED
      BY <2>1, <2>2, <3>1 DEF FeedOK
  <2>4. CASE encoder = 0
    <3> DEFINE new == [dir |-> folder, pos |-> 0, stopped |-> FALSE, failed |-> FALSE, by |-> 0]
    <3>1. new \in Encoders
      BY DEF Encoders, RecorderTypeOK
    <3>2. encoders' = Append(encoders, new) /\ encoder' = Len(encoders')
      BY <1>2, <2>4 DEF BuildEncoder
    <3> HIDE DEF new
    <3>3. encoders' \in Seq(Encoders) /\ Len(encoders') = Len(encoders) + 1
      BY <1>0, <3>1, <3>2
    <3>4. encoder' \in 0 .. Len(encoders') /\ \A e \in 1 .. Len(encoders) : e \in 1 .. Len(encoders')
      BY <1>0, <3>2, <3>3
    <3> QED
      BY <2>1, <2>2, <3>3, <3>4 DEF FeedOK
  <2> QED
    BY <2>3, <2>4
<1>3. CASE QueueFrame
  <2>1. feedQueue' \in Seq(Nat)
    <3>1. emitting.frame \in Nat
      BY HandIs DEF FeedOK
    <3> QED
      BY <1>0, <1>3, <3>1, AppendIs DEF QueueFrame
  <2>2. emitting' \in Hands /\ fed' \in Nat
    BY <1>3, HandIs DEF QueueFrame, FeedOK
  <2>3. UNCHANGED <<encoder, encoders, feeder>>
    BY <1>3 DEF QueueFrame, threadVars
  <2> QED
    BY <2>1, <2>2, <2>3 DEF FeedOK
<1>4. CASE DropFrame
  BY <1>4, HandIs DEF FeedOK, DropFrame, threadVars
<1> QED
  BY <1>1, <1>2, <1>3, <1>4

\* A feed thread.
LEMMA FeedKeepsFeed ==
  ASSUME FeedOK, NEW r \in Recordings,
         FeedTakes(r) \/ FeedExits(r) \/ FeedEnters(r) \/ FeedWrites(r) \/ FeedFails(r)
  PROVE  FeedOK'
<1> DEFINE e == feeder[r].enc
<1>0. /\ encoders \in Seq(Encoders) /\ encoder \in 0 .. Len(encoders) /\ Len(encoders) \in Nat /\ feedQueue \in Seq(Nat)
      /\ <<>> \in Seq(Nat) /\ feeder \in [Recordings -> Hands] /\ feeder[r] \in Hands
  BY EmptyIs DEF FeedOK
<1>r. r \in Nat /\ e \in Nat /\ UNCHANGED <<encoder, emitting, fed>>
  BY <1>0, HandIs, RecordingIs DEF FeedTakes, FeedExits, FeedEnters, FeedWrites, FeedFails
<1>u. \A q \in Recordings : feeder[q].at \in {"holding", "writing"} => feeder[q].enc \in 1 .. Len(encoders)
  BY DEF FeedOK
<1>q. ASSUME NEW h \in Hands, feeder' = [feeder EXCEPT ![r] = h], encoders' \in Seq(Encoders), Len(encoders') = Len(encoders),
             feedQueue' \in Seq(Nat), h.at \in {"holding", "writing"} => h.enc \in 1 .. Len(encoders)
      PROVE  FeedOK'
  <2>1. feeder' \in [Recordings -> Hands]
    BY <1>0, <1>q
  <2>2. \A q \in Recordings : feeder'[q].at \in {"holding", "writing"} => feeder'[q].enc \in 1 .. Len(encoders')
    BY <1>0, <1>u, <1>q
  <2>3. encoder' \in 0 .. Len(encoders') /\ emitting' \in Hands /\ fed' \in Nat
    BY <1>0, <1>r, <1>q DEF FeedOK
  <2> QED
    BY <1>q, <2>1, <2>2, <2>3 DEF FeedOK
<1>1. CASE FeedTakes(r)
  <2> DEFINE f == Head(feedQueue)
             h == IF f = 0 THEN Done ELSE IF encoder = 0 THEN feeder[r] ELSE [at |-> "holding", frame |-> f, enc |-> encoder]
  <2>1. f \in Nat /\ Tail(feedQueue) \in Seq(Nat) /\ feedQueue' = Tail(feedQueue)
    BY <1>0, <1>1 DEF FeedTakes
  <2>2. feeder' = [feeder EXCEPT ![r] = h] /\ encoders' = encoders /\ feeder[r].at = "idle"
    BY <1>1 DEF FeedTakes
  <2> HIDE DEF f
  <2>3. h \in Hands /\ (h.at \in {"holding", "writing"} => h.enc \in 1 .. Len(encoders))
    <3>1. CASE f = 0
      BY <3>1, HandIs
    <3>2. CASE f # 0 /\ encoder = 0
      BY <1>0, <2>2, <3>2
    <3>3. CASE f # 0 /\ encoder # 0
      <4>1. encoder \in Nat /\ encoder \in 1 .. Len(encoders)
        BY <1>0, <3>3
      <4> QED
        BY <2>1, <3>3, <4>1, HandIs
    <3> QED
      BY <3>1, <3>2, <3>3
  <2> HIDE DEF h
  <2> QED
    BY <1>0, <1>q, <2>1, <2>2, <2>3
<1>2. CASE FeedExits(r)
  <2>1. feeder' = [feeder EXCEPT ![r] = Done] /\ encoders' = encoders /\ feedQueue' = feedQueue
    BY <1>2 DEF FeedExits
  <2> QED
    BY <1>0, <1>q, <2>1, HandIs
<1>3. CASE FeedEnters(r)
  <2>1. CASE encoders[e].stopped \/ encoders[e].failed
    <3>1. feeder' = [feeder EXCEPT ![r] = Done] /\ encoders' = encoders /\ feedQueue' = <<>>
      BY <1>3, <2>1 DEF FeedEnters
    <3> QED
      BY <1>0, <1>q, <3>1, HandIs
  <2>2. CASE ~(encoders[e].stopped \/ encoders[e].failed)
    <3> DEFINE h == [feeder[r] EXCEPT !.at = "writing"]
    <3>1. feeder' = [feeder EXCEPT ![r] = h] /\ encoders' = [encoders EXCEPT ![e].by = r] /\ feedQueue' = feedQueue
      BY <1>3, <2>2 DEF FeedEnters
    <3>2. h \in Hands /\ h.enc = e /\ e \in 1 .. Len(encoders)
      BY <1>0, <1>3, <1>u, HandIs DEF FeedEnters
    <3>3. encoders' \in Seq(Encoders) /\ Len(encoders') = Len(encoders)
      BY <1>0, <1>r, <3>1, EncoderIs
    <3> HIDE DEF h
    <3> QED
      BY <1>0, <1>q, <3>1, <3>2, <3>3
  <2> QED
    BY <2>1, <2>2
<1>4. CASE FeedWrites(r)
  <2>1. feeder' = [feeder EXCEPT ![r] = Idle] /\ encoders' = [encoders EXCEPT ![e].by = 0, ![e].pos = encoders[e].pos + 1]
        /\ feedQueue' = feedQueue
    BY <1>4 DEF FeedWrites
  <2>2. encoders' \in Seq(Encoders) /\ Len(encoders') = Len(encoders)
    BY <1>0, <1>r, <2>1, EncoderIs
  <2> QED
    BY <1>0, <1>q, <2>1, <2>2, HandIs
<1>5. CASE FeedFails(r)
  <2>1. feeder' = [feeder EXCEPT ![r] = Done] /\ encoders' = [encoders EXCEPT ![e].by = 0, ![e].failed = TRUE]
        /\ feedQueue' = <<>>
    BY <1>5 DEF FeedFails
  <2>2. encoders' \in Seq(Encoders) /\ Len(encoders') = Len(encoders)
    BY <1>0, <1>r, <2>1, EncoderIs
  <2> QED
    BY <1>0, <1>q, <2>1, <2>2, HandIs
<1> QED
  BY <1>1, <1>2, <1>3, <1>4, <1>5

\* The others: a start empties the queue and spawns the feed thread, a stop adds its
\* sentinel and stops the encoder.
LEMMA OthersKeepFeed ==
  ASSUME FeedOK,
         \/ StartRecorder \/ SpawnWorkers \/ UNCHANGED feedVars
         \/ \E s \in Recordings : StopBegins(s) \/ StopCloses(s)
  PROVE  FeedOK'
<1>0. /\ encoders \in Seq(Encoders) /\ encoder \in 0 .. Len(encoders) /\ Len(encoders) \in Nat /\ feedQueue \in Seq(Nat)
      /\ <<>> \in Seq(Nat) /\ Append(feedQueue, 0) \in Seq(Nat)
  BY EmptyIs, AppendIs DEF FeedOK
<1>1. CASE StartRecorder
  <2>1. feedQueue' \in {feedQueue, <<>>} /\ encoder' \in {encoder, 0} /\ UNCHANGED <<encoders, feeder, emitting, fed>>
    BY <1>1 DEF StartRecorder, threadVars
  <2>2. feedQueue' \in Seq(Nat)
    BY <1>0, <2>1
  <2>3. encoder' \in 0 .. Len(encoders)
    BY <1>0, <2>1
  <2> QED
    BY <2>1, <2>2, <2>3 DEF FeedOK
<1>2. CASE SpawnWorkers
  <2>1. feeder' = [feeder EXCEPT ![posted] = Idle] /\ UNCHANGED <<encoder, encoders, feedQueue, emitting, fed>>
    BY <1>2 DEF SpawnWorkers
  <2>2. feeder' \in [Recordings -> Hands]
    BY <2>1, HandIs DEF FeedOK
  <2>3. \A q \in Recordings : feeder'[q].at \in {"holding", "writing"} => feeder'[q].enc \in 1 .. Len(encoders)
    BY <2>1, HandIs DEF FeedOK
  <2> QED
    BY <2>1, <2>2, <2>3 DEF FeedOK
<1>3. CASE UNCHANGED feedVars
  BY <1>3 DEF FeedOK, feedVars
<1>4. ASSUME NEW s \in Recordings, StopBegins(s) PROVE FeedOK'
  <2>1. feedQueue' \in {feedQueue, Append(feedQueue, 0)} /\ UNCHANGED <<encoder, encoders, feeder, emitting, fed>>
    BY <1>4 DEF StopBegins
  <2>2. feedQueue' \in Seq(Nat)
    BY <1>0, <2>1
  <2> QED
    BY <2>1, <2>2 DEF FeedOK
<1>5. ASSUME NEW s \in Recordings, StopCloses(s) PROVE FeedOK'
  <2>1. /\ encoders' = encoders \/ encoders' = [encoders EXCEPT ![encoder].stopped = TRUE]
        /\ UNCHANGED <<encoder, feedQueue, feeder, emitting, fed>>
    BY <1>5 DEF StopCloses, stopOnly
  <2>2. encoder \in Nat /\ 0 \in Nat
    BY <1>0
  <2>3. encoders' \in Seq(Encoders) /\ Len(encoders') = Len(encoders)
    BY <1>0, <2>1, <2>2, EncoderIs
  <2> QED
    BY <1>0, <2>1, <2>3 DEF FeedOK
<1> QED
  BY <1>1, <1>2, <1>3, <1>4, <1>5


-------------------------------------------------------------------------------
(* Claims and what was said of them.                                       *)

\* The directories a step leaves in place only gain segments and markers.
DirsGrow ==
  \A d \in Recordings : dirs'[d].there =>
    dirs[d].there /\ dirs[d].segs <= dirs'[d].segs /\ dirs[d].marks \subseteq dirs'[d].marks

LEMMA NoticeIs ==
  /\ \A n \in Notices : n.run \in Recordings /\ n.at \in Nat /\ n.clip \in BOOLEAN
  /\ \A n, m \in Notices : n.run = m.run /\ n.at = m.at /\ n.clip = m.clip => n = m
  /\ \A i, c : Notice(i, c).run = run /\ Notice(i, c).at = i /\ Notice(i, c).clip = c
  /\ \A i \in Nat, c \in BOOLEAN : run \in Recordings => Notice(i, c) \in Notices
BY DEF Notices, Notice

LEMMA StillClosed ==
  ASSUME RecorderTypeOK, RecorderTypeOK', UNCHANGED ids, DirsGrow, NEW r \in Recordings, NEW i \in Nat,
         Kept(r) => Closed(ids[r], i)
  PROVE  Kept(r)' => Closed(ids[r], i)'
<1> SUFFICES ASSUME Kept(r)' PROVE Closed(ids[r], i)'
  OBVIOUS
<1> DEFINE d == ids[r]
<1>1. d \in Recordings /\ ids'[r] = d /\ dirs'[d].there
  BY DEF Kept, RecorderTypeOK
<1>2. dirs[d].there /\ dirs[d].segs <= dirs'[d].segs /\ dirs[d].marks \subseteq dirs'[d].marks
  BY <1>1 DEF DirsGrow
<1>3. dirs[d] \in Folders /\ dirs'[d] \in Folders
  BY <1>1 DEF RecorderTypeOK
<1>4. dirs[d].segs \in Nat /\ dirs'[d].segs \in Nat
  BY <1>3, FolderIs
<1>5. Closed(d, i)
  BY <1>1, <1>2 DEF Kept
<1> HIDE DEF d
<1>6. dirs'[d].segs > i + 1 \/ ("complete" \in dirs'[d].marks /\ dirs'[d].segs > i)
  BY <1>2, <1>4, <1>5 DEF Closed
<1> QED
  BY <1>1, <1>6 DEF Closed

LEMMA SaidStays ==
  ASSUME RecorderTypeOK, RecorderTypeOK', SaidIsClosed, UNCHANGED <<ids, announced, fired>>, DirsGrow,
         \A t \in Threads : hands'[t] \subseteq hands[t]
  PROVE  SaidIsClosed'
<1>1. ASSUME NEW t \in Threads, NEW n \in hands'[t] PROVE Kept(n.run)' => Closed(ids[n.run], n.at)'
  <2>1. n \in hands[t] /\ n.run \in Recordings /\ n.at \in Nat
    BY <1>1, NoticeIs DEF RecorderTypeOK
  <2>2. Kept(n.run) => Closed(ids[n.run], n.at)
    BY <2>1 DEF SaidIsClosed
  <2> QED
    BY <2>1, <2>2, StillClosed
<1>2. ASSUME NEW f \in fired' PROVE Kept(f.run)' => Closed(ids[f.run], f.at)'
  <2>1. f \in fired /\ f.run \in Recordings /\ f.at \in Nat
    BY <1>2, NoticeIs DEF RecorderTypeOK
  <2>2. Kept(f.run) => Closed(ids[f.run], f.at)
    BY <2>1 DEF SaidIsClosed
  <2> QED
    BY <2>1, <2>2, StillClosed
<1>3. ASSUME NEW r \in Recordings, NEW i \in announced'[r] PROVE Kept(r)' => Closed(ids[r], i)'
  <2>1. i \in announced[r] /\ i \in Nat
    BY <1>3 DEF RecorderTypeOK
  <2>2. Kept(r) => Closed(ids[r], i)
    BY <2>1 DEF SaidIsClosed
  <2> QED
    BY <2>1, <2>2, StillClosed
<1> QED
  BY <1>1, <1>2, <1>3 DEF SaidIsClosed

LEMMA DirsStay == ASSUME RecorderTypeOK, UNCHANGED dirs PROVE DirsGrow
<1>1. \A d \in Recordings : dirs[d].segs \in Nat
  BY FolderIs DEF RecorderTypeOK
<1> QED
  BY <1>1 DEF DirsGrow

\* Whoever has something in hand may report it.
LEMMA HeldReports ==
  ASSUME HandsAreHeld, NEW t \in Threads, hands[t] # {}
  PROVE  \E r \in Recordings : Reporting(r)
<1>1. PICK r \in Recordings : t = <<"watch", r>> \/ t = <<"stop", r>>
  BY ThreadIs
<1> QED
  BY <1>1 DEF HandsAreHeld, Reporting

LEMMA RecorderStarts == RecorderInit => RecorderInv
<1> SUFFICES ASSUME RecorderInit PROVE ClaimsOK
  BY FeedInit DEF RecorderInv
<1>0. \A t \in Threads : hands[t] = {}
  BY DEF RecorderInit
<1>1. RecorderTypeOK
  <2>1. /\ posted \in Nat /\ posted <= MaxRecordings /\ run \in Nat /\ folder \in Nat /\ nextChunk \in Nat
        /\ ids \in [Recordings -> Recordings \cup {0}]
    BY RecorderNats DEF RecorderInit
  <2>2. /\ open \in BOOLEAN /\ starting \in {"no", "reset", "claimed"}
        /\ started \in BOOLEAN /\ overlapped \in BOOLEAN /\ repeated \in BOOLEAN
    BY DEF RecorderInit
  <2>3. /\ watch \in [Recordings -> {"none", "idle", "done"}] /\ stops \in [Recordings -> StopAt]
        /\ dirs \in [Recordings -> Folders]
    BY FolderIs DEF RecorderInit, StopAt, Quiet
  <2>4. /\ clips \in SUBSET Nat /\ fired \in SUBSET Notices /\ announced \in [Recordings -> SUBSET Nat]
        /\ hands \in [Threads -> SUBSET Notices]
    BY DEF RecorderInit
  <2> QED
    BY <2>1, <2>2, <2>3, <2>4 DEF RecorderTypeOK
<1>2. ClaimsInStep /\ HandsAreHeld /\ SaidIsClosed
  <2>1. ClaimsInStep
    BY <1>0 DEF ClaimsInStep, RecorderInit
  <2>2. HandsAreHeld
    BY <1>0, ThreadIs DEF HandsAreHeld, RecorderInit
  <2>3. SaidIsClosed
    BY <1>0 DEF SaidIsClosed, RecorderInit
  <2> QED
    BY <2>1, <2>2, <2>3
<1>3. StartsAlone /\ CountIsKept /\ EarlierAreWhole /\ MarkedByItsStop /\ ~repeated
  BY DEF StartsAlone, CountIsKept, EarlierAreWhole, MarkedByItsStop, RecorderInit
<1> QED
  BY <1>1, <1>2, <1>3 DEF ClaimsOK, InOneRun

-------------------------------------------------------------------------------
(* Steps that say nothing.                                                 *)

\* The feed threads, the model's thread and clip requests touch no claim.
claimedVars == <<posted, open, starting, started, run, ids, folder, dirs, watch, stops, nextChunk, hands,
                 announced, fired, repeated, overlapped>>

LEMMA Aside ==
  ASSUME ClaimsOK, UNCHANGED claimedVars, clips' \in SUBSET Nat
  PROVE  ClaimsOK'
<1> USE DEF claimedVars
<1>1. RecorderTypeOK'
  BY DEF ClaimsOK, RecorderTypeOK
<1>2. ClaimsInStep' /\ HandsAreHeld'
  BY DEF ClaimsOK, ClaimsInStep, HandsAreHeld
<1>3. SaidIsClosed'
  BY <1>1, SaidStays, DirsStay DEF ClaimsOK
<1>4. overlapped' \/ InOneRun'
  BY DEF ClaimsOK, InOneRun, StartsAlone, CountIsKept, EarlierAreWhole, MarkedByItsStop, Reporting, InHand
<1> QED
  BY <1>1, <1>2, <1>3, <1>4 DEF ClaimsOK

\* A directory is written to or reaped.
LEMMA DirsChange ==
  ASSUME ClaimsOK, DirsGrow, dirs' \in [Recordings -> Folders],
         folder # 0 => dirs'[folder].there = dirs[folder].there /\ dirs'[folder].marks = dirs[folder].marks,
         UNCHANGED <<posted, open, starting, started, run, ids, folder, watch, stops, nextChunk, clips, hands,
                     announced, fired, repeated, overlapped>>
  PROVE  ClaimsOK'
<1>1. RecorderTypeOK'
  BY DEF ClaimsOK, RecorderTypeOK
<1>2. run # 0 => folder # 0
  BY RecordingIs DEF ClaimsOK, ClaimsInStep
<1>3. ClaimsInStep'
  BY <1>2 DEF ClaimsOK, ClaimsInStep
<1>4. HandsAreHeld'
  BY DEF ClaimsOK, HandsAreHeld
<1>5. SaidIsClosed'
  BY <1>1, SaidStays DEF ClaimsOK
<1>6. ASSUME ~overlapped PROVE InOneRun'
  <2>1. StartsAlone' /\ CountIsKept' /\ EarlierAreWhole' /\ ~repeated'
    BY <1>6 DEF ClaimsOK, InOneRun, StartsAlone, CountIsKept, EarlierAreWhole, Reporting, InHand
  <2>2. MarkedByItsStop'
    BY <1>2, <1>6 DEF ClaimsOK, InOneRun, MarkedByItsStop, ClaimsInStep
  <2> QED
    BY <2>1, <2>2 DEF InOneRun
<1> QED
  BY <1>1, <1>3, <1>4, <1>5, <1>6 DEF ClaimsOK

LEMMA FeedWritesKeeps ==
  ASSUME RecorderInv, NEW r \in Recordings, FeedWrites(r)
  PROVE  ClaimsOK'
<1> DEFINE e == feeder[r].enc
           d == encoders[e].dir
           f == feeder[r].frame
           k == encoders[e].pos \div Segment
           w == Written(dirs[d], e, f)
<1>1. e \in 1 .. Len(encoders) /\ f \in Nat /\ encoders \in Seq(Encoders)
  BY HandIs DEF RecorderInv, FeedOK, FeedWrites
<1>2. encoders[e] \in Encoders
  BY <1>1
<1>3. k \in Nat
  <2>1. encoders[e].pos \in Nat /\ Segment \in Nat \ {0}
    BY <1>2, RecorderNats DEF Encoders
  <2> QED
    BY <2>1, QuotientIs
<1>4. dirs' = [dirs EXCEPT ![d] = w] /\ dirs \in [Recordings -> Folders]
  BY DEF FeedWrites, RecorderInv, ClaimsOK, RecorderTypeOK
<1>5. ASSUME d \in Recordings
      PROVE  /\ w \in Folders /\ w.there = dirs[d].there /\ w.marks = dirs[d].marks /\ w.segs >= dirs[d].segs
  <2>1. dirs[d] \in Folders
    BY <1>4, <1>5
  <2>2. w = IF ~dirs[d].there THEN dirs[d]
            ELSE [dirs[d] EXCEPT !.segs = IF dirs[d].segs > k THEN dirs[d].segs ELSE k + 1,
                                 !.from = dirs[d].from \cup {f}]
    BY DEF Written
  <2> DEFINE old == dirs[d]
  <2> HIDE DEF d, e, f, k, w, old
  <2>3. old \in Folders /\ w = IF ~old.there THEN old
            ELSE [old EXCEPT !.segs = IF old.segs > k THEN old.segs ELSE k + 1, !.from = old.from \cup {f}]
    BY <2>1, <2>2 DEF old
  <2>4. w \in Folders /\ w.there = old.there /\ w.marks = old.marks /\ w.segs >= old.segs
    <3> DEFINE g == IF old.segs > k THEN old.segs ELSE k + 1
    <3>1. g \in Nat /\ g >= old.segs /\ old.segs \in Nat
      BY <1>3, <2>3, FolderIs
    <3>2. w = IF ~old.there THEN old ELSE [old EXCEPT !.segs = g, !.from = old.from \cup {f}]
      BY <2>3
    <3> HIDE DEF g
    <3>3. CASE ~old.there
      BY <2>3, <3>1, <3>2, <3>3
    <3>4. CASE old.there
      <4>1. w = [old EXCEPT !.segs = g, !.from = old.from \cup {f}]
        BY <3>2, <3>4
      <4>2. old.from \cup {f} \in SUBSET Nat
        BY <1>1, <2>3, FolderIs
      <4>3. w \in Folders
        BY <2>3, <3>1, <4>1, <4>2 DEF Folders
      <4>4. w.there = old.there /\ w.marks = old.marks /\ w.segs = g
        BY <2>3, <4>1 DEF Folders
      <4> QED
        BY <3>1, <4>3, <4>4
    <3> QED
      BY <3>3, <3>4
  <2> QED
    BY <2>4 DEF old
<1> HIDE DEF d, w
<1>6. dirs' \in [Recordings -> Folders]
  BY <1>4, <1>5
<1>7. \A q \in Recordings : /\ dirs'[q].there = dirs[q].there /\ dirs'[q].marks = dirs[q].marks
                            /\ dirs'[q].segs >= dirs[q].segs
  <2>1. \A q \in Recordings : dirs[q].segs \in Nat
    BY <1>4, FolderIs
  <2> QED
    BY <1>4, <1>5, <2>1
<1>8. DirsGrow
  <2>1. \A q \in Recordings : dirs[q].segs \in Nat /\ dirs'[q].segs \in Nat
    BY <1>4, <1>6, FolderIs
  <2> QED
    BY <1>7, <2>1 DEF DirsGrow
<1>9. folder # 0 => folder \in Recordings
  BY DEF RecorderInv, ClaimsOK, ClaimsInStep
<1> QED
  BY <1>6, <1>7, <1>8, <1>9, DirsChange
     DEF RecorderInv, FeedWrites, otherThreads, claimVars, saidVars

LEMMA ReapKeeps ==
  ASSUME ClaimsOK, NEW d \in Recordings, Reap(d)
  PROVE  ClaimsOK'
<1>1. dirs' = [dirs EXCEPT ![d] = Absent] /\ d # folder /\ dirs \in [Recordings -> Folders]
  BY DEF Reap, ClaimsOK, RecorderTypeOK
<1>2. dirs' \in [Recordings -> Folders]
  BY <1>1, FolderIs
<1>3. DirsGrow
  <2>1. \A q \in Recordings : dirs[q].segs \in Nat
    BY <1>1, FolderIs
  <2>2. \A q \in Recordings : dirs'[q].there => dirs'[q] = dirs[q]
    BY <1>1, FolderIs
  <2> QED
    BY <2>1, <2>2 DEF DirsGrow
<1>4. folder # 0 => folder \in Recordings
  BY DEF ClaimsOK, ClaimsInStep
<1> QED
  BY <1>1, <1>2, <1>3, <1>4, DirsChange DEF Reap, threadVars, claimVars, saidVars

-------------------------------------------------------------------------------
(* Stops, starts and threads that end.                                     *)

\* A stop goes a step on: of the claims it disturbs none.
LEMMA StopMoves ==
  ASSUME ClaimsOK, NEW s \in Recordings, NEW x \in StopAt, stops' = [stops EXCEPT ![s] = x],
         hands[<<"stop", s>>] = {}, stops[s] # "none" \/ (s = posted /\ ~open'), open' \in BOOLEAN, open' => open,
         x \in Quiet \/ stops[s] \notin Quiet \/ started, stops[s] \in Marked => x \in Marked \/ ~started',
         started' \in BOOLEAN, started' => started,
         UNCHANGED <<posted, starting, run, ids, folder, dirs, watch, nextChunk, clips, hands,
                     announced, fired, repeated, overlapped>>
  PROVE  ClaimsOK'
<1>0. stops \in [Recordings -> StopAt] /\ stops'[s] = x /\ \A q \in Recordings : q # s => stops'[q] = stops[q]
  BY DEF ClaimsOK, RecorderTypeOK
<1>1. RecorderTypeOK'
  BY <1>0 DEF ClaimsOK, RecorderTypeOK
<1>2. ClaimsInStep'
  BY DEF ClaimsOK, ClaimsInStep
<1>3. HandsAreHeld'
  <2>1. \A q \in Recordings : hands[<<"stop", q>>] # {} => stops'[q] \in {"announcing", "firing"}
    BY <1>0 DEF ClaimsOK, HandsAreHeld
  <2>2. \A q \in Recordings : q > posted \/ (q = posted /\ open') => stops'[q] = "none"
    <3>1. \A q \in Recordings : q > posted \/ (q = posted /\ open') => stops[q] = "none" /\ q # s
      <4>1. posted \in Nat /\ s \in Nat
        BY RecordingIs DEF ClaimsOK, RecorderTypeOK
      <4> QED
        BY <4>1 DEF ClaimsOK, HandsAreHeld
    <3> QED
      BY <1>0, <3>1
  <2> QED
    BY <2>1, <2>2 DEF ClaimsOK, HandsAreHeld
<1>4. SaidIsClosed'
  BY <1>1, SaidStays, DirsStay DEF ClaimsOK
<1>5. ASSUME ~overlapped PROVE InOneRun'
  <2>1. StartsAlone'
    <3> SUFFICES ASSUME starting # "no", NEW q \in Recordings PROVE nextChunk = 0 /\ ~Reporting(q)'
      BY DEF StartsAlone
    <3>1. nextChunk = 0 /\ ~Reporting(q) /\ ~Reporting(s) /\ ~started
      BY <1>5 DEF ClaimsOK, InOneRun, StartsAlone, ClaimsInStep
    <3>2. stops'[q] \in Quiet
      BY <1>0, <3>1 DEF Reporting, Quiet
    <3> QED
      BY <3>1, <3>2 DEF Reporting, Quiet
  <2>2. CountIsKept' /\ EarlierAreWhole' /\ ~repeated'
    BY <1>5 DEF ClaimsOK, InOneRun, CountIsKept, EarlierAreWhole, InHand
  <2>3. MarkedByItsStop'
    <3>1. \A q \in Recordings : started' /\ stops[q] \in Marked => stops'[q] \in Marked
      BY <1>0
    <3> QED
      BY <1>5, <3>1 DEF ClaimsOK, InOneRun, MarkedByItsStop
  <2> QED
    BY <2>1, <2>2, <2>3 DEF InOneRun
<1> QED
  BY <1>1, <1>2, <1>3, <1>4, <1>5 DEF ClaimsOK

\* A stop that is neither announcing nor firing has nothing in hand.
LEMMA IdleStop ==
  ASSUME ClaimsOK, NEW s \in Recordings, stops[s] \notin {"announcing", "firing"}
  PROVE  hands[<<"stop", s>>] = {}
BY DEF ClaimsOK, HandsAreHeld

LEMMA StopsKeep ==
  ASSUME ClaimsOK, NEW s \in Recordings,
         \/ StopBegins(s) \/ StopJoins(s) \/ StopCloses(s) \/ StopWinds(s) \/ StopEnds(s)
         \/ StopClaims(s) /\ folder = 0
         \/ StopMarks(s) /\ UNCHANGED dirs
  PROVE  ClaimsOK'
<1> USE DEF StopAt, Quiet, Marked
<1>0. /\ open \in BOOLEAN /\ started \in BOOLEAN
      /\ stops[s] \notin {"announcing", "firing"} => hands[<<"stop", s>>] = {}
  BY IdleStop DEF ClaimsOK, RecorderTypeOK
<1>1. CASE StopBegins(s)
  <2>1. stops[s] = "queued" /\ stops' = [stops EXCEPT ![s] = IF started THEN "joining" ELSE "over"]
    BY <1>1 DEF StopBegins
  <2>2. UNCHANGED <<posted, open, starting, started, run, ids, folder, dirs, watch, nextChunk, clips, hands,
                    announced, fired, repeated, overlapped>>
    BY <1>1 DEF StopBegins, claimVars, saidVars
  <2>3. CASE started
    BY <1>0, <2>1, <2>2, <2>3, StopMoves
  <2>4. CASE ~started
    BY <1>0, <2>1, <2>2, <2>4, StopMoves
  <2> QED
    BY <2>3, <2>4
<1>2. CASE StopJoins(s)
  <2>1. stops[s] = "joining" /\ stops' = [stops EXCEPT ![s] = "closing"]
    BY <1>2 DEF StopJoins
  <2>2. UNCHANGED <<posted, open, starting, started, run, ids, folder, dirs, watch, nextChunk, clips, hands,
                    announced, fired, repeated, overlapped>>
    BY <1>2 DEF StopJoins, stopOnly, claimVars, saidVars
  <2> QED
    BY <1>0, <2>1, <2>2, StopMoves
<1>3. CASE StopCloses(s)
  <2>1. stops[s] = "closing" /\ \E x \in {"complete", "incomplete"} : stops' = [stops EXCEPT ![s] = x]
    BY <1>3 DEF StopCloses
  <2>2. UNCHANGED <<posted, open, starting, started, run, ids, folder, dirs, watch, nextChunk, clips, hands,
                    announced, fired, repeated, overlapped>>
    BY <1>3 DEF StopCloses, stopOnly, claimVars, saidVars
  <2>3. PICK x \in {"complete", "incomplete"} : stops' = [stops EXCEPT ![s] = x]
    BY <2>1
  <2> QED
    BY <1>0, <2>1, <2>2, <2>3, StopMoves
<1>4. CASE StopWinds(s)
  <2>1. stops[s] = "firing" /\ hands[<<"stop", s>>] = {} /\ stops' = [stops EXCEPT ![s] = "winding"]
    BY <1>4 DEF StopWinds
  <2>2. UNCHANGED <<posted, open, starting, started, run, ids, folder, dirs, watch, nextChunk, clips, hands,
                    announced, fired, repeated, overlapped>>
    BY <1>4 DEF StopWinds, claimVars, saidVars
  <2> QED
    BY <1>0, <2>1, <2>2, StopMoves
<1>5. CASE StopEnds(s)
  <2>1. stops[s] = "winding" /\ stops' = [stops EXCEPT ![s] = "over"] /\ started' = FALSE
    BY <1>5 DEF StopEnds
  <2>2. UNCHANGED <<posted, open, starting, run, ids, folder, dirs, watch, nextChunk, clips, hands,
                    announced, fired, repeated, overlapped>>
    BY <1>5 DEF StopEnds, stopOnly, claimVars, saidVars
  <2> QED
    BY <1>0, <2>1, <2>2, StopMoves
<1>6. CASE StopClaims(s) /\ folder = 0
  <2>1. /\ hands[<<"stop", s>>] = {} /\ stops[s] \in Marked
        /\ \E x \in Marked : stops' = [stops EXCEPT ![s] = x]
    BY <1>6 DEF StopClaims
  <2>2. UNCHANGED <<posted, open, starting, started, run, ids, folder, dirs, watch, nextChunk, clips, hands,
                    announced, fired, repeated, overlapped>>
    BY <1>6 DEF StopClaims, stopOnly, claimVars, saidVars
  <2>3. PICK x \in Marked : stops' = [stops EXCEPT ![s] = x]
    BY <2>1
  <2> QED
    BY <1>0, <2>1, <2>2, <2>3, StopMoves
<1>7. CASE StopMarks(s) /\ UNCHANGED dirs
  <2>1. stops[s] \in {"complete", "incomplete"} /\ stops' = [stops EXCEPT ![s] = "marked"]
    BY <1>7 DEF StopMarks
  <2>2. UNCHANGED <<posted, open, starting, started, run, ids, folder, dirs, watch, nextChunk, clips, hands,
                    announced, fired, repeated, overlapped>>
    BY <1>7 DEF StopMarks, stopOnly, claimVars, saidVars
  <2> QED
    BY <1>0, <2>1, <2>2, StopMoves
<1> QED
  BY <1>1, <1>2, <1>3, <1>4, <1>5, <1>6, <1>7

LEMMA EndSessionKeeps == ASSUME ClaimsOK, EndSession PROVE ClaimsOK'
<1>1. posted \in Recordings /\ stops[posted] = "none" /\ started \in BOOLEAN
  BY RecordingIs DEF ClaimsOK, RecorderTypeOK, ClaimsInStep, HandsAreHeld, EndSession
<1>2. hands[<<"stop", posted>>] = {}
  BY <1>1, IdleStop
<1>3. UNCHANGED <<posted, starting, started, run, ids, folder, dirs, watch, nextChunk, clips, hands,
                  announced, fired, repeated, overlapped>>
  BY DEF EndSession, claimVars, saidVars
<1>4. stops' = [stops EXCEPT ![posted] = "queued"] /\ ~open' /\ open' \in BOOLEAN
  BY DEF EndSession
<1> QED
  BY <1>1, <1>2, <1>3, <1>4, StopMoves DEF StopAt, Quiet, Marked

\* The marker is set: by a stop under way, so while no start is.
LEMMA StopMarksKeeps == ASSUME ClaimsOK, NEW s \in Recordings, StopMarks(s) PROVE ClaimsOK'
<1>1. CASE UNCHANGED dirs
  BY <1>1, StopsKeep
<1>2. CASE ~UNCHANGED dirs
  <2>1. /\ dirs' = [dirs EXCEPT ![folder].marks = @ \cup {stops[s]}]
        /\ stops[s] \in {"complete", "incomplete"} /\ stops' = [stops EXCEPT ![s] = "marked"]
        /\ UNCHANGED <<posted, open, starting, started, run, ids, folder, watch, nextChunk, clips, hands,
                       announced, fired, repeated, overlapped>>
    BY <1>2 DEF StopMarks, stopOnly, claimVars, saidVars
  <2>2. stops \in [Recordings -> StopAt] /\ dirs \in [Recordings -> Folders] /\ "marked" \in StopAt
    BY DEF ClaimsOK, RecorderTypeOK, StopAt, Marked
  <2>3. /\ dirs' \in [Recordings -> Folders]
        /\ \A d \in Recordings : /\ dirs'[d].there = dirs[d].there /\ dirs'[d].segs = dirs[d].segs
                                 /\ dirs[d].marks \subseteq dirs'[d].marks
    BY <2>1, <2>2 DEF Folders
  <2>4. DirsGrow
    <3>1. \A q \in Recordings : dirs[q].segs \in Nat
      BY <2>2, FolderIs
    <3> QED
      BY <2>3, <3>1 DEF DirsGrow
  <2>5. RecorderTypeOK'
    BY <2>1, <2>2, <2>3 DEF ClaimsOK, RecorderTypeOK
  <2>6. ClaimsInStep'
    <3>1. run # 0 => folder \in Recordings
      BY DEF ClaimsOK, ClaimsInStep
    <3> QED
      BY <2>1, <2>3, <3>1 DEF ClaimsOK, ClaimsInStep
  <2>7. HandsAreHeld'
    BY <2>1, <2>2 DEF ClaimsOK, HandsAreHeld
  <2>8. SaidIsClosed'
    BY <2>1, <2>4, <2>5, SaidStays DEF ClaimsOK
  <2>9. ASSUME ~overlapped PROVE InOneRun'
    <3>1. starting = "no" /\ stops'[s] \in Marked
      BY <2>1, <2>2, <2>9 DEF ClaimsOK, InOneRun, StartsAlone, Reporting, Marked
    <3>2. StartsAlone' /\ MarkedByItsStop'
      BY <2>1, <3>1 DEF StartsAlone, MarkedByItsStop
    <3>3. CountIsKept' /\ EarlierAreWhole' /\ ~repeated'
      BY <2>1, <2>9 DEF ClaimsOK, InOneRun, CountIsKept, EarlierAreWhole, InHand
    <3> QED
      BY <3>2, <3>3 DEF InOneRun
  <2> QED
    BY <2>1, <2>5, <2>6, <2>7, <2>8, <2>9 DEF ClaimsOK
<1> QED
  BY <1>1, <1>2

LEMMA WatchExitsKeeps == ASSUME ClaimsOK, NEW r \in Recordings, WatchExits(r) PROVE ClaimsOK'
<1>1. /\ watch' = [watch EXCEPT ![r] = "done"] /\ hands[<<"watch", r>>] = {}
      /\ watch \in [Recordings -> {"none", "idle", "done"}]
      /\ UNCHANGED <<posted, open, starting, started, run, ids, folder, dirs, stops, nextChunk, clips, hands,
                     announced, fired, repeated, overlapped>>
  BY DEF WatchExits, claimVars, saidVars, ClaimsOK, RecorderTypeOK
<1>2. RecorderTypeOK'
  BY <1>1 DEF ClaimsOK, RecorderTypeOK
<1>3. ClaimsInStep' /\ HandsAreHeld'
  BY <1>1 DEF ClaimsOK, ClaimsInStep, HandsAreHeld
<1>4. SaidIsClosed'
  BY <1>1, <1>2, SaidStays, DirsStay DEF ClaimsOK
<1>5. ASSUME ~overlapped PROVE InOneRun'
  <2>1. \A q \in Recordings : Reporting(q)' => Reporting(q)
    BY <1>1 DEF Reporting
  <2>2. StartsAlone'
    BY <1>1, <1>5, <2>1 DEF ClaimsOK, InOneRun, StartsAlone
  <2>3. CountIsKept' /\ EarlierAreWhole' /\ MarkedByItsStop' /\ ~repeated'
    BY <1>1, <1>5 DEF ClaimsOK, InOneRun, CountIsKept, EarlierAreWhole, MarkedByItsStop, InHand
  <2> QED
    BY <2>2, <2>3 DEF InOneRun
<1> QED
  BY <1>1, <1>2, <1>3, <1>4, <1>5 DEF ClaimsOK

LEMMA SpawnKeeps == ASSUME ClaimsOK, SpawnWorkers PROVE ClaimsOK'
<1>1. /\ starting = "claimed" /\ starting' = "no" /\ started' = TRUE /\ watch' = [watch EXCEPT ![posted] = "idle"]
      /\ watch \in [Recordings -> {"none", "idle", "done"}]
      /\ UNCHANGED <<posted, open, run, ids, folder, dirs, stops, nextChunk, clips, hands,
                     announced, fired, repeated, overlapped>>
  BY DEF SpawnWorkers, claimVars, saidVars, ClaimsOK, RecorderTypeOK
<1>2. RecorderTypeOK'
  BY <1>1 DEF ClaimsOK, RecorderTypeOK
<1>3. ClaimsInStep'
  BY <1>1 DEF ClaimsOK, ClaimsInStep
<1>4. HandsAreHeld'
  BY <1>1 DEF ClaimsOK, HandsAreHeld
<1>5. SaidIsClosed'
  BY <1>1, <1>2, SaidStays, DirsStay DEF ClaimsOK
<1>6. ASSUME ~overlapped PROVE InOneRun'
  BY <1>1, <1>6 DEF ClaimsOK, InOneRun, StartsAlone, CountIsKept, EarlierAreWhole, MarkedByItsStop, InHand
<1> QED
  BY <1>1, <1>2, <1>3, <1>4, <1>5, <1>6 DEF ClaimsOK

\* A start clears the count: of what was announced before nothing is passed over,
\* for nobody has anything left in hand.
LEMMA StartKeeps == ASSUME ClaimsOK, StartRecorder PROVE ClaimsOK'
<1>1. /\ ~open /\ starting = "no" /\ posted < MaxRecordings /\ posted' = posted + 1 /\ open' = TRUE /\ posted \in Nat
      /\ UNCHANGED <<started, run, ids, folder, dirs, watch, stops, hands, announced, fired, repeated>>
  BY DEF StartRecorder, threadVars, saidVars, ClaimsOK, RecorderTypeOK
<1>2. \/ started /\ UNCHANGED <<starting, nextChunk, clips, overlapped>>
      \/ /\ ~started /\ starting' = "reset" /\ nextChunk' = 0 /\ clips' = {}
         /\ overlapped' = (overlapped \/ \E r \in Recordings : Reporting(r))
  BY DEF StartRecorder
<1>3. RecorderTypeOK'
  <2>1. posted' \in Nat /\ posted' <= MaxRecordings
    BY <1>1, RecorderNats
  <2>2. nextChunk' \in Nat /\ clips' \in SUBSET Nat /\ starting' \in {"no", "reset", "claimed"}
    <3>1. nextChunk \in Nat /\ clips \in SUBSET Nat /\ {} \in SUBSET Nat /\ 0 \in Nat
      BY DEF ClaimsOK, RecorderTypeOK
    <3>2. nextChunk' \in {nextChunk, 0} /\ clips' \in {clips, {}} /\ starting' \in {"no", "reset"}
      BY <1>1, <1>2
    <3> QED
      BY <3>1, <3>2
  <2>3. overlapped' \in BOOLEAN
    BY <1>2 DEF ClaimsOK, RecorderTypeOK
  <2> QED
    BY <1>1, <2>1, <2>2, <2>3 DEF ClaimsOK, RecorderTypeOK
<1>4. ClaimsInStep'
  <2>1. run \in Nat /\ run <= posted
    BY DEF ClaimsOK, RecorderTypeOK, ClaimsInStep
  <2>2. run <= posted' /\ run < posted' /\ posted' # 0
    BY <1>1, <2>1
  <2> QED
    BY <1>1, <1>2, <2>2 DEF ClaimsOK, ClaimsInStep
<1>5. HandsAreHeld'
  <2>1. \A r \in Recordings : r > posted' \/ r = posted' => r > posted
    BY <1>1, RecordingIs
  <2> QED
    BY <1>1, <2>1 DEF ClaimsOK, HandsAreHeld
<1>6. SaidIsClosed'
  BY <1>1, <1>3, SaidStays, DirsStay DEF ClaimsOK
<1>7. ASSUME ~overlapped' PROVE InOneRun'
  <2>0. overlapped => overlapped'
    BY <1>2
  <2>1. ~overlapped /\ InOneRun
    BY <1>7, <2>0 DEF ClaimsOK
  <2>2. CASE started
    BY <1>1, <1>2, <2>1, <2>2 DEF InOneRun, StartsAlone, CountIsKept, EarlierAreWhole, MarkedByItsStop, Reporting, InHand
  <2>3. CASE ~started
    <3>1. \A r \in Recordings : ~Reporting(r)
      BY <1>2, <1>7, <2>3
    <3>2. \A t \in Threads : hands[t] = {}
      BY <3>1, HeldReports DEF ClaimsOK
    <3>3. StartsAlone'
      BY <1>1, <1>2, <2>3, <3>1 DEF StartsAlone, Reporting
    <3>4. CountIsKept' /\ MarkedByItsStop' /\ ~repeated'
      BY <1>1, <1>2, <2>1, <2>3 DEF InOneRun, CountIsKept, MarkedByItsStop
    <3>5. EarlierAreWhole'
      <4>1. ASSUME NEW r \in Recordings, NEW i \in announced[r], NEW j \in Nat, j <= i PROVE j \in announced[r]
        <5>1. CASE r # run
          BY <2>1, <4>1, <5>1 DEF InOneRun, EarlierAreWhole
        <5>2. CASE r = run
          <6>1. run # 0 /\ i \in Nat /\ nextChunk \in Nat
            BY <4>1, <5>2, RecordingIs DEF ClaimsOK, RecorderTypeOK
          <6>2. i < nextChunk
            BY <1>1, <2>1, <4>1, <5>2, <6>1 DEF InOneRun, CountIsKept
          <6>3. j < nextChunk
            BY <4>1, <6>1, <6>2
          <6>4. j \in announced[run] \/ InHand(run, j)
            BY <1>1, <2>1, <6>1, <6>3 DEF InOneRun, CountIsKept
          <6> QED
            BY <3>2, <5>2, <6>4 DEF InHand
        <5> QED
          BY <5>1, <5>2
      <4> QED
        BY <1>1, <3>2, <4>1 DEF EarlierAreWhole
    <3> QED
      BY <3>3, <3>4, <3>5 DEF InOneRun
  <2> QED
    BY <2>2, <2>3
<1> QED
  BY <1>3, <1>4, <1>5, <1>6, <1>7 DEF ClaimsOK

\* A claim of a directory, new or used before: what was said of the sessions that
\* used it no longer counts, and the others' are not touched.
LEMMA ClaimFolderKeeps == ASSUME ClaimsOK, ClaimFolder PROVE ClaimsOK'
<1>1. PICK id \in 1 .. posted :
        folder' = id /\ ids' = [ids EXCEPT ![posted] = id] /\ dirs' = [dirs EXCEPT ![id].there = TRUE, ![id].marks = {}]
  BY DEF ClaimFolder
<1>2. /\ starting = "reset" /\ starting' = "claimed" /\ run' = posted
      /\ UNCHANGED <<posted, open, started, watch, stops, nextChunk, clips, hands, announced, fired, repeated, overlapped>>
  BY DEF ClaimFolder, threadVars, claimVars, saidVars
<1>3. posted \in Nat /\ posted <= MaxRecordings /\ run \in Nat /\ run < posted /\ ~started
  BY <1>2 DEF ClaimsOK, RecorderTypeOK, ClaimsInStep
<1>4. posted \in Recordings /\ id \in Recordings
  BY <1>3, RecordingIs, RecorderNats
<1>5. /\ ids \in [Recordings -> Recordings \cup {0}] /\ dirs \in [Recordings -> Folders]
  BY DEF ClaimsOK, RecorderTypeOK
<1>6. /\ ids' \in [Recordings -> Recordings \cup {0}] /\ ids'[posted] = id
      /\ \A q \in Recordings : q # posted => ids'[q] = ids[q]
  BY <1>1, <1>4, <1>5
<1>7. /\ dirs' \in [Recordings -> Folders] /\ dirs'[id].there /\ dirs'[id].marks = {}
      /\ \A d \in Recordings : d # id => dirs'[d] = dirs[d]
  BY <1>1, <1>4, <1>5 DEF Folders
<1>8. RecorderTypeOK'
  <2>1. folder' \in Nat
    BY <1>1, <1>4, RecordingIs
  <2> QED
    BY <1>2, <1>3, <1>6, <1>7, <2>1 DEF ClaimsOK, RecorderTypeOK
<1>9. ClaimsInStep'
  <2>1. posted # 0 /\ folder' = ids'[posted]
    BY <1>1, <1>3, <1>6
  <2>2. \A q \in Recordings : q > posted => ids'[q] = 0 /\ announced[q] = {}
    <3>1. \A q \in Recordings : q > posted => q > run /\ q # posted
      BY <1>3, RecordingIs
    <3> QED
      BY <1>6, <3>1 DEF ClaimsOK, ClaimsInStep
  <2>3. \A t \in Threads : \A n \in hands[t] : n.run <= posted
    <3>1. \A t \in Threads : \A n \in hands[t] : n.run \in Nat /\ n.run <= run
      BY NoticeIs, RecordingIs DEF ClaimsOK, ClaimsInStep, RecorderTypeOK
    <3> QED
      BY <1>3, <3>1
  <2>4. \A f \in fired : f.run <= posted
    <3>1. \A f \in fired : f.run \in Nat /\ f.run <= run
      BY NoticeIs, RecordingIs DEF ClaimsOK, ClaimsInStep, RecorderTypeOK
    <3> QED
      BY <1>3, <3>1
  <2> QED
    BY <1>1, <1>2, <1>3, <1>4, <1>6, <1>7, <2>1, <2>2, <2>3, <2>4 DEF ClaimsOK, ClaimsInStep
<1>10. HandsAreHeld'
  BY <1>2 DEF ClaimsOK, HandsAreHeld
<1>11. ASSUME NEW r \in Recordings, NEW i \in Nat, r <= run, Kept(r) => Closed(ids[r], i)
       PROVE  Kept(r)' => Closed(ids[r], i)'
  <2> SUFFICES ASSUME Kept(r)' PROVE Closed(ids[r], i)'
    OBVIOUS
  <2>1. r \in Nat /\ posted > r /\ r # posted
    BY <1>3, <1>11, RecordingIs
  <2>2. ids'[r] = ids[r] /\ ids[r] # 0 /\ ids[r] # id /\ ids[r] \in Recordings
    BY <1>4, <1>5, <1>6, <2>1 DEF Kept
  <2>3. dirs'[ids[r]] = dirs[ids[r]]
    BY <1>7, <2>2
  <2>4. Kept(r)
    <3>1. \A q \in Recordings : q > r => ids[q] # ids[r]
      <4> SUFFICES ASSUME NEW q \in Recordings, q > r PROVE ids[q] # ids[r]
        OBVIOUS
      <4>1. CASE q = posted
        BY <1>3, <2>2, <4>1 DEF ClaimsOK, ClaimsInStep
      <4>2. CASE q # posted
        BY <1>6, <2>2, <4>2 DEF Kept
      <4> QED
        BY <4>1, <4>2
    <3> QED
      BY <2>2, <2>3, <3>1 DEF Kept
  <2>5. Closed(ids[r], i)
    BY <1>11, <2>4
  <2> QED
    BY <2>2, <2>3, <2>5 DEF Closed
<1>12. SaidIsClosed'
  <2>1. ASSUME NEW t \in Threads, NEW n \in hands'[t] PROVE Kept(n.run)' => Closed(ids[n.run], n.at)'
    <3>1. n \in hands[t] /\ n.run \in Recordings /\ n.at \in Nat /\ n.run <= run
      BY <1>2, <2>1, NoticeIs DEF ClaimsOK, RecorderTypeOK, ClaimsInStep
    <3>2. Kept(n.run) => Closed(ids[n.run], n.at)
      BY <3>1 DEF ClaimsOK, SaidIsClosed
    <3> QED
      BY <1>11, <3>1, <3>2
  <2>2. ASSUME NEW f \in fired' PROVE Kept(f.run)' => Closed(ids[f.run], f.at)'
    <3>1. f \in fired /\ f.run \in Recordings /\ f.at \in Nat /\ f.run <= run
      BY <1>2, <2>2, NoticeIs DEF ClaimsOK, RecorderTypeOK, ClaimsInStep
    <3>2. Kept(f.run) => Closed(ids[f.run], f.at)
      BY <3>1 DEF ClaimsOK, SaidIsClosed
    <3> QED
      BY <1>11, <3>1, <3>2
  <2>3. ASSUME NEW r \in Recordings, NEW i \in announced'[r] PROVE Kept(r)' => Closed(ids[r], i)'
    <3>1. i \in announced[r] /\ i \in Nat
      BY <1>2, <2>3 DEF ClaimsOK, RecorderTypeOK
    <3>2. r <= run
      <4>1. ~(r > run)
        BY <3>1 DEF ClaimsOK, ClaimsInStep
      <4> QED
        BY <1>3, <4>1, RecordingIs
    <3>3. Kept(r) => Closed(ids[r], i)
      BY <3>1 DEF ClaimsOK, SaidIsClosed
    <3> QED
      BY <1>11, <3>1, <3>2, <3>3
  <2> QED
    BY <2>1, <2>2, <2>3 DEF SaidIsClosed
<1>13. ASSUME ~overlapped PROVE InOneRun'
  <2>1. InOneRun
    BY <1>13 DEF ClaimsOK
  <2>2. nextChunk = 0 /\ \A r \in Recordings : ~Reporting(r)
    BY <1>2, <2>1 DEF InOneRun, StartsAlone
  <2>3. \A t \in Threads : hands'[t] = {}
    BY <1>2, <2>2, HeldReports DEF ClaimsOK
  <2>4. announced'[posted] = {}
    BY <1>2, <1>3, <1>4 DEF ClaimsOK, ClaimsInStep
  <2>5. StartsAlone'
    BY <1>2, <2>2 DEF StartsAlone, Reporting
  <2>6. CountIsKept'
    <3>1. \A i \in Nat : ~(i < 0)
      OBVIOUS
    <3> QED
      BY <1>2, <2>2, <2>3, <2>4, <3>1 DEF CountIsKept
  <2>7. EarlierAreWhole' /\ ~repeated'
    BY <1>2, <2>1, <2>3 DEF InOneRun, EarlierAreWhole
  <2>8. MarkedByItsStop'
    BY <1>1, <1>2, <1>3, <1>7 DEF MarkedByItsStop
  <2> QED
    BY <2>5, <2>6, <2>7, <2>8 DEF InOneRun
<1> QED
  BY <1>2, <1>8, <1>9, <1>10, <1>12, <1>13 DEF ClaimsOK

-------------------------------------------------------------------------------
(* Claims and reports.                                                     *)

\* What a thread takes in hand is the running session's, is closed, and is exactly
\* what the count passes over.
LEMMA ClaimIs ==
  ASSUME ClaimsOK, NEW t \in Threads, folder # 0, ClaimChunks(t) \/ ClaimClips(t)
  PROVE  /\ nextChunk' \in Nat /\ nextChunk <= nextChunk' /\ clips' \in SUBSET Nat
         /\ \E ns \in SUBSET Notices :
              /\ hands' = [hands EXCEPT ![t] = ns]
              /\ \A n \in ns : /\ n.run = run /\ Closed(folder, n.at)
                               /\ (~n.clip => nextChunk <= n.at /\ n.at < nextChunk')
              /\ \A i \in Nat : nextChunk <= i /\ i < nextChunk' => \E n \in ns : ~n.clip /\ n.run = run /\ n.at = i
<1>1. run \in Recordings /\ nextChunk \in Nat /\ clips \in SUBSET Nat
  <2>1. run # 0 /\ run \in Nat /\ run <= posted /\ posted \in Nat /\ posted <= MaxRecordings
    BY DEF ClaimsOK, ClaimsInStep, RecorderTypeOK
  <2> QED
    BY <2>1, RecordingIs, RecorderNats DEF ClaimsOK, RecorderTypeOK
<1>2. CASE ClaimChunks(t)
  <2>1. PICK last \in nextChunk .. nextChunk + dirs[folder].segs :
          /\ \A i \in nextChunk .. last - 1 : Closed(folder, i)
          /\ hands' = [hands EXCEPT ![t] = {Notice(i, FALSE) : i \in nextChunk .. last - 1}]
          /\ nextChunk' = last
    BY <1>2 DEF ClaimChunks
  <2>2. clips' = clips
    BY <1>2 DEF ClaimChunks
  <2>3. last \in Nat /\ nextChunk <= last
    <3>1. dirs[folder].segs \in Nat
      <4>1. folder \in Recordings
        BY DEF ClaimsOK, ClaimsInStep
      <4> QED
        BY <4>1, FolderIs DEF ClaimsOK, RecorderTypeOK
    <3> QED
      BY <1>1, <2>1, <3>1
  <2>4. \A i : i \in nextChunk .. last - 1 <=> i \in Nat /\ nextChunk <= i /\ i < last
    BY <1>1, <2>3
  <2> DEFINE span == nextChunk .. last - 1
             ns   == {Notice(i, FALSE) : i \in span}
  <2>5. /\ \A i \in span : i \in Nat /\ nextChunk <= i /\ i < last /\ Closed(folder, i)
        /\ \A i \in Nat : nextChunk <= i /\ i < last => i \in span
        /\ hands' = [hands EXCEPT ![t] = ns]
    BY <2>1, <2>4
  <2> HIDE DEF span
  <2>6. \A n \in ns : n \in Notices /\ n.run = run /\ n.at \in span
    <3> SUFFICES ASSUME NEW i \in span
                 PROVE  Notice(i, FALSE) \in Notices /\ Notice(i, FALSE).run = run /\ Notice(i, FALSE).at \in span
      OBVIOUS
    <3>1. i \in Nat /\ FALSE \in BOOLEAN
      BY <2>5
    <3> QED
      BY <1>1, <3>1 DEF Notice, Notices
  <2>7. \A i \in span : \E n \in ns : ~n.clip /\ n.run = run /\ n.at = i
    <3> SUFFICES ASSUME NEW i \in span PROVE \E n \in ns : ~n.clip /\ n.run = run /\ n.at = i
      OBVIOUS
    <3>1. Notice(i, FALSE) \in ns /\ ~Notice(i, FALSE).clip /\ Notice(i, FALSE).run = run /\ Notice(i, FALSE).at = i
      BY NoticeIs
    <3> QED
      BY <3>1
  <2>8. ns \in SUBSET Notices
    BY <2>6
  <2> HIDE DEF ns
  <2> QED
    BY <1>1, <2>1, <2>2, <2>3, <2>5, <2>6, <2>7, <2>8
<1>3. CASE ClaimClips(t)
  <2> DEFINE landed == {c \in clips : Closed(folder, c)}
             ns     == {Notice(c, TRUE) : c \in landed}
  <2>1. hands' = [hands EXCEPT ![t] = ns] /\ clips' = clips \ landed /\ nextChunk' = nextChunk
    BY <1>3 DEF ClaimClips
  <2>2. \A n \in ns : n \in Notices /\ n.run = run /\ n.at \in landed /\ n.clip
    <3> SUFFICES ASSUME NEW c \in landed
                 PROVE  /\ Notice(c, TRUE) \in Notices /\ Notice(c, TRUE).run = run
                        /\ Notice(c, TRUE).at \in landed /\ Notice(c, TRUE).clip
      OBVIOUS
    <3>1. c \in Nat /\ TRUE \in BOOLEAN
      BY <1>1
    <3> HIDE DEF landed
    <3> QED
      BY <1>1, <3>1 DEF Notice, Notices
  <2>3. \A c \in landed : c \in Nat /\ Closed(folder, c)
    BY <1>1
  <2>4. clips' \in SUBSET Nat /\ ns \in SUBSET Notices
    BY <1>1, <2>1, <2>2
  <2> HIDE DEF landed, ns
  <2>5. \A n \in ns : n.run = run /\ Closed(folder, n.at) /\ n.clip
    BY <2>2, <2>3
  <2>6. \A i \in Nat : ~(nextChunk <= i /\ i < nextChunk) /\ nextChunk <= nextChunk
    BY <1>1
  <2> QED
    BY <1>1, <2>1, <2>4, <2>5, <2>6
<1> QED
  BY <1>2, <1>3

\* The session the count is of is the one claims are made for.
LEMMA ClaimKeeps ==
  ASSUME ClaimsOK, NEW t \in Threads, hands[t] = {}, folder # 0, ClaimChunks(t) \/ ClaimClips(t),
         \E r \in Recordings : Reporting(r), \A q \in Recordings : Reporting(q)' => Reporting(q),
         stops' \in [Recordings -> StopAt], HandsAreHeld',
         \A s \in Recordings : stops[s] \in Marked => stops'[s] \in Marked,
         UNCHANGED <<posted, open, starting, started, run, ids, folder, dirs, watch, announced, fired, repeated,
                     overlapped>>
  PROVE  ClaimsOK'
<1>1. nextChunk' \in Nat /\ nextChunk \in Nat /\ nextChunk <= nextChunk' /\ clips' \in SUBSET Nat
  BY ClaimIs DEF ClaimsOK, RecorderTypeOK
<1>2. PICK ns \in SUBSET Notices :
        /\ hands' = [hands EXCEPT ![t] = ns]
        /\ \A n \in ns : /\ n.run = run /\ Closed(folder, n.at)
                         /\ (~n.clip => nextChunk <= n.at /\ n.at < nextChunk')
        /\ \A i \in Nat : nextChunk <= i /\ i < nextChunk' => \E n \in ns : ~n.clip /\ n.run = run /\ n.at = i
  BY ClaimIs
<1>3. /\ hands \in [Threads -> SUBSET Notices] /\ hands'[t] = ns /\ \A u \in Threads : u # t => hands'[u] = hands[u]
      /\ hands' \in [Threads -> SUBSET Notices]
  BY <1>2 DEF ClaimsOK, RecorderTypeOK
<1>4. run \in Nat /\ run # 0 /\ folder = ids[run] /\ \A u \in Threads : \A n \in hands[u] : n.run <= run
  BY DEF ClaimsOK, ClaimsInStep, RecorderTypeOK
<1>5. RecorderTypeOK'
  BY <1>1, <1>3 DEF ClaimsOK, RecorderTypeOK
<1>6. ClaimsInStep'
  <2>1. \A u \in Threads : \A n \in hands'[u] : n.run <= run
    <3>1. \A n \in ns : n.run <= run
      BY <1>2, <1>4
    <3> QED
      BY <1>3, <1>4, <3>1
  <2> QED
    BY <2>1 DEF ClaimsOK, ClaimsInStep
<1>7. SaidIsClosed'
  <2>1. \A r : Kept(r)' <=> Kept(r)
    BY DEF Kept
  <2>2. \A d, i : Closed(d, i)' <=> Closed(d, i)
    BY DEF Closed
  <2>3. \A n \in ns : Closed(ids[n.run], n.at)
    BY <1>2, <1>4
  <2>4. \A u \in Threads : \A n \in hands'[u] : Kept(n.run) => Closed(ids[n.run], n.at)
    BY <1>3, <2>3 DEF ClaimsOK, SaidIsClosed
  <2>5. \A f \in fired : Kept(f.run) => Closed(ids[f.run], f.at)
    BY DEF ClaimsOK, SaidIsClosed
  <2>6. \A r \in Recordings : \A i \in announced[r] : Kept(r) => Closed(ids[r], i)
    BY DEF ClaimsOK, SaidIsClosed
  <2> QED
    BY <2>1, <2>2, <2>4, <2>5, <2>6 DEF SaidIsClosed
<1>8. ASSUME ~overlapped PROVE InOneRun'
  <2>0. InOneRun /\ starting = "no"
    BY <1>8 DEF ClaimsOK, InOneRun, StartsAlone
  <2>1. /\ \A i \in announced[run] : i < nextChunk /\ i \in Nat
        /\ \A i \in Nat : i < nextChunk => i \in announced[run] \/ InHand(run, i)
        /\ \A u \in Threads : \A n \in hands[u] : ~n.clip => n.at < nextChunk /\ n.at \notin announced[run]
        /\ \A u, v \in Threads : u # v => \A n \in hands[u], m \in hands[v] : ~n.clip /\ ~m.clip => n.at # m.at
    <3>1. \A i \in announced[run] : i \in Nat
      <4>1. run \in Recordings
        <5>1. run <= posted /\ posted \in Nat /\ posted <= MaxRecordings
          BY DEF ClaimsOK, ClaimsInStep, RecorderTypeOK
        <5> QED
          BY <1>4, <5>1, RecordingIs, RecorderNats
      <4> QED
        BY <4>1 DEF ClaimsOK, RecorderTypeOK
    <3> QED
      BY <1>4, <2>0, <3>1 DEF InOneRun, CountIsKept
  <2>2. \A u \in Threads : \A n \in hands[u] : n.at \in Nat /\ u # t
    BY <1>3, NoticeIs
  <2>3. \A n \in ns : n.at \in Nat
    BY NoticeIs
  <2>4. \A i \in announced[run] : i < nextChunk'
    BY <1>1, <2>1
  <2>5. \A i \in Nat : i < nextChunk' => i \in announced[run] \/ InHand(run, i)'
    <3> SUFFICES ASSUME NEW i \in Nat, i < nextChunk', i \notin announced[run] PROVE InHand(run, i)'
      OBVIOUS
    <3>1. CASE i < nextChunk
      <4>1. PICK u \in Threads : \E n \in hands[u] : ~n.clip /\ n.run = run /\ n.at = i
        BY <2>1, <3>1 DEF InHand
      <4>2. hands'[u] = hands[u]
        BY <1>3, <2>2, <4>1
      <4> QED
        BY <4>1, <4>2 DEF InHand
    <3>2. CASE ~(i < nextChunk)
      <4>1. nextChunk <= i
        BY <1>1, <3>2
      <4>2. \E n \in ns : ~n.clip /\ n.run = run /\ n.at = i
        BY <1>2, <4>1
      <4> QED
        BY <1>3, <4>2 DEF InHand
    <3> QED
      BY <3>1, <3>2
  <2>6. \A n \in ns : ~n.clip => n.at < nextChunk' /\ n.at \notin announced[run]
    BY <1>1, <1>2, <2>1, <2>3
  <2>7. \A u \in Threads : \A n \in hands'[u] : ~n.clip => n.at < nextChunk' /\ n.at \notin announced[run]
    <3>1. \A u \in Threads : \A n \in hands[u] : ~n.clip => n.at < nextChunk' /\ n.at \notin announced[run]
      BY <1>1, <2>1, <2>2
    <3> QED
      BY <1>3, <2>6, <3>1
  <2>8. \A u \in Threads : \A n \in hands[u], m \in ns : ~n.clip /\ ~m.clip => n.at # m.at
    BY <1>1, <1>2, <2>1, <2>2, <2>3
  <2>9. \A u, v \in Threads : u # v => \A n \in hands'[u], m \in hands'[v] : ~n.clip /\ ~m.clip => n.at # m.at
    <3> SUFFICES ASSUME NEW u \in Threads, NEW v \in Threads, u # v, NEW n \in hands'[u], NEW m \in hands'[v],
                        ~n.clip, ~m.clip
                 PROVE  n.at # m.at
      OBVIOUS
    <3>1. CASE u = t
      BY <1>3, <2>8, <3>1
    <3>2. CASE v = t
      BY <1>3, <2>8, <3>2
    <3>3. CASE u # t /\ v # t
      BY <1>3, <2>1, <3>3
    <3> QED
      BY <3>1, <3>2, <3>3
  <2>10. CountIsKept'
    BY <2>4, <2>5, <2>7, <2>9 DEF CountIsKept
  <2>11. EarlierAreWhole'
    <3>1. \A u \in Threads : \A n \in hands'[u] : n.run = run
      BY <1>2, <1>3, <2>0 DEF InOneRun, EarlierAreWhole
    <3> QED
      BY <2>0, <3>1 DEF InOneRun, EarlierAreWhole
  <2>12. StartsAlone' /\ MarkedByItsStop' /\ ~repeated'
    BY <2>0 DEF InOneRun, StartsAlone, MarkedByItsStop
  <2> QED
    BY <2>10, <2>11, <2>12 DEF InOneRun
<1> QED
  BY <1>5, <1>6, <1>7, <1>8 DEF ClaimsOK

LEMMA WatchClaimsKeeps == ASSUME ClaimsOK, NEW r \in Recordings, WatchClaims(r) PROVE ClaimsOK'
<1> DEFINE t == <<"watch", r>>
<1>1. /\ watch[r] = "idle" /\ hands[t] = {} /\ folder # 0 /\ (ClaimChunks(t) \/ ClaimClips(t))
      /\ UNCHANGED <<posted, open, starting, started, run, ids, folder, dirs, watch, stops, announced, fired, repeated,
                     overlapped>>
  BY DEF WatchClaims, threadVars, saidVars
<1>2. t \in Threads /\ \A q \in Recordings : <<"stop", q>> # t /\ <<"stop", q>> \in Threads /\ <<"watch", q>> \in Threads
  BY ThreadIs
<1>3. \E ns : hands' = [hands EXCEPT ![t] = ns]
  BY <1>1, <1>2, ClaimIs
<1> HIDE DEF t
<1>4. \A u \in Threads : u # t => hands'[u] = hands[u]
  BY <1>3 DEF ClaimsOK, RecorderTypeOK
<1>5. HandsAreHeld'
  <2>1. \A q \in Recordings : hands'[<<"stop", q>>] # {} => stops'[q] \in {"announcing", "firing"}
    BY <1>1, <1>2, <1>4 DEF ClaimsOK, HandsAreHeld
  <2>2. \A q \in Recordings : hands'[<<"watch", q>>] # {} => watch'[q] = "idle"
    <3> SUFFICES ASSUME NEW q \in Recordings, hands'[<<"watch", q>>] # {} PROVE watch[q] = "idle"
      BY <1>1
    <3>1. CASE q = r
      BY <1>1, <3>1
    <3>2. CASE q # r
      <4>1. <<"watch", q>> # t
        BY <3>2, ThreadIs DEF t
      <4> QED
        BY <1>2, <1>4, <4>1 DEF ClaimsOK, HandsAreHeld
    <3> QED
      BY <3>1, <3>2
  <2> QED
    BY <1>1, <2>1, <2>2 DEF ClaimsOK, HandsAreHeld
<1>6. \A q \in Recordings : Reporting(q)' => Reporting(q)
  BY <1>1 DEF Reporting
<1>7. Reporting(r) /\ stops' \in [Recordings -> StopAt]
  BY <1>1 DEF Reporting, ClaimsOK, RecorderTypeOK
<1> QED
  BY <1>1, <1>2, <1>5, <1>6, <1>7, ClaimKeeps

LEMMA StopClaimsKeeps == ASSUME ClaimsOK, NEW s \in Recordings, StopClaims(s) PROVE ClaimsOK'
<1>1. CASE folder = 0
  BY <1>1, StopsKeep
<1>2. CASE folder # 0
  <2> DEFINE t == <<"stop", s>>
  <2>1. /\ stops[s] \in Marked /\ hands[t] = {} /\ (ClaimChunks(t) \/ ClaimClips(t))
        /\ \E x \in {"announcing", "firing"} : stops' = [stops EXCEPT ![s] = x]
        /\ UNCHANGED <<posted, open, starting, started, run, ids, folder, dirs, watch, announced, fired, repeated,
                       overlapped>>
    BY <1>2 DEF StopClaims, stopOnly, saidVars, Marked
  <2>2. PICK x \in {"announcing", "firing"} : stops' = [stops EXCEPT ![s] = x]
    BY <2>1
  <2>3. t \in Threads /\ \A q \in Recordings : <<"watch", q>> # t /\ <<"stop", q>> \in Threads /\ <<"watch", q>> \in Threads
    BY ThreadIs
  <2>4. \E ns : hands' = [hands EXCEPT ![t] = ns]
    BY <1>2, <2>1, <2>3, ClaimIs
  <2> HIDE DEF t
  <2>5. \A u \in Threads : u # t => hands'[u] = hands[u]
    BY <2>4 DEF ClaimsOK, RecorderTypeOK
  <2>6. stops \in [Recordings -> StopAt] /\ stops'[s] = x /\ \A q \in Recordings : q # s => stops'[q] = stops[q]
    BY <2>2 DEF ClaimsOK, RecorderTypeOK
  <2>7. HandsAreHeld'
    <3>1. \A q \in Recordings : hands'[<<"watch", q>>] # {} => watch'[q] = "idle"
      BY <2>1, <2>3, <2>5 DEF ClaimsOK, HandsAreHeld
    <3>2. \A q \in Recordings : hands'[<<"stop", q>>] # {} => stops'[q] \in {"announcing", "firing"}
      <4> SUFFICES ASSUME NEW q \in Recordings, hands'[<<"stop", q>>] # {} PROVE stops'[q] \in {"announcing", "firing"}
        OBVIOUS
      <4>1. CASE q = s
        BY <2>6, <4>1
      <4>2. CASE q # s
        <5>1. <<"stop", q>> # t
          BY <4>2, ThreadIs DEF t
        <5> QED
          BY <2>3, <2>5, <2>6, <4>2, <5>1 DEF ClaimsOK, HandsAreHeld
      <4> QED
        BY <4>1, <4>2
    <3>3. \A q \in Recordings : q > posted \/ (q = posted /\ open) => stops'[q] = "none"
      BY <2>1, <2>6 DEF ClaimsOK, HandsAreHeld, Marked
    <3> QED
      BY <2>1, <3>1, <3>2, <3>3 DEF HandsAreHeld
  <2>8. Reporting(s) /\ \A q \in Recordings : Reporting(q)' => Reporting(q)
    BY <2>1, <2>6 DEF Reporting, Marked
  <2>9. /\ stops' \in [Recordings -> StopAt]
        /\ \A q \in Recordings : stops[q] \in Marked => stops'[q] \in Marked
    BY <2>2, <2>6 DEF StopAt, Marked
  <2> QED
    BY <1>2, <2>1, <2>3, <2>7, <2>8, <2>9, ClaimKeeps
<1> QED
  BY <1>1, <1>2

\* A report moves a notice from a hand to what was said.
LEMMA ReportKeeps == ASSUME ClaimsOK, NEW t \in Threads, Report(t) PROVE ClaimsOK'
<1>1. PICK n \in hands[t] :
        /\ hands' = [hands EXCEPT ![t] = @ \ {n}]
        /\ IF n.clip THEN fired' = fired \cup {n} /\ UNCHANGED <<announced, repeated>>
           ELSE /\ announced' = [announced EXCEPT ![n.run] = @ \cup {n.at}]
                /\ repeated' = (repeated \/ n.at \in announced[n.run])
                /\ UNCHANGED fired
  BY DEF Report
<1>2. UNCHANGED <<posted, open, starting, started, run, ids, folder, dirs, watch, stops, nextChunk, clips, overlapped>>
  BY DEF Report, threadVars
<1>3. /\ hands \in [Threads -> SUBSET Notices] /\ announced \in [Recordings -> SUBSET Nat] /\ fired \in SUBSET Notices
      /\ repeated \in BOOLEAN
  BY DEF ClaimsOK, RecorderTypeOK
<1>4. n \in Notices /\ n.run \in Recordings /\ n.at \in Nat /\ n.clip \in BOOLEAN
  BY <1>3, NoticeIs
<1>5. /\ hands'[t] = hands[t] \ {n} /\ (\A u \in Threads : u # t => hands'[u] = hands[u])
      /\ (\A u \in Threads : hands'[u] \subseteq hands[u])
  BY <1>1, <1>3
<1>6. hands' \in [Threads -> SUBSET Notices]
  BY <1>1, <1>3
<1>7. announced' \in [Recordings -> SUBSET Nat] /\ fired' \in SUBSET Notices
  BY <1>1, <1>3, <1>4
<1>8. repeated' \in BOOLEAN
  <2>1. CASE n.clip
    BY <1>1, <1>3, <2>1
  <2>2. CASE ~n.clip
    BY <1>1, <2>2
  <2> QED
    BY <2>1, <2>2
<1>9. RecorderTypeOK'
  BY <1>2, <1>6, <1>7, <1>8 DEF ClaimsOK, RecorderTypeOK
<1>10. /\ \A r \in Recordings : announced'[r] # announced[r] => r = n.run /\ ~n.clip
       /\ \A r \in Recordings : \A i \in announced'[r] : i \in announced[r] \/ (r = n.run /\ i = n.at)
       /\ \A f \in fired' : f \in fired \/ f = n
  BY <1>1, <1>3, <1>4
<1>11. n.run <= run
  BY DEF ClaimsOK, ClaimsInStep
<1>12. ClaimsInStep'
  <2>1. \A q \in Recordings : q > run => announced'[q] = {}
    <3>1. \A q \in Recordings : q > run => q # n.run /\ announced[q] = {}
      <4>1. run \in Nat
        BY DEF ClaimsOK, RecorderTypeOK
      <4> QED
        BY <1>4, <1>11, <4>1, RecordingIs DEF ClaimsOK, ClaimsInStep
    <3> QED
      BY <1>10, <3>1
  <2>2. \A u \in Threads : \A m \in hands'[u] : m.run <= run
    BY <1>5 DEF ClaimsOK, ClaimsInStep
  <2>3. \A f \in fired' : f.run <= run
    BY <1>10, <1>11 DEF ClaimsOK, ClaimsInStep
  <2> QED
    BY <1>2, <2>1, <2>2, <2>3 DEF ClaimsOK, ClaimsInStep
<1>13. HandsAreHeld'
  <2>1. \A u \in Threads : hands'[u] # {} => hands[u] # {}
    BY <1>5
  <2> QED
    BY <1>2, <2>1, ThreadIs DEF ClaimsOK, HandsAreHeld
<1>14. SaidIsClosed'
  <2>1. \A r : Kept(r)' <=> Kept(r)
    BY <1>2 DEF Kept
  <2>2. \A d, i : Closed(d, i)' <=> Closed(d, i)
    BY <1>2 DEF Closed
  <2>3. \A u \in Threads : \A m \in hands[u] : Kept(m.run) => Closed(ids[m.run], m.at)
    BY DEF ClaimsOK, SaidIsClosed
  <2>4. \A f \in fired' : Kept(f.run) => Closed(ids[f.run], f.at)
    BY <1>10, <2>3 DEF ClaimsOK, SaidIsClosed
  <2>5. \A r \in Recordings : \A i \in announced'[r] : Kept(r) => Closed(ids[r], i)
    BY <1>10, <2>3 DEF ClaimsOK, SaidIsClosed
  <2>6. \A u \in Threads : \A m \in hands'[u] : Kept(m.run) => Closed(ids[m.run], m.at)
    BY <1>5, <2>3
  <2> QED
    BY <1>2, <2>1, <2>2, <2>4, <2>5, <2>6 DEF SaidIsClosed
<1>15. ASSUME ~overlapped PROVE InOneRun'
  <2>0. InOneRun
    BY <1>15 DEF ClaimsOK
  <2>1. starting = "no" /\ n.run = run /\ run # 0 /\ run \in Recordings
    <3>1. \E r \in Recordings : Reporting(r)
      BY HeldReports DEF ClaimsOK
    <3>2. n.run = run
      BY <2>0 DEF InOneRun, EarlierAreWhole
    <3> QED
      BY <1>4, <2>0, <3>1, <3>2, RecordingIs DEF InOneRun, StartsAlone
  <2>2. /\ \A i \in announced[run] : i < nextChunk
        /\ \A i \in Nat : i < nextChunk => i \in announced[run] \/ InHand(run, i)
        /\ \A u \in Threads : \A m \in hands[u] : ~m.clip => m.at < nextChunk /\ m.at \notin announced[run]
        /\ \A u, v \in Threads : u # v => \A m \in hands[u], k \in hands[v] : ~m.clip /\ ~k.clip => m.at # k.at
    BY <2>0, <2>1 DEF InOneRun, CountIsKept
  <2>3. \A u \in Threads : \A m \in hands[u] : m.run = run /\ m \in Notices
    BY <1>3, <2>0 DEF InOneRun, EarlierAreWhole
  <2>4. StartsAlone' /\ MarkedByItsStop'
    BY <1>2, <2>0 DEF InOneRun, StartsAlone, MarkedByItsStop, Reporting
  <2>5. EarlierAreWhole'
    <3>1. \A r \in Recordings : r # run => announced'[r] = announced[r]
      BY <1>10, <2>1
    <3>2. \A u \in Threads : \A m \in hands'[u] : m.run = run
      BY <1>5, <2>3
    <3> QED
      BY <1>2, <2>0, <2>1, <3>1, <3>2 DEF InOneRun, EarlierAreWhole
  <2>6. CASE n.clip
    <3>1. announced' = announced /\ ~repeated'
      BY <1>1, <2>0, <2>6 DEF InOneRun
    <3>2. \A i \in Nat : InHand(run, i) => InHand(run, i)'
      <4> SUFFICES ASSUME NEW i \in Nat, InHand(run, i) PROVE InHand(run, i)'
        OBVIOUS
      <4>0. PICK u \in Threads : \E m \in hands[u] : ~m.clip /\ m.run = run /\ m.at = i
        BY DEF InHand
      <4>1. PICK m \in hands[u] : ~m.clip /\ m.run = run /\ m.at = i
        BY <4>0
      <4>2. m \in hands'[u]
        BY <1>5, <2>6, <4>1
      <4> QED
        BY <1>2, <4>1, <4>2 DEF InHand
    <3>3. CountIsKept'
      BY <1>2, <1>5, <2>2, <3>1, <3>2 DEF CountIsKept
    <3> QED
      BY <2>4, <2>5, <3>1, <3>3 DEF InOneRun
  <2>7. CASE ~n.clip
    <3>1. announced'[run] = announced[run] \cup {n.at}
      BY <1>1, <1>3, <2>1, <2>7
    <3>2. n.at \notin announced[run] /\ n.at < nextChunk
      BY <2>2, <2>7
    <3>3. ~repeated'
      <4>1. ~repeated
        BY <2>0 DEF InOneRun
      <4>2. n.at \notin announced[n.run]
        BY <2>1, <3>2
      <4>3. repeated' = (repeated \/ n.at \in announced[n.run])
        BY <1>1, <2>7
      <4> QED
        BY <4>1, <4>2, <4>3, Zenon
    <3>4. \A i \in Nat : i < nextChunk => i \in announced'[run] \/ InHand(run, i)'
      <4> SUFFICES ASSUME NEW i \in Nat, i < nextChunk, i \notin announced'[run] PROVE InHand(run, i)'
        OBVIOUS
      <4>1. i \notin announced[run] /\ i # n.at
        BY <3>1
      <4>0. PICK u \in Threads : \E m \in hands[u] : ~m.clip /\ m.run = run /\ m.at = i
        BY <2>2, <4>1 DEF InHand
      <4>2. PICK m \in hands[u] : ~m.clip /\ m.run = run /\ m.at = i
        BY <4>0
      <4>3. m \in hands'[u]
        BY <1>5, <4>1, <4>2
      <4> QED
        BY <1>2, <4>2, <4>3 DEF InHand
    <3>5. \A u \in Threads : \A m \in hands'[u] : ~m.clip => m.at # n.at
      <4> SUFFICES ASSUME NEW u \in Threads, NEW m \in hands'[u], ~m.clip PROVE m.at # n.at
        OBVIOUS
      <4>1. CASE u # t
        BY <1>5, <2>2, <2>7, <4>1
      <4>2. CASE u = t
        <5>1. m # n /\ m \in Notices /\ m.run = n.run
          BY <1>5, <2>1, <2>3, <4>2
        <5>2. m.clip = n.clip
          <6>1. m.clip \in BOOLEAN
            BY <5>1, NoticeIs
          <6> QED
            BY <1>4, <2>7, <6>1
        <5> QED
          BY <1>4, <5>1, <5>2, NoticeIs
      <4> QED
        BY <4>1, <4>2
    <3>6. \A u \in Threads : \A m \in hands'[u] : ~m.clip => m.at < nextChunk /\ m.at \notin announced'[run]
      BY <1>5, <2>2, <3>1, <3>5
    <3>7. CountIsKept'
      <4>1. \A i \in announced'[run] : i < nextChunk
        BY <2>2, <3>1, <3>2
      <4>2. \A u, v \in Threads : u # v => \A m \in hands'[u], k \in hands'[v] : ~m.clip /\ ~k.clip => m.at # k.at
        BY <1>5, <2>2
      <4> QED
        BY <1>2, <3>4, <3>6, <4>1, <4>2 DEF CountIsKept
    <3> QED
      BY <2>4, <2>5, <3>3, <3>7 DEF InOneRun
  <2> QED
    BY <2>6, <2>7
<1> QED
  BY <1>2, <1>9, <1>12, <1>13, <1>14, <1>15 DEF ClaimsOK

-------------------------------------------------------------------------------
(* The theorem. *)

LEMMA RecorderStep == RecorderInv /\ [RecorderNext]_recorderVars => RecorderInv'
<1> SUFFICES ASSUME RecorderInv, [RecorderNext]_recorderVars PROVE RecorderInv'
  OBVIOUS
<1> USE DEF RecorderInv
<1>1. FeedOK'
  <2>1. CASE EmitChunk \/ BuildEncoder \/ QueueFrame \/ DropFrame
    BY <2>1, EmitKeepsFeed DEF ClaimsOK
  <2>2. ASSUME NEW r \in Recordings, FeedTakes(r) \/ FeedExits(r) \/ FeedEnters(r) \/ FeedWrites(r) \/ FeedFails(r)
        PROVE  FeedOK'
    BY <2>2, FeedKeepsFeed
  <2>3. CASE StartRecorder \/ SpawnWorkers \/ \E s \in Recordings : StopBegins(s) \/ StopCloses(s)
    BY <2>3, OthersKeepFeed
  <2>4. CASE ClaimFolder
    <3>1. UNCHANGED <<encoder, encoders, feedQueue, feeder, emitting>> /\ fed' = 0
      BY <2>4 DEF ClaimFolder, threadVars
    <3> QED
      BY <3>1 DEF FeedOK
  <2>5. CASE EndSession \/ RequestClip \/ UNCHANGED recorderVars
    BY <2>5, OthersKeepFeed DEF feedVars, EndSession, RequestClip, recorderVars, threadVars
  <2>6. ASSUME NEW r \in Recordings,
               \/ WatchClaims(r) \/ WatchExits(r) \/ StopJoins(r) \/ StopMarks(r) \/ StopClaims(r)
               \/ StopWinds(r) \/ StopEnds(r) \/ Reap(r)
        PROVE  FeedOK'
    BY <2>6, OthersKeepFeed
       DEF feedVars, WatchClaims, WatchExits, StopJoins, StopMarks, StopClaims, StopWinds, StopEnds, Reap, threadVars,
           stopOnly
  <2>7. ASSUME NEW t \in Threads, Report(t) PROVE FeedOK'
    BY <2>7, OthersKeepFeed DEF feedVars, Report, threadVars
  <2> QED
    BY <2>1, <2>2, <2>3, <2>4, <2>5, <2>6, <2>7 DEF RecorderNext
<1>2. ClaimsOK'
  <2>0. clips \in SUBSET Nat
    BY DEF ClaimsOK, RecorderTypeOK
  <2>1. CASE EmitChunk \/ BuildEncoder \/ QueueFrame \/ DropFrame
    <3>1. UNCHANGED claimedVars /\ clips' = clips
      BY <2>1 DEF claimedVars, EmitChunk, BuildEncoder, QueueFrame, DropFrame, threadVars, claimVars, saidVars
    <3> QED
      BY <2>0, <3>1, Aside
  <2>2. ASSUME NEW r \in Recordings, FeedTakes(r) \/ FeedExits(r) \/ FeedEnters(r) \/ FeedFails(r)
        PROVE  ClaimsOK'
    <3>1. UNCHANGED claimedVars /\ clips' = clips
      BY <2>2 DEF claimedVars, FeedTakes, FeedExits, FeedEnters, FeedFails, otherThreads, claimVars, saidVars
    <3> QED
      BY <2>0, <3>1, Aside
  <2>3. CASE RequestClip
    <3>1. UNCHANGED claimedVars /\ clips' = clips \cup {(fed - 1) \div Segment}
      BY <2>3 DEF claimedVars, RequestClip, threadVars, saidVars
    <3>2. (fed - 1) \div Segment \in Nat
      <4>1. fed - 1 \in Nat
        BY <2>3 DEF RequestClip, FeedOK
      <4> QED
        BY <4>1, RecorderNats, QuotientIs
    <3> QED
      BY <2>0, <3>1, <3>2, Aside
  <2>4. CASE UNCHANGED recorderVars
    <3>1. UNCHANGED claimedVars /\ clips' = clips
      BY <2>4 DEF claimedVars, recorderVars, threadVars, claimVars, saidVars
    <3> QED
      BY <2>0, <3>1, Aside
  <2>5. CASE StartRecorder \/ ClaimFolder \/ SpawnWorkers \/ EndSession
    BY <2>5, StartKeeps, ClaimFolderKeeps, SpawnKeeps, EndSessionKeeps
  <2>6. ASSUME NEW r \in Recordings, FeedWrites(r) \/ Reap(r) \/ WatchClaims(r) \/ WatchExits(r) PROVE ClaimsOK'
    BY <2>6, FeedWritesKeeps, ReapKeeps, WatchClaimsKeeps, WatchExitsKeeps
  <2>7. ASSUME NEW s \in Recordings,
               \/ StopBegins(s) \/ StopJoins(s) \/ StopCloses(s) \/ StopMarks(s) \/ StopClaims(s)
               \/ StopWinds(s) \/ StopEnds(s)
        PROVE  ClaimsOK'
    BY <2>7, StopsKeep, StopMarksKeeps, StopClaimsKeeps
  <2>8. ASSUME NEW t \in Threads, Report(t) PROVE ClaimsOK'
    BY <2>8, ReportKeeps
  <2> QED
    BY <2>1, <2>2, <2>3, <2>4, <2>5, <2>6, <2>7, <2>8 DEF RecorderNext
<1> QED
  BY <1>1, <1>2

LEMMA RecorderInvServes == RecorderInv => RecordingIsServed
<1> SUFFICES ASSUME RecorderInv PROVE RecordingIsServed
  OBVIOUS
<1> USE DEF RecorderInv
<1>1. AnnouncedOnce
  <2> SUFFICES ASSUME ~overlapped PROVE
        /\ ~repeated
        /\ \A r \in Recordings : \A i \in announced[r] :
             /\ \A j \in 0 .. i : j \in announced[r] \/ InHand(r, j)
             /\ Kept(r) => Closed(ids[r], i)
    BY DEF AnnouncedOnce
  <2>1. InOneRun
    BY DEF ClaimsOK
  <2>2. ASSUME NEW r \in Recordings, NEW i \in announced[r], NEW j \in 0 .. i PROVE j \in announced[r] \/ InHand(r, j)
    <3>1. i \in Nat /\ j \in Nat /\ j <= i /\ nextChunk \in Nat
      BY <2>2 DEF ClaimsOK, RecorderTypeOK
    <3>2. CASE r # run \/ starting = "reset"
      BY <2>1, <2>2, <3>1, <3>2 DEF InOneRun, EarlierAreWhole
    <3>3. CASE r = run /\ starting # "reset"
      <4>1. run # 0
        BY <3>3, RecordingIs
      <4>2. i < nextChunk
        BY <2>1, <2>2, <3>3, <4>1 DEF InOneRun, CountIsKept
      <4>3. j < nextChunk
        BY <3>1, <4>2
      <4> QED
        BY <2>1, <3>1, <3>3, <4>1, <4>3 DEF InOneRun, CountIsKept
    <3> QED
      BY <3>2, <3>3
  <2>3. \A r \in Recordings : \A i \in announced[r] : Kept(r) => Closed(ids[r], i)
    BY DEF ClaimsOK, SaidIsClosed
  <2> QED
    BY <2>1, <2>2, <2>3 DEF InOneRun
<1>2. ReadyIsFetchable
  BY DEF ClaimsOK, SaidIsClosed, ReadyIsFetchable, Manifest, Kept
<1>3. LiveIsKept
  <2> SUFFICES ASSUME started PROVE LiveIsKept
    BY DEF LiveIsKept
  <2>1. folder # 0 /\ dirs[folder].there
    BY RecordingIs DEF ClaimsOK, ClaimsInStep
  <2>2. overlapped \/ dirs[folder].marks = {} \/ \E s \in Recordings : stops[s] \in Marked
    BY DEF ClaimsOK, InOneRun, MarkedByItsStop
  <2> QED
    BY <2>1, <2>2 DEF LiveIsKept
<1> QED
  BY <1>1, <1>2, <1>3 DEF RecordingIsServed

\* Unless the recorder was started again while a thread of an earlier session could
\* still report, a segment is announced once, by the watch thread or by stop, and
\* none is passed over, though their callbacks come in either order; what was
\* announced or reported ready can be fetched for as long as its directory is its
\* session's; and no directory is reaped, or reads as ended by an earlier session of
\* its id, while a session records into it: for any number of sessions, ids used
\* again, stops under way, chunks and clips and any length of a segment and of the
\* feed queue (recorder.py).
THEOREM RecordingSafe == RecorderSpec => []RecordingIsServed
<1>1. RecorderSpec => []RecorderInv
  BY RecorderStarts, RecorderStep, PTL DEF RecorderSpec
<1> QED
  BY <1>1, RecorderInvServes, PTL

-------------------------------------------------------------------------------
(* Statistics.                                                             *)

StatTypeOK ==
  /\ tallied \in Nat /\ emission \in Nat
  /\ output \in [session : Nat, frames : Nat, window : Nat, mine : Nat]
  /\ told \in [frames : Nat, total : Nat, readings : Nat, stages : [StatConns -> Nat]]
  /\ stages \in [held : [StatConns -> Nat], mine : [StatConns -> Nat]]
  /\ wire \in [total : Nat, true : Nat, restarts : {0, 1}, samples : Nat, seen : BOOLEAN, last : Nat,
               first : Nat, counter : Nat, window : Nat, taken : Nat]

\* The counts are those of the session posted last.
CountsInSession == output.session = tallied

\* What the counter has, and the next sample would add to it, is no more than the
\* wire's frames; while the wire has not restarted, it is all of them.
WireInLine ==
  /\ wire.counter + Advance(wire.total, wire.last) <= wire.true
  /\ wire.restarts = 0 =>
       /\ wire.first <= wire.last /\ wire.last <= wire.total
       /\ wire.counter + (wire.total - wire.last) = wire.true
       /\ wire.taken + wire.window = wire.last - wire.first
       /\ ~wire.seen => wire.last = 0 /\ wire.first = 0

StatInv == StatTypeOK /\ CountsInSession /\ ReadingsAddUp /\ WireInLine

LEMMA StatInvInit == StatInit => StatInv
<1> SUFFICES ASSUME StatInit PROVE StatInv
  OBVIOUS
<1>1. StatTypeOK
  BY DEF StatInit, StatTypeOK, NoneTold, Nothing
<1>2. CountsInSession /\ ReadingsAddUp
  BY DEF StatInit, CountsInSession, ReadingsAddUp, NoneTold, Nothing
<1>3. WireInLine
  BY DEF StatInit, WireInLine, Advance
<1> QED
  BY <1>1, <1>2, <1>3 DEF StatInv

\* The steps of the session's counts.
LEMMA CountKeepsStats == ASSUME StatInv, CountNext PROVE StatInv'
<1> USE DEF StatInv
<1>1. ASSUME UNCHANGED wire PROVE WireInLine'
  BY <1>1 DEF WireInLine, Advance
<1>2. CASE StatsStart
  <2>1. StatTypeOK'
    BY <1>2 DEF StatTypeOK, StatsStart, NoneTold, Nothing
  <2>2. CountsInSession' /\ ReadingsAddUp'
    BY <1>2 DEF StatsStart, CountsInSession, ReadingsAddUp, NoneTold, Nothing
  <2> QED
    BY <1>1, <1>2, <2>1, <2>2 DEF StatsStart
<1>3. CASE JournalStats
  <2>1. stages'.held = Merge(stages.held) /\ stages'.mine = stages.mine /\ stages' \in [held : [StatConns -> Nat], mine : [StatConns -> Nat]]
    BY <1>3 DEF JournalStats, StatTypeOK, Merge
  <2>2. output' = [output EXCEPT !.window = 0]
    BY <1>3 DEF JournalStats, Take
  <2>3. told'.frames = told.frames + output.window /\ told' \in [frames : Nat, total : Nat, readings : Nat, stages : [StatConns -> Nat]]
    BY <1>3 DEF JournalStats, StatTypeOK
  <2>4. \A c \in StatConns : told'.stages[c] = told.stages[c] + (IF c \in readable THEN stages.held[c] ELSE 0)
    BY <1>3 DEF JournalStats
  <2>5. StatTypeOK'
    BY <1>3, <2>1, <2>2, <2>3 DEF JournalStats, StatTypeOK
  <2>6. ReadingsAddUp'
    <3>1. told'.frames + output'.window = output'.frames /\ output'.frames = output'.mine
      BY <2>2, <2>3 DEF ReadingsAddUp, StatTypeOK
    <3>2. \A c \in StatConns : told'.stages[c] + stages'.held[c] = stages'.mine[c]
      BY <2>1, <2>4 DEF ReadingsAddUp, StatTypeOK, Merge
    <3> QED
      BY <3>1, <3>2 DEF ReadingsAddUp
  <2>7. CountsInSession'
    BY <1>3, <2>2 DEF JournalStats, CountsInSession, StatTypeOK
  <2> QED
    BY <1>1, <1>3, <2>5, <2>6, <2>7 DEF JournalStats
<1>4. CASE Emitted
  <2>1. StatTypeOK' /\ CountsInSession'
    <3> DEFINE f == output.frames + 1
               w == output.window + 1
               m == output.mine + IF emission = tallied THEN 1 ELSE 0
    <3>1. f \in Nat /\ w \in Nat /\ m \in Nat
      BY DEF StatTypeOK
    <3>2. output' = output \/ output' = [output EXCEPT !.frames = f, !.window = w, !.mine = m]
      BY <1>4 DEF Emitted
    <3> HIDE DEF f, w, m
    <3>3. output' \in [session : Nat, frames : Nat, window : Nat, mine : Nat] /\ output'.session = output.session
      BY <3>1, <3>2 DEF StatTypeOK
    <3> QED
      BY <1>4, <3>3 DEF Emitted, StatTypeOK, CountsInSession
  <2>2. ReadingsAddUp'
    BY <1>4 DEF Emitted, StatTypeOK, CountsInSession, ReadingsAddUp, Counts
  <2> QED
    BY <1>1, <1>4, <2>1, <2>2 DEF Emitted
<1>5. CASE AddStage
  <2> DEFINE c == Head(timings).conn
  <2>1. \/ stages' = stages
        \/ stages' = [stages EXCEPT !.held[c] = @ + 1, !.mine[c] = @ + 1]
    BY <1>5 DEF AddStage
  <2> HIDE DEF c
  <2>2. stages' \in [held : [StatConns -> Nat], mine : [StatConns -> Nat]]
        /\ \A d \in StatConns : stages'.mine[d] - stages'.held[d] = stages.mine[d] - stages.held[d]
    <3> DEFINE h == [stages.held EXCEPT ![c] = @ + 1]
               m == [stages.mine EXCEPT ![c] = @ + 1]
    <3>1. stages.held \in [StatConns -> Nat] /\ stages.mine \in [StatConns -> Nat]
      BY DEF StatTypeOK
    <3>2. /\ h \in [StatConns -> Nat] /\ m \in [StatConns -> Nat]
          /\ \A d \in StatConns : m[d] - h[d] = stages.mine[d] - stages.held[d]
      <4>1. h \in [StatConns -> Nat] /\ m \in [StatConns -> Nat]
        <5>1. ASSUME NEW f \in [StatConns -> Nat] PROVE [f EXCEPT ![c] = f[c] + 1] \in [StatConns -> Nat]
          <6>1. CASE c \in StatConns
            BY <6>1
          <6>2. CASE c \notin StatConns
            BY <6>2
          <6> QED
            BY <6>1, <6>2
        <5> QED
          BY <3>1, <5>1
      <4>2. ASSUME NEW d \in StatConns PROVE m[d] - h[d] = stages.mine[d] - stages.held[d]
        <5>1. \/ d = c /\ h[d] = stages.held[d] + 1 /\ m[d] = stages.mine[d] + 1
              \/ d # c /\ h[d] = stages.held[d] /\ m[d] = stages.mine[d]
          BY <3>1
        <5>2. stages.held[d] \in Nat /\ stages.mine[d] \in Nat
          BY <3>1
        <5> HIDE DEF h, m
        <5> QED
          BY <5>1, <5>2
      <4> QED
        BY <4>1, <4>2
    <3>3. stages' = stages \/ (stages'.held = h /\ stages'.mine = m /\ stages' = [held |-> h, mine |-> m])
      BY <2>1 DEF StatTypeOK
    <3> HIDE DEF h, m
    <3> QED
      BY <3>1, <3>2, <3>3 DEF StatTypeOK
  <2>3. StatTypeOK' /\ CountsInSession'
    BY <1>5, <2>2 DEF AddStage, StatTypeOK, CountsInSession
  <2>4. UNCHANGED <<told, output, wire>>
    BY <1>5 DEF AddStage
  <2>5. ReadingsAddUp'
    BY <2>2, <2>4 DEF ReadingsAddUp, StatTypeOK
  <2> QED
    BY <1>1, <2>3, <2>4, <2>5
<1>6. ASSUME UNCHANGED <<tallied, output, told, stages, wire>>, emission' \in Nat PROVE StatInv'
  BY <1>1, <1>6 DEF StatTypeOK, CountsInSession, ReadingsAddUp
<1>7. CASE StatsEnd \/ TakeFrame \/ Received \/ \E c \in StatConns : ReadingTaken(c)
  BY <1>6, <1>7 DEF StatsEnd, TakeFrame, Received, ReadingTaken, StatTypeOK
<1>8. ASSUME NEW s \in 1 .. MaxStatSessions, EmitFrame(s) \/ \E c \in StatConns : TimeStage(c, s) PROVE StatInv'
  <2>1. UNCHANGED <<tallied, output, told, stages, wire>>
    BY <1>8 DEF EmitFrame, TimeStage
  <2>2. s \in Nat
    BY StatsAssumption
  <2>3. emission' \in Nat
    BY <1>8, <2>2 DEF EmitFrame, TimeStage, StatTypeOK
  <2> QED
    BY <1>6, <2>1, <2>3
<1> QED
  BY <1>2, <1>3, <1>4, <1>5, <1>7, <1>8 DEF CountNext

\* The steps of the wire's totals.
LEMMA SampleKeepsStats == ASSUME StatInv, SampleNext PROVE StatInv'
<1> USE DEF StatInv
<1>1. UNCHANGED <<tallied, emission, output, told, stages>>
  BY DEF SampleNext, WireCounts, WireRestarts, SampleWire, TakeWindow
<1>2. ASSUME StatTypeOK', WireInLine' PROVE StatInv'
  BY <1>1, <1>2 DEF CountsInSession, ReadingsAddUp
<1>3. CASE WireCounts
  <2>1. wire' = [wire EXCEPT !.total = @ + 1, !.true = @ + 1]
    BY <1>3 DEF WireCounts
  <2>2. StatTypeOK'
    <3> DEFINE t == wire.total + 1
               u == wire.true + 1
    <3>1. t \in Nat /\ u \in Nat /\ wire' = [wire EXCEPT !.total = t, !.true = u]
      BY <2>1 DEF StatTypeOK
    <3> HIDE DEF t, u
    <3> QED
      BY <1>1, <3>1 DEF StatTypeOK
  <2>3. WireInLine'
    BY <2>1 DEF StatTypeOK, WireInLine, Advance
  <2> QED
    BY <1>2, <2>2, <2>3
<1>4. CASE WireRestarts
  <2>1. wire.restarts = 0 /\ wire' = [wire EXCEPT !.total = 0, !.restarts = 1]
    BY <1>4 DEF WireRestarts
  <2>2. StatTypeOK'
    BY <1>1, <2>1 DEF StatTypeOK
  <2>3. WireInLine'
    BY <2>1 DEF StatTypeOK, WireInLine, Advance
  <2> QED
    BY <1>2, <2>2, <2>3
<1>5. CASE SampleWire
  <2>1. wire' = [wire EXCEPT !.samples = @ + 1, !.seen = TRUE, !.last = wire.total,
                            !.first = IF wire.seen THEN @ ELSE wire.total,
                            !.counter = @ + Advance(wire.total, wire.last),
                            !.window = @ + AddDelta(wire.total)]
    BY <1>5 DEF SampleWire
  <2>2. Advance(wire.total, wire.last) \in Nat /\ AddDelta(wire.total) \in Nat
    BY DEF Advance, AddDelta, StatTypeOK
  <2>3. StatTypeOK'
    <3> DEFINE n == wire.samples + 1
               f == IF wire.seen THEN wire.first ELSE wire.total
               k == wire.counter + Advance(wire.total, wire.last)
               w == wire.window + AddDelta(wire.total)
               t == wire.total
    <3>1. /\ n \in Nat /\ f \in Nat /\ k \in Nat /\ w \in Nat /\ t \in Nat
      BY <2>2 DEF StatTypeOK
    <3>2. wire' = [wire EXCEPT !.samples = n, !.seen = TRUE, !.last = t, !.first = f, !.counter = k, !.window = w]
      BY <2>1
    <3> HIDE DEF n, f, k, w, t
    <3> QED
      BY <1>1, <3>1, <3>2 DEF StatTypeOK
  <2>4. WireInLine'
    BY <2>1, <2>2 DEF StatTypeOK, WireInLine, Advance, AddDelta
  <2> QED
    BY <1>2, <2>3, <2>4
<1>6. CASE TakeWindow
  <2>1. wire' = [wire EXCEPT !.taken = @ + wire.window, !.window = 0]
    BY <1>6 DEF TakeWindow
  <2>2. StatTypeOK'
    <3> DEFINE t == wire.taken + wire.window
    <3>1. t \in Nat /\ wire' = [wire EXCEPT !.taken = t, !.window = 0]
      BY <2>1 DEF StatTypeOK
    <3> HIDE DEF t
    <3> QED
      BY <1>1, <3>1 DEF StatTypeOK
  <2>3. WireInLine'
    BY <2>1 DEF StatTypeOK, WireInLine, Advance
  <2> QED
    BY <1>2, <2>2, <2>3
<1> QED
  BY <1>3, <1>4, <1>5, <1>6 DEF SampleNext

\* A session's readings tell each of its frames and stage reports once, and the
\* process's counters follow the wire's totals: for any number of sessions,
\* connections, frames, readings and samples (runtime_stats.py, stages.py,
\* transport/webrtc/metrics.py).
THEOREM StatsSafe == StatSpec => [](ReadingsAddUp /\ CountersFollowTheWire)
<1>1. StatInv /\ [StatNext]_statVars => StatInv'
  <2> SUFFICES ASSUME StatInv, [StatNext]_statVars PROVE StatInv'
    OBVIOUS
  <2>1. CASE UNCHANGED statVars
    BY <2>1 DEF statVars, StatInv, StatTypeOK, CountsInSession, ReadingsAddUp, WireInLine, Advance
  <2> QED
    BY <2>1, CountKeepsStats, SampleKeepsStats DEF StatNext
<1>2. StatInv => ReadingsAddUp /\ CountersFollowTheWire
  BY DEF StatInv, WireInLine, CountersFollowTheWire, StatTypeOK, Advance
<1> QED
  BY StatInvInit, <1>1, <1>2, PTL DEF StatSpec

-------------------------------------------------------------------------------
(* The event stream.                                                       *)

\* The moves that are journalled here.
Moved == {"START_SESSION", "STOP_SESSION", "CLEANUP_COMPLETE", "EVICTION", "METRIC",
          "CONNECTION_OPENED", "CONNECTION_CLOSED"}
Entries == [seq : Nat, event : Moved, to : SessionStates, system : BOOLEAN]
Views == [state : SessionStates \cup {"none"}, connections : Nat]
Mirrors == [on : BOOLEAN, backlog : Seq(Entries), queue : Seq(Entries), last : Nat, mirror : Views, gap : BOOLEAN]
OpenStates == Connectable \cup {"CLOSING"}

EventTypeOK ==
  /\ moment \in [state : SessionStates, live : Nat] /\ wires \in [Kinds -> Nat] /\ seqNo \in Nat /\ begun \in Nat
  /\ series \in [live : Nat, running : BOOLEAN, sessions : Nat]
  /\ view \in Views /\ history \in Seq(Entries) /\ consumers \in [Consumers -> Mirrors]

\* The machine counts the connections held that occupy the session, the series
\* those of clients; nobody occupies a session that is empty.
SeriesInv ==
  /\ series.live = (IF moment.state \in Connectable THEN wires["client"] ELSE 0)
  /\ moment.live = (IF moment.state \in Connectable THEN wires["client"] + wires["system"] ELSE 0)
  /\ (moment.state \in {"READY", "WAITING", "ORPHANED"} => wires["client"] = 0 /\ wires["system"] = 0)
  /\ (series.running <=> moment.state \in OpenStates)
  /\ begun = series.sessions + (IF moment.state \in OpenStates THEN 1 ELSE 0)

\* it is every item ever journalled, by its number, and v what the journal made of
\* the first n of them.
TraceOf(v, it) ==
  /\ v[seqNo] = view
  /\ \A n \in Nat : n < seqNo => it[n + 1].seq = n + 1 /\ v[n + 1] = Fold(v[n], it[n + 1])
  /\ Len(history) <= seqNo /\ (seqNo > 0 => Len(history) > 0)
  /\ \A i \in 1 .. Len(history) : history[i] = it[seqNo - Len(history) + i]

Numbered(q, it) == \A i \in 1 .. Len(q) : q[i].seq >= 1 /\ q[i].seq <= seqNo /\ q[i] = it[q[i].seq]

\* The last item waiting is the last one journalled.
EndsAtLast(me) ==
  IF me.queue # <<>> THEN me.queue[Len(me.queue)].seq = seqNo
  ELSE me.backlog # <<>> /\ me.backlog[Len(me.backlog)].seq = seqNo

\* A consumer without a gap sees what the journal saw at its last number, and
\* while it is behind the newest item is on its way.
Follows(me, v, it) ==
  /\ me.last <= seqNo /\ Numbered(me.backlog, it) /\ Numbered(me.queue, it)
  /\ (~me.gap => me.mirror = v[me.last])
  /\ (me.on /\ ~me.gap /\ me.last < seqNo => EndsAtLast(me))

Traced ==
  \E v \in [Nat -> Views], it \in [Nat -> Entries] :
    TraceOf(v, it) /\ \A c \in Consumers : Follows(consumers[c], v, it)

EventInv == EventTypeOK /\ SeriesInv /\ Traced

\* The table of state_machine.py, for the moves that are journalled here.
LEMMA JournalEdges ==
  ASSUME NEW s \in SessionStates, NEW n \in Nat
  PROVE  /\ Resolve("START_SESSION", s, n) = IF s = "READY" THEN "WAITING" ELSE Rejected
         /\ Resolve("STOP_SESSION", s, n) = IF s \in Connectable THEN "CLOSING" ELSE Rejected
         /\ Resolve("CLEANUP_COMPLETE", s, n) = IF s = "CLOSING" THEN "READY" ELSE Rejected
         /\ Resolve("EVICTION", s, n) = IF s # "TERMINATED" THEN "TERMINATED" ELSE Rejected
         /\ Resolve("METRIC", s, n) = s
         /\ Resolve("CONNECTION_OPENED", s, n) = IF s \in Connectable THEN "STREAMING" ELSE Rejected
         /\ Resolve("CONNECTION_CLOSED", s, n) =
              IF s # "STREAMING" THEN Rejected ELSE IF n <= 1 THEN "ORPHANED" ELSE "STREAMING"
         /\ Rejected \notin SessionStates
BY DEF Resolve, ResolveOpen, ResolveClose, Transitions, SelfLoops, JournalEvents, Connectable, SessionStates, Rejected

LEMMA JournalCounts ==
  ASSUME NEW n \in Nat
  PROVE  /\ UpdateCount("START_SESSION", n) = 0 /\ UpdateCount("STOP_SESSION", n) = 0
         /\ UpdateCount("CLEANUP_COMPLETE", n) = 0 /\ UpdateCount("EVICTION", n) = 0
         /\ UpdateCount("METRIC", n) = n /\ UpdateCount("CONNECTION_OPENED", n) = n + 1
         /\ UpdateCount("CONNECTION_CLOSED", n) = IF n > 0 THEN n - 1 ELSE 0
BY DEF UpdateCount, SelfLoops, JournalEvents

LEMMA WiresAre ==
  ASSUME wires \in [Kinds -> Nat]
  PROVE  wires["client"] \in Nat /\ wires["system"] \in Nat /\ wires["quiet"] \in Nat
BY DEF Kinds

\* What a move makes of the machine and of the series.
LEMMA MoveIs ==
  ASSUME EventTypeOK, NEW e \in Moved, NEW kind \in Kinds, Target(e, kind) # Rejected, SendEvent(e, kind)
  PROVE  /\ Target(e, kind) \in SessionStates
         /\ moment'.state = Target(e, kind)
         /\ moment'.live = (IF kind = "quiet" THEN moment.live ELSE UpdateCount(e, moment.live))
         /\ moment' \in [state : SessionStates, live : Nat]
         /\ series'.live = (IF kind = "client" THEN FoldConnections(series.live, e) ELSE series.live)
         /\ series'.running = ((series.running \/ e = "START_SESSION") /\ ~(series.running /\ e \in {"CLEANUP_COMPLETE", "EVICTION"}))
         /\ series'.sessions = series.sessions + (IF series.running /\ e \in {"CLEANUP_COMPLETE", "EVICTION"} THEN 1 ELSE 0)
         /\ series' \in [live : Nat, running : BOOLEAN, sessions : Nat]
         /\ begun' = (IF e = "START_SESSION" THEN begun + 1 ELSE begun)
<1> DEFINE to == Target(e, kind)
           item == [seq |-> seqNo + 1, event |-> e, to |-> to, system |-> kind # "client"]
           n == IF kind = "quiet" THEN moment.live ELSE UpdateCount(e, moment.live)
<1>1. moment.state \in SessionStates /\ moment.live \in Nat /\ series.live \in Nat /\ series.running \in BOOLEAN
      /\ series.sessions \in Nat
  BY DEF EventTypeOK
<1>2. to \in SessionStates
  <2>1. CASE kind = "quiet"
    BY <1>1, <2>1 DEF Target
  <2>2. CASE kind # "quiet"
    <3>1. Resolve(e, moment.state, moment.live) # Rejected
      BY <2>2 DEF Target
    <3>2. Resolve(e, moment.state, moment.live) \in SessionStates
      BY <1>1, <3>1, JournalEdges DEF Moved, SessionStates
    <3> QED
      BY <2>2, <3>2 DEF Target
  <2> QED
    BY <2>1, <2>2
<1>3. n \in Nat
  BY <1>1, JournalCounts DEF Moved
<1>4. moment' = [state |-> to, live |-> n] /\ series' = Observe(series, item)
      /\ begun' = (IF e = "START_SESSION" THEN begun + 1 ELSE begun)
  BY DEF SendEvent
<1>5. item.event = e /\ (item.system <=> kind # "client")
  OBVIOUS
<1> HIDE DEF to, item, n
<1>6. moment'.state = to /\ moment'.live = n /\ moment' \in [state : SessionStates, live : Nat]
  BY <1>2, <1>3, <1>4
<1>7. /\ series'.live = (IF item.system THEN series.live ELSE FoldConnections(series.live, e))
      /\ series'.running = ((series.running \/ e = "START_SESSION") /\ ~(series.running /\ e \in {"CLEANUP_COMPLETE", "EVICTION"}))
      /\ series'.sessions = (IF series.running /\ e \in {"CLEANUP_COMPLETE", "EVICTION"} THEN series.sessions + 1 ELSE series.sessions)
      /\ series' = [live |-> series'.live, running |-> series'.running, sessions |-> series'.sessions]
  BY <1>4, <1>5 DEF Observe
<1>8. FoldConnections(series.live, e) \in Nat
  BY <1>1 DEF FoldConnections
<1>9. series'.live = (IF kind = "client" THEN FoldConnections(series.live, e) ELSE series.live)
  BY <1>5, <1>7
<1>10. series'.live \in Nat /\ series'.running \in BOOLEAN /\ series'.sessions \in Nat
  BY <1>1, <1>7, <1>8, <1>9
<1>11. series' \in [live : Nat, running : BOOLEAN, sessions : Nat]
  BY <1>7, <1>10
<1>12. series'.sessions = series.sessions + (IF series.running /\ e \in {"CLEANUP_COMPLETE", "EVICTION"} THEN 1 ELSE 0)
  BY <1>1, <1>7
<1> QED
  BY <1>2, <1>4, <1>6, <1>7, <1>9, <1>11, <1>12 DEF to, n

\* The runner's moves and the wires keep the agreement.
LEMMA SeriesKeeps ==
  ASSUME EventTypeOK, SeriesInv,
         \/ \E e \in Moved \ {"CONNECTION_OPENED", "CONNECTION_CLOSED"} : Moves(e)
         \/ \E k \in Kinds : WireOpens(k) \/ WireCloses(k)
         \/ CloseAll
  PROVE  SeriesInv'
<1> DEFINE s == moment.state
           t == moment'.state
           cl == wires["client"]
           sy == wires["system"]
<1>t. /\ s \in SessionStates /\ moment.live \in Nat /\ begun \in Nat /\ series.sessions \in Nat
      /\ series.running \in BOOLEAN /\ series.live \in Nat /\ wires \in [Kinds -> Nat] /\ cl \in Nat /\ sy \in Nat
  BY WiresAre DEF EventTypeOK
<1>i. /\ series.live = (IF s \in Connectable THEN cl ELSE 0)
      /\ moment.live = (IF s \in Connectable THEN cl + sy ELSE 0)
      /\ (s \in {"READY", "WAITING", "ORPHANED"} => cl = 0 /\ sy = 0)
      /\ (series.running <=> s \in OpenStates)
      /\ begun = series.sessions + (IF s \in OpenStates THEN 1 ELSE 0)
  BY DEF SeriesInv
<1>1. ASSUME NEW e \in Moved \ {"CONNECTION_OPENED", "CONNECTION_CLOSED"}, Moves(e) PROVE SeriesInv'
  <2>0. "client" \in Kinds /\ Target(e, "client") = Resolve(e, s, moment.live)
    BY DEF Target, Kinds
  <2>1. /\ Resolve(e, s, moment.live) # Rejected /\ SendEvent(e, "client") /\ wires' = wires
        /\ (e = "CLEANUP_COMPLETE" => cl = 0 /\ sy = 0)
    BY <1>1 DEF Moves, Kinds
  <2>2. /\ t = Resolve(e, s, moment.live) /\ moment'.live = UpdateCount(e, moment.live)
        /\ series'.live = FoldConnections(series.live, e)
    BY <1>1, <2>0, <2>1, MoveIs
  <2>3. /\ series'.running = ((series.running \/ e = "START_SESSION") /\ ~(series.running /\ e \in {"CLEANUP_COMPLETE", "EVICTION"}))
        /\ series'.sessions = series.sessions + (IF series.running /\ e \in {"CLEANUP_COMPLETE", "EVICTION"} THEN 1 ELSE 0)
        /\ begun' = (IF e = "START_SESSION" THEN begun + 1 ELSE begun)
    BY <1>1, <2>0, <2>1, MoveIs
  <2>f. /\ (e # "METRIC" => FoldConnections(series.live, e) = 0)
        /\ (e = "METRIC" => FoldConnections(series.live, e) = series.live)
    BY DEF FoldConnections, SelfLoops, JournalEvents, Moved
  <2>4. CASE e = "START_SESSION"
    <3>1. s = "READY" /\ t = "WAITING" /\ moment'.live = 0 /\ series'.live = 0
      BY <1>t, <2>1, <2>2, <2>4, <2>f, JournalEdges, JournalCounts
    <3>2. cl = 0 /\ sy = 0 /\ begun = series.sessions /\ begun' = begun + 1 /\ series'.sessions = series.sessions
      BY <1>t, <1>i, <2>3, <2>4, <3>1 DEF OpenStates, Connectable
    <3>3. series'.running = TRUE
      BY <2>3, <2>4
    <3> QED
      BY <1>t, <2>1, <3>1, <3>2, <3>3 DEF Connectable, OpenStates, SeriesInv
  <2>5. CASE e = "STOP_SESSION"
    <3>1. s \in Connectable /\ t = "CLOSING" /\ moment'.live = 0 /\ series'.live = 0
      BY <1>t, <2>1, <2>2, <2>5, <2>f, JournalEdges, JournalCounts
    <3>2. series'.running = TRUE /\ series'.sessions = series.sessions /\ begun' = begun /\ begun = series.sessions + 1
      BY <1>t, <1>i, <2>3, <2>5, <3>1 DEF OpenStates
    <3> QED
      BY <1>t, <2>1, <3>1, <3>2 DEF Connectable, OpenStates, SeriesInv
  <2>6. CASE e = "CLEANUP_COMPLETE"
    <3>1. s = "CLOSING" /\ t = "READY" /\ moment'.live = 0 /\ series'.live = 0
      BY <1>t, <2>1, <2>2, <2>6, <2>f, JournalEdges, JournalCounts
    <3>2. series.running = TRUE /\ begun = series.sessions + 1
      BY <1>t, <1>i, <3>1 DEF OpenStates
    <3>3. series'.running = FALSE
      BY <2>3, <2>6, <3>2, Zenon
    <3>4. series'.sessions = series.sessions + 1 /\ begun' = begun
      BY <2>3, <2>6, <3>2
    <3> QED
      BY <1>t, <2>1, <2>6, <3>1, <3>2, <3>3, <3>4 DEF Connectable, OpenStates, SeriesInv
  <2>7. CASE e = "EVICTION"
    <3>1. t = "TERMINATED" /\ moment'.live = 0 /\ series'.live = 0
      BY <1>t, <2>1, <2>2, <2>7, <2>f, JournalEdges, JournalCounts
    <3>2. series'.running = FALSE
      <4>1. series'.running = ((series.running \/ FALSE) /\ ~series.running)
        BY <2>3, <2>7
      <4> QED
        BY <4>1, Zenon
    <3>3. series'.sessions = series.sessions + (IF s \in OpenStates THEN 1 ELSE 0) /\ begun' = begun
      BY <1>i, <2>3, <2>7
    <3> QED
      BY <1>t, <1>i, <2>1, <3>1, <3>2, <3>3 DEF Connectable, OpenStates, SeriesInv
  <2>8. CASE e = "METRIC"
    <3>1. t = s /\ moment'.live = moment.live /\ series'.live = series.live
      BY <1>t, <2>1, <2>2, <2>8, <2>f, JournalEdges, JournalCounts
    <3>2. series'.running = series.running /\ series'.sessions = series.sessions /\ begun' = begun
      BY <1>t, <2>3, <2>8
    <3> QED
      BY <1>i, <2>1, <3>1, <3>2 DEF SeriesInv
  <2> QED
    BY <2>4, <2>5, <2>6, <2>7, <2>8 DEF Moved
<1>2. ASSUME NEW k \in Kinds, WireOpens(k) PROVE SeriesInv'
  <2>1. s \in Connectable /\ wires' = [wires EXCEPT ![k] = @ + 1] /\ SendEvent("CONNECTION_OPENED", k)
    BY <1>2 DEF WireOpens
  <2>2. Target("CONNECTION_OPENED", k) = (IF k = "quiet" THEN s ELSE "STREAMING") /\ Target("CONNECTION_OPENED", k) # Rejected
    BY <1>t, <2>1, JournalEdges DEF Target, SessionStates, Rejected
  <2>3. /\ t = (IF k = "quiet" THEN s ELSE "STREAMING")
        /\ moment'.live = (IF k = "quiet" THEN moment.live ELSE moment.live + 1)
        /\ series'.live = (IF k = "client" THEN series.live + 1 ELSE series.live)
        /\ series'.running = series.running /\ series'.sessions = series.sessions /\ begun' = begun
    BY <1>t, <2>1, <2>2, MoveIs, JournalCounts DEF Moved, FoldConnections
  <2>4. /\ wires'["client"] = (IF k = "client" THEN cl + 1 ELSE cl)
        /\ wires'["system"] = (IF k = "system" THEN sy + 1 ELSE sy)
    BY <1>t, <2>1 DEF Kinds
  <2>5. t \in Connectable /\ (k # "quiet" => t = "STREAMING") /\ (k = "quiet" => t = s)
    BY <2>1, <2>3 DEF Connectable
  <2>6. k \in {"client", "system", "quiet"}
    BY DEF Kinds
  <2> QED
    BY <1>t, <1>i, <2>1, <2>3, <2>4, <2>5, <2>6 DEF Connectable, OpenStates, SeriesInv
<1>3. ASSUME NEW k \in Kinds, WireCloses(k) PROVE SeriesInv'
  <2>1. wires[k] > 0 /\ wires' = [wires EXCEPT ![k] = @ - 1] /\ SendEvent("CONNECTION_CLOSED", k)
    BY <1>3 DEF WireCloses
  <2>4. /\ wires'["client"] = (IF k = "client" THEN cl - 1 ELSE cl) /\ (k = "client" => cl > 0)
        /\ wires'["system"] = (IF k = "system" THEN sy - 1 ELSE sy) /\ (k = "system" => sy > 0)
    BY <1>t, <2>1 DEF Kinds
  <2>5. k \in {"client", "system", "quiet"}
    BY DEF Kinds
  <2>2. CASE s \in Connectable
    <3>1. k # "quiet" => s = "STREAMING"
      BY <1>i, <2>2, <2>4, <2>5 DEF Connectable
    <3>2. /\ Target("CONNECTION_CLOSED", k) = (IF k = "quiet" THEN s ELSE IF moment.live <= 1 THEN "ORPHANED" ELSE "STREAMING")
          /\ Target("CONNECTION_CLOSED", k) # Rejected
      BY <1>t, <2>2, <3>1, JournalEdges DEF Target, SessionStates, Rejected
    <3>3. /\ t = (IF k = "quiet" THEN s ELSE IF moment.live <= 1 THEN "ORPHANED" ELSE "STREAMING")
          /\ moment'.live = (IF k = "quiet" THEN moment.live ELSE IF moment.live > 0 THEN moment.live - 1 ELSE 0)
          /\ series'.live = (IF k = "client" THEN (IF series.live > 0 THEN series.live - 1 ELSE 0) ELSE series.live)
          /\ series'.running = series.running /\ series'.sessions = series.sessions /\ begun' = begun
      BY <1>t, <2>1, <3>2, MoveIs, JournalCounts DEF Moved, FoldConnections
    <3>4. t \in Connectable /\ (t \in {"READY", "WAITING", "ORPHANED"} => wires'["client"] = 0 /\ wires'["system"] = 0)
      BY <1>t, <1>i, <2>2, <2>4, <2>5, <3>1, <3>3 DEF Connectable
    <3>5. series'.live = wires'["client"] /\ moment'.live = wires'["client"] + wires'["system"]
      BY <1>t, <1>i, <2>2, <2>4, <2>5, <3>3
    <3> QED
      BY <1>t, <1>i, <2>2, <3>3, <3>4, <3>5 DEF OpenStates, SeriesInv
  <2>3. CASE s \notin Connectable
    <3>1. Target("CONNECTION_CLOSED", k) = Rejected
      BY <1>t, <2>3, JournalEdges DEF Target, Connectable
    <3>2. UNCHANGED <<moment, series, begun>>
      BY <2>1, <3>1 DEF SendEvent
    <3>3. s = "READY" => k = "quiet"
      BY <1>i, <2>4, <2>5
    <3>4. s = "READY" => wires'["client"] = cl /\ wires'["system"] = sy
      BY <2>4, <3>3
    <3> QED
      BY <1>i, <2>3, <3>2, <3>4 DEF Connectable, SeriesInv
  <2> QED
    BY <2>2, <2>3
<1>4. CASE CloseAll
  BY <1>4, <1>i DEF CloseAll, Connectable, SeriesInv
<1> QED
  BY <1>1, <1>2, <1>3, <1>4

\* What is kept of a sequence ends as it did, and is in its place from the end.
LEMMA NewestIs ==
  ASSUME NEW S, NEW q \in Seq(S), NEW k \in Nat \ {0}
  PROVE  /\ Newest(q, k) \in Seq(S) /\ Len(Newest(q, k)) <= Len(q) /\ Len(Newest(q, k)) \in Nat
         /\ (Len(q) > 0 => Len(Newest(q, k)) > 0)
         /\ \A i \in 1 .. Len(Newest(q, k)) : Newest(q, k)[i] = q[Len(q) - Len(Newest(q, k)) + i]
<1>0. Len(q) \in Nat
  OBVIOUS
<1>1. CASE Len(q) <= k
  <2>1. Newest(q, k) = q
    BY <1>1 DEF Newest
  <2> QED
    BY <1>0, <2>1
<1>2. CASE ~(Len(q) <= k)
  <2> DEFINE n == Len(q)
             w == SubSeq(q, n - k + 1, n)
  <2>1. Newest(q, k) = w /\ n - k + 1 \in 1 .. n /\ n \in 1 .. n
    BY <1>0, <1>2 DEF Newest
  <2>2. w \in Seq(S) /\ Len(w) = k /\ \A i \in 1 .. k : w[i] = q[n - k + i]
    <3>1. w = [i \in 1 .. n - (n - k + 1) + 1 |-> q[n - k + 1 + i - 1]]
      OBVIOUS
    <3>2. n - (n - k + 1) + 1 = k
      BY <1>0
    <3>3. \A i \in 1 .. k : n - k + 1 + i - 1 = n - k + i /\ n - k + i \in 1 .. n
      BY <1>0, <2>1
    <3>4. w = [i \in 1 .. k |-> q[n - k + 1 + i - 1]]
      BY <3>1, <3>2
    <3>5. \A i \in 1 .. k : w[i] = q[n - k + i] /\ w[i] \in S
      BY <3>3, <3>4
    <3>6. w \in [1 .. k -> S]
      BY <3>4, <3>5
    <3>7. w \in Seq(S)
      BY <2>1, <3>3
    <3>8. DOMAIN w = 1 .. k
      BY <3>4
    <3> HIDE DEF w
    <3>9. Len(w) = k
      BY <3>7, <3>8
    <3> QED
      BY <3>5, <3>7, <3>9
  <2> QED
    BY <1>0, <1>2, <2>1, <2>2
<1> QED
  BY <1>1, <1>2

\* The same of items of the journal.
LEMMA NewestEntries ==
  ASSUME NEW q \in Seq(Entries), NEW k \in Nat \ {0}
  PROVE  /\ Newest(q, k) \in Seq(Entries) /\ Len(Newest(q, k)) <= Len(q) /\ Len(Newest(q, k)) \in Nat
         /\ (Len(q) > 0 => Len(Newest(q, k)) > 0)
         /\ \A i \in 1 .. Len(Newest(q, k)) : Newest(q, k)[i] = q[Len(q) - Len(Newest(q, k)) + i]
BY NewestIs, Zenon

\* A full queue sheds from its head: what it is offered is last.
LEMMA OfferIs ==
  ASSUME NEW q \in Seq(Entries), NEW item \in Entries, SubscriberLimit \in Nat \ {0}
  PROVE  /\ Offer(q, item) \in Seq(Entries) /\ Len(Offer(q, item)) > 0 /\ Len(Offer(q, item)) \in Nat
         /\ Offer(q, item)[Len(Offer(q, item))] = item
         /\ \A i \in 1 .. Len(Offer(q, item)) :
              Offer(q, item)[i] = item \/ \E j \in 1 .. Len(q) : Offer(q, item)[i] = q[j]
<1> DEFINE a == Append(q, item)
           o == Newest(a, SubscriberLimit)
<1>1. a \in Seq(Entries) /\ Len(a) = Len(q) + 1 /\ Len(q) \in Nat /\ a[Len(q) + 1] = item
      /\ \A i \in 1 .. Len(q) : a[i] = q[i]
  OBVIOUS
<1>2. Offer(q, item) = o
  BY DEF Offer
<1> HIDE DEF a
<1>3. /\ o \in Seq(Entries) /\ Len(o) <= Len(a) /\ Len(o) \in Nat /\ Len(o) > 0
      /\ \A i \in 1 .. Len(o) : o[i] = a[Len(a) - Len(o) + i]
  <2>1. Len(a) > 0
    BY <1>1
  <2> QED
    BY <1>1, <2>1, NewestEntries
<1> HIDE DEF o
<1>4. o[Len(o)] = item
  <2>1. Len(o) \in 1 .. Len(o) /\ Len(a) - Len(o) + Len(o) = Len(q) + 1
    BY <1>1, <1>3
  <2> QED
    BY <1>1, <1>3, <2>1
<1>5. ASSUME NEW i \in 1 .. Len(o) PROVE o[i] = item \/ \E j \in 1 .. Len(q) : o[i] = q[j]
  <2> DEFINE m == Len(a) - Len(o) + i
             x == Len(a)
             y == Len(o)
             z == Len(q)
  <2>0. x = z + 1 /\ z \in Nat /\ y \in Nat /\ y <= x /\ i \in 1 .. y /\ m = x - y + i
    BY <1>1, <1>3
  <2>1. m \in 1 .. Len(q) \/ m = Len(q) + 1
    <3> HIDE DEF x, y, z, m
    <3>1. m \in 1 .. z \/ m = z + 1
      BY <2>0
    <3> QED
      BY <3>1 DEF z
  <2>2. o[i] = a[m]
    BY <1>3
  <2> QED
    BY <1>1, <2>1, <2>2
<1> QED
  BY <1>2, <1>3, <1>4, <1>5

LEMMA FoldIs ==
  ASSUME NEW w \in Views, NEW item \in Entries
  PROVE  Fold(w, item) \in Views
<1>1. item.to \in SessionStates /\ w.connections \in Nat
  BY DEF Entries, Views
<1> DEFINE n == IF item.event = "CONNECTION_OPENED" THEN w.connections + 1
                ELSE IF item.event = "CONNECTION_CLOSED" /\ w.connections > 0
                THEN w.connections - 1 ELSE w.connections
<1>2. n \in Nat
  BY <1>1
<1>3. Fold(w, item) = [state |-> item.to, connections |-> n]
  BY DEF Fold
<1> HIDE DEF n
<1> QED
  BY <1>1, <1>2, <1>3 DEF Views

\* What a move makes of the journal and of a consumer.
LEMMA MoveJournals ==
  ASSUME EventTypeOK, NEW e \in Moved, NEW kind \in Kinds, Target(e, kind) # Rejected, SendEvent(e, kind)
  PROVE  \E item \in Entries :
           /\ item.seq = seqNo + 1 /\ seqNo' = seqNo + 1
           /\ history' = Newest(Append(history, item), HistoryLimit)
           /\ view' = Fold(view, item)
           /\ consumers' \in [Consumers -> Mirrors]
           /\ \A c \in Consumers :
                /\ consumers'[c].on = consumers[c].on /\ consumers'[c].backlog = consumers[c].backlog
                /\ consumers'[c].last = consumers[c].last /\ consumers'[c].gap = consumers[c].gap
                /\ consumers'[c].mirror = consumers[c].mirror
                /\ consumers'[c].queue = IF consumers[c].on THEN Offer(consumers[c].queue, item) ELSE consumers[c].queue
<1> DEFINE item == [seq |-> seqNo + 1, event |-> e, to |-> Target(e, kind), system |-> kind # "client"]
           kept(c) == IF consumers[c].on THEN [consumers[c] EXCEPT !.queue = Offer(@, item)] ELSE consumers[c]
<1>1. moment.state \in SessionStates /\ moment.live \in Nat /\ seqNo \in Nat /\ consumers \in [Consumers -> Mirrors]
  BY DEF EventTypeOK
<1>2. Target(e, kind) \in SessionStates
  BY MoveIs
<1>3. item \in Entries /\ item.seq = seqNo + 1
  BY <1>1, <1>2 DEF Entries
<1>4. /\ seqNo' = seqNo + 1 /\ history' = Newest(Append(history, item), HistoryLimit)
      /\ view' = Fold(view, item) /\ consumers' = [c \in Consumers |-> kept(c)]
  BY DEF SendEvent
<1> HIDE DEF item
<1>5. ASSUME NEW c \in Consumers
      PROVE  /\ kept(c) \in Mirrors /\ consumers'[c] = kept(c)
             /\ kept(c).on = consumers[c].on /\ kept(c).backlog = consumers[c].backlog
             /\ kept(c).last = consumers[c].last /\ kept(c).gap = consumers[c].gap
             /\ kept(c).mirror = consumers[c].mirror
             /\ kept(c).queue = IF consumers[c].on THEN Offer(consumers[c].queue, item) ELSE consumers[c].queue
  <2> DEFINE me == consumers[c]
  <2>1. me \in Mirrors /\ me.queue \in Seq(Entries)
    BY <1>1 DEF Mirrors
  <2>2. Offer(me.queue, item) \in Seq(Entries)
    BY <1>3, <2>1, OfferIs, EventStreamAssumption
  <2>3. [me EXCEPT !.queue = Offer(@, item)] \in Mirrors
    BY <2>1, <2>2 DEF Mirrors
  <2>4. kept(c) \in Mirrors
    BY <2>1, <2>3
  <2>5. consumers'[c] = kept(c)
    BY <1>4
  <2>6. CASE me.on
    <3>1. kept(c) = [me EXCEPT !.queue = Offer(@, item)]
      BY <2>6
    <3>2. /\ kept(c).on = me.on /\ kept(c).backlog = me.backlog /\ kept(c).last = me.last
          /\ kept(c).gap = me.gap /\ kept(c).mirror = me.mirror /\ kept(c).queue = Offer(me.queue, item)
      BY <2>1, <3>1 DEF Mirrors
    <3> QED
      BY <2>4, <2>5, <2>6, <3>2
  <2>7. CASE ~me.on
    <3>1. kept(c) = me
      BY <2>7
    <3> QED
      BY <2>4, <2>5, <2>7, <3>1
  <2> QED
    BY <2>6, <2>7
<1>6. consumers' \in [Consumers -> Mirrors]
  BY <1>4, <1>5
<1> HIDE DEF kept
<1> QED
  BY <1>3, <1>4, <1>5, <1>6

LEMMA EventInvInit == EventInit => EventInv
<1> SUFFICES ASSUME EventInit PROVE EventInv
  OBVIOUS
<1> DEFINE quiet == [on |-> FALSE, backlog |-> <<>>, queue |-> <<>>, last |-> 0, mirror |-> Unknown, gap |-> FALSE]
<1>1. Unknown \in Views /\ quiet \in Mirrors
  BY DEF Unknown, Views, Mirrors
<1>2. EventTypeOK
  BY <1>1 DEF EventInit, EventTypeOK, SessionStates
<1>3. SeriesInv
  BY DEF EventInit, SeriesInv, Connectable, OpenStates, Kinds
<1>4. Traced
  <2>1. "READY" \in SessionStates /\ "METRIC" \in Moved
    BY DEF SessionStates, Moved
  <2>2. PICK v \in [Nat -> Views], it \in [Nat -> Entries] :
          v = [n \in Nat |-> Unknown] /\ it = [n \in Nat |-> [seq |-> n, event |-> "METRIC", to |-> "READY", system |-> FALSE]]
    BY <1>1, <2>1 DEF Entries
  <2>3. TraceOf(v, it)
    BY <2>2 DEF EventInit, TraceOf
  <2>4. ASSUME NEW c \in Consumers PROVE Follows(consumers[c], v, it)
    BY <2>2 DEF EventInit, Follows, Numbered
  <2> QED
    BY <2>3, <2>4 DEF Traced
<1> QED
  BY <1>2, <1>3, <1>4 DEF EventInv

\* A move lengthens the trace by its item, which every subscriber is offered.
LEMMA MoveIsTraced ==
  ASSUME EventTypeOK, Traced, NEW e \in Moved, NEW kind \in Kinds, Target(e, kind) # Rejected, SendEvent(e, kind)
  PROVE  Traced'
<1>1. PICK item \in Entries :
           /\ item.seq = seqNo + 1 /\ seqNo' = seqNo + 1
           /\ history' = Newest(Append(history, item), HistoryLimit)
           /\ view' = Fold(view, item)
           /\ consumers' \in [Consumers -> Mirrors]
           /\ \A c \in Consumers :
                /\ consumers'[c].on = consumers[c].on /\ consumers'[c].backlog = consumers[c].backlog
                /\ consumers'[c].last = consumers[c].last /\ consumers'[c].gap = consumers[c].gap
                /\ consumers'[c].mirror = consumers[c].mirror
                /\ consumers'[c].queue = IF consumers[c].on THEN Offer(consumers[c].queue, item) ELSE consumers[c].queue
  BY MoveJournals
<1>2. PICK v \in [Nat -> Views], it \in [Nat -> Entries] :
        TraceOf(v, it) /\ \A c \in Consumers : Follows(consumers[c], v, it)
  BY DEF Traced
<1>3. seqNo \in Nat /\ view \in Views /\ history \in Seq(Entries) /\ consumers \in [Consumers -> Mirrors]
  BY DEF EventTypeOK
<1>4. Fold(view, item) \in Views
  BY <1>3, FoldIs
<1>5. PICK w \in [Nat -> Views], ik \in [Nat -> Entries] :
        w = [v EXCEPT ![seqNo + 1] = Fold(view, item)] /\ ik = [it EXCEPT ![seqNo + 1] = item]
  BY <1>3, <1>4
<1>6. /\ w[seqNo + 1] = Fold(view, item) /\ ik[seqNo + 1] = item
      /\ \A n \in Nat : n <= seqNo => w[n] = v[n] /\ ik[n] = it[n]
  BY <1>3, <1>5
<1>7. TraceOf(w, ik)'
  <2>1. w[seqNo'] = view'
    BY <1>1, <1>6
  <2>2. ASSUME NEW n \in Nat, n < seqNo' PROVE ik[n + 1].seq = n + 1 /\ w[n + 1] = Fold(w[n], ik[n + 1])
    <3>1. CASE n = seqNo
      BY <1>1, <1>2, <1>3, <1>6, <3>1 DEF TraceOf
    <3>2. CASE n < seqNo
      <4>1. n + 1 \in Nat /\ n + 1 <= seqNo /\ n <= seqNo
        BY <1>3, <3>2
      <4> QED
        BY <1>2, <1>6, <3>2, <4>1 DEF TraceOf
    <3> QED
      BY <1>1, <1>3, <2>2, <3>1, <3>2
  <2>3. /\ Len(history') <= seqNo' /\ Len(history') > 0
        /\ \A i \in 1 .. Len(history') : history'[i] = ik[seqNo' - Len(history') + i]
    <3> DEFINE a == Append(history, item)
    <3>1. /\ a \in Seq(Entries) /\ Len(a) = Len(history) + 1 /\ Len(history) \in Nat /\ a[Len(history) + 1] = item
          /\ \A i \in 1 .. Len(history) : a[i] = history[i]
      BY <1>3
    <3>2. history' = Newest(a, HistoryLimit) /\ HistoryLimit \in Nat \ {0}
      BY <1>1, EventStreamAssumption
    <3>3. Len(history) <= seqNo /\ \A i \in 1 .. Len(history) : history[i] = it[seqNo - Len(history) + i]
      BY <1>2 DEF TraceOf
    <3> HIDE DEF a
    <3>4. Len(a) > 0
      BY <3>1
    <3>5. /\ Len(history') <= Len(a) /\ Len(history') \in Nat /\ Len(history') > 0
          /\ \A i \in 1 .. Len(history') : history'[i] = a[Len(a) - Len(history') + i]
      BY <3>1, <3>2, <3>4, NewestEntries
    <3>6. ASSUME NEW i \in 1 .. Len(history') PROVE history'[i] = ik[seqNo' - Len(history') + i]
      <4> DEFINE x == Len(history)
                 y == Len(history')
                 m == x + 1 - y + i
      <4>1. x \in Nat /\ y \in Nat /\ y <= x + 1 /\ x <= seqNo /\ i \in 1 .. y /\ seqNo' = seqNo + 1
        BY <1>1, <3>1, <3>3, <3>5
      <4>2. history'[i] = a[m]
        BY <3>1, <3>5
      <4> HIDE DEF x, y
      <4>3. m \in 1 .. x \/ m = x + 1
        BY <4>1
      <4>4. CASE m = x + 1
        <5>1. seqNo' - y + i = seqNo + 1
          BY <1>3, <4>1, <4>4
        <5>2. history'[i] = item
          BY <3>1, <4>2, <4>4 DEF x
        <5> QED
          BY <1>6, <5>1, <5>2 DEF y
      <4>5. CASE m \in 1 .. x
        <5>1. seqNo' - y + i = seqNo - x + m /\ seqNo - x + m \in Nat /\ seqNo - x + m <= seqNo
          BY <1>3, <4>1, <4>5
        <5>2. history'[i] = it[seqNo - x + m]
          <6>1. a[m] = history[m]
            BY <3>1, <4>5 DEF x
          <6>2. history[m] = it[seqNo - x + m]
            BY <3>3, <4>5 DEF x
          <6> QED
            BY <4>2, <6>1, <6>2
        <5>3. it[seqNo - x + m] = ik[seqNo - x + m]
          BY <1>6, <5>1
        <5> QED
          BY <5>1, <5>2, <5>3 DEF y
      <4> QED
        BY <4>3, <4>4, <4>5
    <3>7. Len(history') <= seqNo'
      BY <1>1, <1>3, <3>1, <3>3, <3>5
    <3> QED
      BY <3>5, <3>6, <3>7
  <2> QED
    BY <2>1, <2>2, <2>3 DEF TraceOf
<1>8. ASSUME NEW c \in Consumers PROVE Follows(consumers[c], w, ik)'
  <2> DEFINE me == consumers[c]
             you == consumers'[c]
  <2>1. /\ me.last \in Nat /\ me.queue \in Seq(Entries) /\ me.backlog \in Seq(Entries)
        /\ me.on \in BOOLEAN /\ me.gap \in BOOLEAN
    BY <1>3 DEF Mirrors
  <2>2. /\ you.on = me.on /\ you.backlog = me.backlog /\ you.last = me.last /\ you.gap = me.gap
        /\ you.mirror = me.mirror /\ you.queue = IF me.on THEN Offer(me.queue, item) ELSE me.queue
    BY <1>1
  <2>3. /\ me.last <= seqNo /\ Numbered(me.backlog, it) /\ Numbered(me.queue, it)
        /\ (~me.gap => me.mirror = v[me.last])
    BY <1>2 DEF Follows
  <2>4. you.last <= seqNo' /\ (~you.gap => you.mirror = w[you.last])
    <3>1. me.last <= seqNo + 1 /\ w[me.last] = v[me.last]
      BY <1>3, <1>6, <2>1, <2>3
    <3> QED
      BY <1>1, <2>2, <2>3, <3>1
  <2>5. ASSUME NEW q \in Seq(Entries), NEW i \in 1 .. Len(q), Numbered(q, it)
        PROVE  q[i].seq >= 1 /\ q[i].seq <= seqNo + 1 /\ q[i] = ik[q[i].seq]
    <3>1. q[i] \in Entries
      OBVIOUS
    <3>2. q[i].seq \in Nat /\ q[i].seq >= 1 /\ q[i].seq <= seqNo /\ q[i] = it[q[i].seq]
      BY <2>5, <3>1 DEF Numbered, Entries
    <3> QED
      BY <1>3, <1>6, <3>2
  <2>6. Numbered(me.backlog, ik)'
    <3>1. ASSUME NEW i \in 1 .. Len(me.backlog)
          PROVE  me.backlog[i].seq >= 1 /\ me.backlog[i].seq <= seqNo + 1 /\ me.backlog[i] = ik[me.backlog[i].seq]
      BY <2>1, <2>3, <2>5
    <3> QED
      BY <1>1, <2>2, <3>1 DEF Numbered
  <2>7. CASE me.on
    <3> DEFINE o == Offer(me.queue, item)
    <3>1. /\ o \in Seq(Entries) /\ Len(o) > 0 /\ Len(o) \in Nat /\ o[Len(o)] = item
          /\ \A i \in 1 .. Len(o) : o[i] = item \/ \E j \in 1 .. Len(me.queue) : o[i] = me.queue[j]
      BY <2>1, OfferIs, EventStreamAssumption
    <3>2. you.queue = o
      BY <2>2, <2>7
    <3> HIDE DEF o
    <3>3. ASSUME NEW i \in 1 .. Len(o)
          PROVE  o[i].seq >= 1 /\ o[i].seq <= seqNo + 1 /\ o[i] = ik[o[i].seq]
      <4>1. CASE o[i] = item
        BY <1>1, <1>3, <1>6, <4>1
      <4>2. CASE \E j \in 1 .. Len(me.queue) : o[i] = me.queue[j]
        <5>1. PICK j \in 1 .. Len(me.queue) : o[i] = me.queue[j]
          BY <4>2
        <5> QED
          BY <2>1, <2>3, <2>5, <5>1
      <4> QED
        BY <3>1, <4>1, <4>2
    <3>4. Numbered(me.queue, ik)'
      BY <1>1, <3>2, <3>3 DEF Numbered
    <3>5. EndsAtLast(me)'
      <4>1. you.queue # <<>> /\ you.queue[Len(you.queue)].seq = seqNo'
        BY <1>1, <3>1, <3>2
      <4> QED
        BY <4>1 DEF EndsAtLast
    <3> QED
      BY <2>4, <2>6, <3>4, <3>5 DEF Follows
  <2>8. CASE ~me.on
    <3>1. you.queue = me.queue /\ ~you.on
      BY <2>2, <2>8
    <3>2. Numbered(me.queue, ik)'
      <4>1. ASSUME NEW i \in 1 .. Len(me.queue)
            PROVE  me.queue[i].seq >= 1 /\ me.queue[i].seq <= seqNo + 1 /\ me.queue[i] = ik[me.queue[i].seq]
        BY <2>1, <2>3, <2>5
      <4> QED
        BY <1>1, <3>1, <4>1 DEF Numbered
    <3> QED
      BY <2>4, <2>6, <3>1, <3>2 DEF Follows
  <2> QED
    BY <2>1, <2>7, <2>8
<1> QED
  BY <1>7, <1>8 DEF Traced

LEMMA NoEntries == <<>> \in Seq(Entries)
OBVIOUS

\* What the consumers do leaves the trace as it is: it is enough that the one that
\* moves still follows it.
LEMMA ConsumerIsTraced ==
  ASSUME EventTypeOK, Traced, UNCHANGED journal, NEW c \in Consumers, NEW you \in Mirrors,
         consumers' = [consumers EXCEPT ![c] = you],
         \A v \in [Nat -> Views], it \in [Nat -> Entries] :
           TraceOf(v, it) /\ Follows(consumers[c], v, it) => Follows(you, v, it)
  PROVE  Traced' /\ EventTypeOK'
<1>1. PICK v \in [Nat -> Views], it \in [Nat -> Entries] :
        TraceOf(v, it) /\ \A d \in Consumers : Follows(consumers[d], v, it)
  BY DEF Traced
<1>2. UNCHANGED <<moment, wires, seqNo, history, view, series, begun>>
  BY DEF journal
<1>3. consumers \in [Consumers -> Mirrors]
  BY DEF EventTypeOK
<1>4. TraceOf(v, it)'
  BY <1>1, <1>2 DEF TraceOf
<1>5. ASSUME NEW d \in Consumers PROVE Follows(consumers[d], v, it)'
  <2>1. Follows(consumers[d], v, it) /\ Follows(you, v, it)
    BY <1>1
  <2>2. PICK x : x = consumers'[d] /\ Follows(x, v, it)
    <3>1. consumers'[d] = consumers[d] \/ consumers'[d] = you
      BY <1>3
    <3> QED
      BY <2>1, <3>1
  <2>3. UNCHANGED seqNo
    BY <1>2
  <2> QED
    BY <2>2, <2>3 DEF Follows, Numbered, EndsAtLast
<1>6. EventTypeOK'
  BY <1>2, <1>3 DEF EventTypeOK
<1> QED
  BY <1>4, <1>5, <1>6 DEF Traced

LEMMA ReconcileFollows ==
  ASSUME EventTypeOK, Traced, NEW c \in Consumers, Reconcile(c)
  PROVE  Traced' /\ EventTypeOK'
<1> DEFINE me == consumers[c]
           you == [me EXCEPT !.mirror = view, !.last = seqNo, !.gap = FALSE]
<1>1. me \in Mirrors /\ seqNo \in Nat /\ view \in Views
  BY DEF EventTypeOK
<1>2. you \in Mirrors
  BY <1>1 DEF Mirrors
<1>3. consumers' = [consumers EXCEPT ![c] = you] /\ UNCHANGED journal
  BY DEF Reconcile
<1>4. you.mirror = view /\ you.last = seqNo /\ you.backlog = me.backlog /\ you.queue = me.queue
  BY <1>1 DEF Mirrors
<1> HIDE DEF you
<1>5. ASSUME NEW v \in [Nat -> Views], NEW it \in [Nat -> Entries], TraceOf(v, it), Follows(me, v, it)
      PROVE  Follows(you, v, it)
  BY <1>1, <1>4, <1>5 DEF Follows, TraceOf
<1> QED
  BY <1>2, <1>3, <1>5, ConsumerIsTraced

LEMMA SubscribeLiveFollows ==
  ASSUME EventTypeOK, Traced, NEW c \in Consumers, SubscribeLive(c)
  PROVE  Traced' /\ EventTypeOK'
<1> DEFINE me == consumers[c]
           you == [me EXCEPT !.on = TRUE, !.queue = <<>>, !.backlog = <<>>, !.gap = TRUE]
<1>1. me \in Mirrors
  BY DEF EventTypeOK
<1>2. you \in Mirrors
  BY <1>1, NoEntries DEF Mirrors
<1>3. consumers' = [consumers EXCEPT ![c] = you] /\ UNCHANGED journal
  BY DEF SubscribeLive
<1>4. you.last = me.last /\ you.gap = TRUE /\ you.backlog = <<>> /\ you.queue = <<>>
  BY <1>1 DEF Mirrors
<1> HIDE DEF you
<1>5. ASSUME NEW v \in [Nat -> Views], NEW it \in [Nat -> Entries], TraceOf(v, it), Follows(me, v, it)
      PROVE  Follows(you, v, it)
  BY <1>4, <1>5 DEF Follows, Numbered
<1> QED
  BY <1>2, <1>3, <1>5, ConsumerIsTraced

LEMMA DisconnectFollows ==
  ASSUME EventTypeOK, Traced, NEW c \in Consumers, Disconnect(c)
  PROVE  Traced' /\ EventTypeOK'
<1> DEFINE me == consumers[c]
           you == [me EXCEPT !.on = FALSE, !.backlog = <<>>, !.queue = <<>>]
<1>1. me \in Mirrors
  BY DEF EventTypeOK
<1>2. you \in Mirrors
  BY <1>1, NoEntries DEF Mirrors
<1>3. consumers' = [consumers EXCEPT ![c] = you] /\ UNCHANGED journal
  BY DEF Disconnect
<1>4. /\ you.on = FALSE /\ you.last = me.last /\ you.gap = me.gap /\ you.mirror = me.mirror
      /\ you.backlog = <<>> /\ you.queue = <<>>
  BY <1>1 DEF Mirrors
<1> HIDE DEF you
<1>5. ASSUME NEW v \in [Nat -> Views], NEW it \in [Nat -> Entries], TraceOf(v, it), Follows(me, v, it)
      PROVE  Follows(you, v, it)
  BY <1>4, <1>5 DEF Follows, Numbered
<1> QED
  BY <1>2, <1>3, <1>5, ConsumerIsTraced

\* The newest item of the history is the newest of all: a consumer that is behind
\* has it in its backlog.
LEMMA SubscribeFollows ==
  ASSUME EventTypeOK, Traced, NEW c \in Consumers, Subscribe(c)
  PROVE  Traced' /\ EventTypeOK'
<1>1. /\ consumers[c] \in Mirrors /\ consumers[c].last \in Nat /\ consumers[c].gap \in BOOLEAN
      /\ seqNo \in Nat /\ history \in Seq(Entries) /\ Len(history) \in Nat
  BY DEF EventTypeOK, Mirrors
<1>2. PICK k \in 0 .. Len(history) :
        /\ \A i \in DOMAIN history : history[i].seq > consumers[c].last <=> i > k
        /\ consumers' = [consumers EXCEPT ![c].on = TRUE, ![c].queue = <<>>,
                ![c].backlog = SubSeq(history, k + 1, Len(history))]
  BY DEF Subscribe
<1> DEFINE me == consumers[c]
           h == Len(history)
           b == SubSeq(history, k + 1, h)
           you == [me EXCEPT !.on = TRUE, !.queue = <<>>, !.backlog = b]
<1>3. /\ b \in Seq(Entries) /\ Len(b) = h - k /\ Len(b) \in Nat
      /\ \A i \in 1 .. Len(b) : b[i] = history[k + i] /\ k + i \in 1 .. h
  <2>1. \A i \in k + 1 .. h : history[i] \in Entries
    BY <1>1
  <2>2. b \in Seq(Entries) /\ Len(b) = (IF k + 1 <= h THEN h - (k + 1) + 1 ELSE 0)
        /\ \A i \in 1 .. h - (k + 1) + 1 : b[i] = history[k + 1 + i - 1]
    BY <1>1, <2>1, SubSeqProperties
  <2> QED
    BY <1>1, <2>2
<1>4. you \in Mirrors
  BY <1>1, <1>3, NoEntries DEF Mirrors
<1>5. consumers' = [consumers EXCEPT ![c] = you] /\ UNCHANGED journal
  BY <1>2 DEF Subscribe
<1>6. you.last = me.last /\ you.gap = me.gap /\ you.mirror = me.mirror /\ you.backlog = b /\ you.queue = <<>>
  BY <1>1 DEF Mirrors
<1> HIDE DEF you, b
<1>7. ASSUME NEW v \in [Nat -> Views], NEW it \in [Nat -> Entries], TraceOf(v, it), Follows(me, v, it)
      PROVE  Follows(you, v, it)
  <2>1. /\ h <= seqNo /\ (seqNo > 0 => h > 0)
        /\ \A i \in 1 .. h : history[i] = it[seqNo - h + i]
        /\ \A n \in Nat : n < seqNo => it[n + 1].seq = n + 1
    BY <1>7 DEF TraceOf
  <2>2. ASSUME NEW i \in 1 .. h PROVE history[i].seq = seqNo - h + i /\ history[i] = it[seqNo - h + i]
    <3> DEFINE n == seqNo - h + i - 1
    <3>1. n \in Nat /\ n < seqNo /\ n + 1 = seqNo - h + i
      BY <1>1, <2>1
    <3> HIDE DEF n
    <3> QED
      BY <2>1, <3>1
  <2>3. ASSUME NEW i \in 1 .. Len(b) PROVE b[i].seq >= 1 /\ b[i].seq <= seqNo /\ b[i] = it[b[i].seq]
    <3>1. b[i] = history[k + i] /\ k + i \in 1 .. h
      BY <1>3
    <3>2. history[k + i].seq = seqNo - h + (k + i) /\ history[k + i] = it[seqNo - h + (k + i)]
      BY <2>2, <3>1
    <3> QED
      BY <1>1, <2>1, <3>1, <3>2
  <2>4. ASSUME me.last < seqNo PROVE b # <<>> /\ b[Len(b)].seq = seqNo
    <3>1. h \in 1 .. h /\ h \in DOMAIN history
      BY <1>1, <2>1, <2>4
    <3>2. history[h].seq = seqNo
      BY <1>1, <2>2, <3>1
    <3>3. k < h
      BY <1>1, <1>2, <2>4, <3>1, <3>2
    <3>4. Len(b) \in 1 .. Len(b) /\ k + Len(b) = h
      BY <1>1, <1>3, <3>3
    <3> QED
      BY <1>3, <3>2, <3>4
  <2>5. Numbered(you.backlog, it) /\ Numbered(you.queue, it)
    BY <1>6, <2>3 DEF Numbered
  <2>6. me.last < seqNo => EndsAtLast(you)
    BY <1>6, <2>4 DEF EndsAtLast
  <2> QED
    BY <1>6, <1>7, <2>5, <2>6 DEF Follows
<1> QED
  BY <1>4, <1>5, <1>7, ConsumerIsTraced

\* A sequence without its first item has the others, one place earlier.
LEMMA EntriesTail ==
  ASSUME NEW q \in Seq(Entries), q # <<>>
  PROVE  /\ Tail(q) \in Seq(Entries) /\ Len(q) \in Nat /\ Len(q) > 0 /\ Len(Tail(q)) = Len(q) - 1
         /\ q[1] \in Entries
         /\ \A i \in 1 .. Len(Tail(q)) : Tail(q)[i] = q[i + 1] /\ i + 1 \in 1 .. Len(q)
OBVIOUS

\* What a consumer takes from the front of what is there for it.
LEMMA DeliverIs ==
  ASSUME EventTypeOK, NEW c \in Consumers, Deliver(c)
  PROVE  LET me == consumers[c] IN
         \E item \in Entries, you \in Mirrors :
           /\ consumers' = [consumers EXCEPT ![c] = you]
           /\ you.on = me.on
           /\ \/ /\ me.backlog # <<>> /\ item = me.backlog[1]
                 /\ you.backlog = Tail(me.backlog) /\ you.queue = me.queue
              \/ /\ me.backlog = <<>> /\ me.queue # <<>> /\ item = me.queue[1]
                 /\ you.backlog = <<>> /\ you.queue = Tail(me.queue)
           /\ you.last = IF item.seq > me.last THEN item.seq ELSE me.last
           /\ (~you.gap => ~me.gap /\ item.seq <= me.last + 1)
           /\ you.mirror = IF item.seq > me.last THEN Fold(me.mirror, item) ELSE me.mirror
<1> DEFINE me == consumers[c]
           item == Head(me.backlog \o me.queue)
           b == IF me.backlog = <<>> THEN me.backlog ELSE Tail(me.backlog)
           q == IF me.backlog = <<>> THEN Tail(me.queue) ELSE me.queue
           l == IF item.seq > me.last THEN item.seq ELSE me.last
           g == me.gap \/ item.seq > me.last + 1
           m == IF item.seq > me.last THEN Fold(me.mirror, item) ELSE me.mirror
           you == [me EXCEPT !.backlog = b, !.queue = q, !.last = l, !.gap = g, !.mirror = m]
<1>1. /\ me \in Mirrors /\ me.backlog \in Seq(Entries) /\ me.queue \in Seq(Entries) /\ me.last \in Nat
      /\ me.gap \in BOOLEAN /\ me.mirror \in Views
  BY DEF EventTypeOK, Mirrors
<1>2. me.backlog \o me.queue # <<>> /\ consumers' = [consumers EXCEPT ![c] = you]
  BY <1>1 DEF Deliver, Mirrors
<1>3. me.backlog # <<>> => item = me.backlog[1] /\ item \in Entries
  <2> DEFINE s == me.backlog
             t == me.queue
  <2>1. s \in Seq(Entries) /\ t \in Seq(Entries) /\ item = Head(s \o t)
    BY <1>1
  <2> HIDE DEF s, t, item
  <2>2. ASSUME s # <<>> PROVE item = s[1] /\ item \in Entries
    <3>1. Len(s) \in Nat /\ Len(s) > 0 /\ Len(t) \in Nat /\ s[1] \in Entries
      BY <2>1, <2>2
    <3>2. s \o t \in Seq(Entries) /\ Len(s \o t) = Len(s) + Len(t) /\ (s \o t)[1] = s[1]
      BY <2>1, <3>1
    <3>3. Head(s \o t) = (s \o t)[1]
      BY <3>1, <3>2
    <3> QED
      BY <2>1, <3>1, <3>2, <3>3
  <2> QED
    BY <2>2 DEF s
<1>4. me.backlog = <<>> => me.queue # <<>> /\ item = me.queue[1] /\ item \in Entries
  BY <1>1, <1>2
<1> HIDE DEF item
<1>5. item \in Entries /\ item.seq \in Nat
  BY <1>3, <1>4 DEF Entries
<1>6. b \in Seq(Entries) /\ q \in Seq(Entries)
  BY <1>1, <1>4, EntriesTail
<1>7. l \in Nat /\ g \in BOOLEAN
  BY <1>1, <1>5
<1>8. m \in Views
  BY <1>1, <1>5, FoldIs
<1>9. ~g => ~me.gap /\ item.seq <= me.last + 1
  BY <1>1, <1>5
<1>10. /\ b = (IF me.backlog = <<>> THEN me.backlog ELSE Tail(me.backlog))
       /\ q = (IF me.backlog = <<>> THEN Tail(me.queue) ELSE me.queue)
       /\ l = (IF item.seq > me.last THEN item.seq ELSE me.last)
       /\ m = (IF item.seq > me.last THEN Fold(me.mirror, item) ELSE me.mirror)
  OBVIOUS
<1> HIDE DEF b, q, l, g, m
<1>11. you \in Mirrors
  BY <1>1, <1>6, <1>7, <1>8 DEF Mirrors
<1>12. /\ you.on = me.on /\ you.backlog = b /\ you.queue = q /\ you.last = l /\ you.gap = g /\ you.mirror = m
  BY <1>1 DEF Mirrors
<1> HIDE DEF you
<1>13. \/ /\ me.backlog # <<>> /\ item = me.backlog[1]
          /\ you.backlog = Tail(me.backlog) /\ you.queue = me.queue
       \/ /\ me.backlog = <<>> /\ me.queue # <<>> /\ item = me.queue[1]
          /\ you.backlog = <<>> /\ you.queue = Tail(me.queue)
  BY <1>3, <1>4, <1>10, <1>12
<1>14. ~you.gap => ~me.gap /\ item.seq <= me.last + 1
  BY <1>9, <1>12
<1>15. /\ you.last = (IF item.seq > me.last THEN item.seq ELSE me.last)
       /\ you.mirror = (IF item.seq > me.last THEN Fold(me.mirror, item) ELSE me.mirror)
  BY <1>10, <1>12
<1> QED
  BY <1>2, <1>5, <1>11, <1>12, <1>13, <1>14, <1>15

\* A number that follows takes the mirror to the journal's next view; the newest
\* item, once taken, leaves nothing to be behind of.
LEMMA DeliverFollows ==
  ASSUME EventTypeOK, Traced, NEW c \in Consumers, Deliver(c)
  PROVE  Traced' /\ EventTypeOK'
<1> DEFINE me == consumers[c]
<1>1. /\ me.backlog \in Seq(Entries) /\ me.queue \in Seq(Entries) /\ me.last \in Nat /\ seqNo \in Nat
      /\ me.gap \in BOOLEAN
  BY DEF EventTypeOK, Mirrors
<1>2. PICK item \in Entries, you \in Mirrors :
           /\ consumers' = [consumers EXCEPT ![c] = you]
           /\ you.on = me.on
           /\ \/ /\ me.backlog # <<>> /\ item = me.backlog[1]
                 /\ you.backlog = Tail(me.backlog) /\ you.queue = me.queue
              \/ /\ me.backlog = <<>> /\ me.queue # <<>> /\ item = me.queue[1]
                 /\ you.backlog = <<>> /\ you.queue = Tail(me.queue)
           /\ you.last = IF item.seq > me.last THEN item.seq ELSE me.last
           /\ (~you.gap => ~me.gap /\ item.seq <= me.last + 1)
           /\ you.mirror = IF item.seq > me.last THEN Fold(me.mirror, item) ELSE me.mirror
  BY DeliverIs
<1>3. UNCHANGED journal
  BY DEF Deliver
<1>4. ASSUME NEW v \in [Nat -> Views], NEW it \in [Nat -> Entries], TraceOf(v, it), Follows(me, v, it)
      PROVE  Follows(you, v, it)
  <2>1. /\ me.last <= seqNo /\ Numbered(me.backlog, it) /\ Numbered(me.queue, it)
        /\ (~me.gap => me.mirror = v[me.last])
        /\ (me.on /\ ~me.gap /\ me.last < seqNo => EndsAtLast(me))
    BY <1>4 DEF Follows
  <2>2. item.seq \in Nat /\ item.seq >= 1 /\ item.seq <= seqNo /\ item = it[item.seq]
    <3>1. item.seq \in Nat
      BY DEF Entries
    <3>2. CASE me.backlog # <<>> /\ item = me.backlog[1]
      <4>1. 1 \in 1 .. Len(me.backlog)
        BY <1>1, <3>2, EntriesTail
      <4> QED
        BY <2>1, <3>1, <3>2, <4>1 DEF Numbered
    <3>3. CASE me.queue # <<>> /\ item = me.queue[1]
      <4>1. 1 \in 1 .. Len(me.queue)
        BY <1>1, <3>3, EntriesTail
      <4> QED
        BY <2>1, <3>1, <3>3, <4>1 DEF Numbered
    <3> QED
      BY <1>2, <3>2, <3>3
  <2>3. you.last <= seqNo /\ you.last >= me.last /\ you.last >= item.seq /\ you.last \in Nat
    BY <1>1, <1>2, <2>1, <2>2
  <2>4. ASSUME ~you.gap PROVE you.mirror = v[you.last]
    <3>1. ~me.gap /\ item.seq <= me.last + 1 /\ me.mirror = v[me.last]
      BY <1>2, <2>1, <2>4
    <3>2. CASE item.seq > me.last
      <4>1. item.seq = me.last + 1 /\ me.last < seqNo
        BY <1>1, <2>2, <3>1, <3>2
      <4>2. v[me.last + 1] = Fold(v[me.last], it[me.last + 1])
        BY <1>1, <1>4, <4>1 DEF TraceOf
      <4> QED
        BY <1>2, <2>2, <3>1, <3>2, <4>1, <4>2
    <3>3. CASE ~(item.seq > me.last)
      BY <1>2, <3>1, <3>3
    <3> QED
      BY <3>2, <3>3
  <2>5. ASSUME NEW q \in Seq(Entries), q # <<>>, Numbered(q, it) PROVE Numbered(Tail(q), it)
    BY <2>5, EntriesTail DEF Numbered
  <2>6. Numbered(you.backlog, it) /\ Numbered(you.queue, it)
    <3>1. Numbered(<<>>, it)
      BY DEF Numbered
    <3> QED
      BY <1>1, <1>2, <2>1, <2>5, <3>1
  <2>7. ASSUME NEW q \in Seq(Entries), q # <<>>, q[Len(q)].seq = seqNo, q[1] = item, you.last < seqNo
        PROVE  Tail(q) # <<>> /\ Tail(q)[Len(Tail(q))].seq = seqNo
    <3>1. Len(q) # 1
      BY <1>1, <2>2, <2>3, <2>7
    <3>2. Len(q) \in Nat /\ Len(q) > 1 /\ Len(Tail(q)) = Len(q) - 1 /\ Len(Tail(q)) # 0
      <4>1. Len(q) \in Nat /\ Len(q) > 0 /\ Len(Tail(q)) = Len(q) - 1
        BY <2>7, EntriesTail
      <4> QED
        <5> DEFINE x == Len(q)
                   y == Len(Tail(q))
        <5> HIDE DEF x, y
        <5>1. x # 1 /\ x \in Nat /\ x > 0 /\ y = x - 1
          BY <3>1, <4>1 DEF x, y
        <5>2. x > 1 /\ y # 0
          BY <5>1
        <5> QED
          BY <5>1, <5>2 DEF x, y
    <3>3. Len(Tail(q)) \in 1 .. Len(Tail(q)) /\ Len(Tail(q)) + 1 = Len(q)
      BY <3>2
    <3>4. Tail(q)[Len(Tail(q))] = q[Len(q)]
      BY <2>7, <3>3, EntriesTail
    <3>5. Tail(q) # <<>>
      <4>1. Len(Tail(q)) # 0
        BY <3>2
      <4>2. Len(<<>>) = 0
        OBVIOUS
      <4> QED
        BY <4>1, <4>2, Zenon
    <3> QED
      BY <2>7, <3>4, <3>5
  <2>8. ASSUME you.on, ~you.gap, you.last < seqNo PROVE EndsAtLast(you)
    <3>1. EndsAtLast(me)
      BY <1>1, <1>2, <2>1, <2>3, <2>8
    <3>2. CASE /\ me.backlog # <<>> /\ item = me.backlog[1]
               /\ you.backlog = Tail(me.backlog) /\ you.queue = me.queue
      <4>1. CASE me.queue # <<>>
        BY <3>1, <3>2, <4>1 DEF EndsAtLast
      <4>2. CASE me.queue = <<>>
        <5>1. me.backlog[Len(me.backlog)].seq = seqNo
          BY <3>1, <4>2 DEF EndsAtLast
        <5>2. you.backlog # <<>> /\ you.backlog[Len(you.backlog)].seq = seqNo
          BY <1>1, <2>7, <2>8, <3>2, <5>1
        <5> QED
          BY <3>2, <4>2, <5>2 DEF EndsAtLast
      <4> QED
        BY <4>1, <4>2
    <3>3. CASE /\ me.backlog = <<>> /\ me.queue # <<>> /\ item = me.queue[1]
               /\ you.backlog = <<>> /\ you.queue = Tail(me.queue)
      <4>1. me.queue[Len(me.queue)].seq = seqNo
        BY <3>1, <3>3 DEF EndsAtLast
      <4>2. you.queue # <<>> /\ you.queue[Len(you.queue)].seq = seqNo
        BY <1>1, <2>7, <2>8, <3>3, <4>1
      <4> QED
        BY <4>2 DEF EndsAtLast
    <3> QED
      BY <1>2, <3>2, <3>3
  <2> QED
    BY <2>3, <2>4, <2>6, <2>8 DEF Follows
<1> QED
  BY <1>2, <1>3, <1>4, ConsumerIsTraced

\* A step that leaves the journal and the consumers alone leaves the trace.
LEMMA TraceStands ==
  ASSUME Traced, UNCHANGED <<seqNo, history, view, consumers>>
  PROVE  Traced'
<1>1. PICK v \in [Nat -> Views], it \in [Nat -> Entries] :
        TraceOf(v, it) /\ \A c \in Consumers : Follows(consumers[c], v, it)
  BY DEF Traced
<1>2. TraceOf(v, it)'
  BY <1>1 DEF TraceOf
<1>3. ASSUME NEW c \in Consumers PROVE Follows(consumers[c], v, it)'
  <2>1. Follows(consumers[c], v, it)
    BY <1>1
  <2> QED
    BY <2>1 DEF Follows, Numbered, EndsAtLast
<1> QED
  BY <1>2, <1>3 DEF Traced

\* A move, a wire and a teardown keep the types and the trace.
LEMMA WriterKeeps ==
  ASSUME EventTypeOK, Traced,
         \/ \E e \in Moved \ {"CONNECTION_OPENED", "CONNECTION_CLOSED"} : Moves(e)
         \/ \E k \in Kinds : WireOpens(k) \/ WireCloses(k)
         \/ CloseAll
  PROVE  Traced' /\ EventTypeOK'
<1>1. wires' \in [Kinds -> Nat]
  <2>0. wires \in [Kinds -> Nat]
    BY DEF EventTypeOK
  <2>1. ASSUME NEW k \in Kinds, WireOpens(k) PROVE wires' \in [Kinds -> Nat]
    BY <2>0, <2>1 DEF WireOpens
  <2>2. ASSUME NEW k \in Kinds, WireCloses(k) PROVE wires' \in [Kinds -> Nat]
    BY <2>0, <2>2 DEF WireCloses
  <2> QED
    BY <2>0, <2>1, <2>2 DEF Moves, CloseAll
<1>2. ASSUME NEW e \in Moved, NEW kind \in Kinds, SendEvent(e, kind), Target(e, kind) # Rejected PROVE Traced' /\ EventTypeOK'
  <2>1. Traced'
    BY <1>2, MoveIsTraced
  <2>2. PICK item \in Entries :
           /\ item.seq = seqNo + 1 /\ seqNo' = seqNo + 1
           /\ history' = Newest(Append(history, item), HistoryLimit)
           /\ view' = Fold(view, item)
           /\ consumers' \in [Consumers -> Mirrors]
    BY <1>2, MoveJournals
  <2>3. history' \in Seq(Entries)
    <3>1. Append(history, item) \in Seq(Entries)
      BY DEF EventTypeOK
    <3> QED
      BY <2>2, <3>1, NewestEntries, EventStreamAssumption
  <2>4. view' \in Views
    BY <2>2, FoldIs DEF EventTypeOK
  <2>5. /\ moment' \in [state : SessionStates, live : Nat] /\ series' \in [live : Nat, running : BOOLEAN, sessions : Nat]
        /\ begun' = (IF e = "START_SESSION" THEN begun + 1 ELSE begun)
    BY <1>2, MoveIs
  <2>6. begun' \in Nat /\ seqNo' \in Nat
    BY <2>2, <2>5 DEF EventTypeOK
  <2> QED
    BY <1>1, <2>1, <2>2, <2>3, <2>4, <2>5, <2>6 DEF EventTypeOK
<1>3. ASSUME UNCHANGED <<moment, seqNo, history, view, series, begun, consumers>> PROVE Traced' /\ EventTypeOK'
  <2>1. EventTypeOK'
    BY <1>1, <1>3 DEF EventTypeOK
  <2>2. Traced'
    BY <1>3, TraceStands
  <2> QED
    BY <2>1, <2>2
<1>4. ASSUME NEW e \in Moved, NEW kind \in Kinds, SendEvent(e, kind) PROVE Traced' /\ EventTypeOK'
  <2>1. CASE Target(e, kind) = Rejected
    BY <1>3, <1>4, <2>1 DEF SendEvent
  <2> QED
    BY <1>2, <1>4, <2>1
<1>5. ASSUME CloseAll PROVE Traced' /\ EventTypeOK'
  BY <1>3, <1>5 DEF CloseAll
<1> QED
  BY <1>4, <1>5 DEF Moves, WireOpens, WireCloses, Moved, Kinds

LEMMA EventKeeps == EventInv /\ [EventNext]_eventVars => EventInv'
<1> SUFFICES ASSUME EventInv, [EventNext]_eventVars PROVE EventInv'
  OBVIOUS
<1>0. EventTypeOK /\ SeriesInv /\ Traced
  BY DEF EventInv
<1>1. CASE \/ \E e \in Moved \ {"CONNECTION_OPENED", "CONNECTION_CLOSED"} : Moves(e)
           \/ \E k \in Kinds : WireOpens(k) \/ WireCloses(k)
           \/ CloseAll
  BY <1>0, <1>1, SeriesKeeps, WriterKeeps DEF EventInv
<1>2. ASSUME NEW c \in Consumers,
             Reconcile(c) \/ Subscribe(c) \/ SubscribeLive(c) \/ Deliver(c) \/ Disconnect(c)
      PROVE  EventInv'
  <2>1. UNCHANGED <<moment, wires, seqNo, history, view, series, begun>>
    BY <1>2 DEF Reconcile, Subscribe, SubscribeLive, Deliver, Disconnect, journal
  <2>2. SeriesInv'
    BY <1>0, <2>1 DEF SeriesInv
  <2>3. Traced' /\ EventTypeOK'
    BY <1>0, <1>2, ReconcileFollows, SubscribeFollows, SubscribeLiveFollows, DeliverFollows, DisconnectFollows
  <2> QED
    BY <2>2, <2>3 DEF EventInv
<1>3. CASE UNCHANGED eventVars
  <2>1. UNCHANGED <<moment, wires, seqNo, history, view, series, begun, consumers>>
    BY <1>3 DEF eventVars, journal
  <2>2. EventTypeOK' /\ SeriesInv'
    BY <1>0, <2>1 DEF EventTypeOK, SeriesInv
  <2>3. Traced'
    BY <1>0, <2>1, TraceStands
  <2> QED
    BY <2>2, <2>3 DEF EventInv
<1>4. CASE EventNext
  <2>1. Moved \ {"CONNECTION_OPENED", "CONNECTION_CLOSED"} =
          {"START_SESSION", "STOP_SESSION", "CLEANUP_COMPLETE", "EVICTION", "METRIC"}
    BY DEF Moved
  <2> QED
    BY <1>1, <1>2, <1>4, <2>1 DEF EventNext
<1> QED
  BY <1>3, <1>4

\* The journal is exact: a consumer that has taken all there is for it and met no
\* gap sees what the journal sees, whatever its queue shed and whenever it came back
\* (event_stream.py), and the session's series follow its connections and count every
\* session once (metrics/session.py).
THEOREM EventsSafe == EventSpec => [](MirrorIsExact /\ SeriesAreTrue)
<1>1. ASSUME EventInv PROVE MirrorIsExact
  <2>1. PICK v \in [Nat -> Views], it \in [Nat -> Entries] :
          TraceOf(v, it) /\ \A c \in Consumers : Follows(consumers[c], v, it)
    BY <1>1 DEF EventInv, Traced
  <2>2. seqNo \in Nat /\ consumers \in [Consumers -> Mirrors] /\ v[seqNo] = view
    BY <1>1, <2>1 DEF EventInv, EventTypeOK, TraceOf
  <2>3. ASSUME NEW c \in Consumers, consumers[c].on, consumers[c].backlog = <<>>, consumers[c].queue = <<>>, ~consumers[c].gap
        PROVE  consumers[c].last = seqNo /\ consumers[c].mirror = view
    <3>1. /\ consumers[c].last <= seqNo /\ consumers[c].mirror = v[consumers[c].last]
          /\ (consumers[c].last < seqNo => EndsAtLast(consumers[c]))
      BY <2>1, <2>3 DEF Follows
    <3>2. ~EndsAtLast(consumers[c]) /\ consumers[c].last \in Nat
      BY <2>2, <2>3 DEF EndsAtLast, Mirrors
    <3> QED
      BY <2>2, <3>1, <3>2
  <2> QED
    BY <2>3 DEF MirrorIsExact
<1>2. EventInv => SeriesAreTrue
  BY WiresAre DEF EventInv, EventTypeOK, SeriesInv, SeriesAreTrue, OpenStates
<1> QED
  BY <1>1, <1>2, EventInvInit, EventKeeps, PTL DEF EventSpec

\* What the runtime says of itself adds up, for any number of moves, connections,
\* consumers, sessions, frames and samples and any limit of the history and of a
\* subscriber's queue (event_stream.py, metrics/session.py, runtime_stats.py,
\* webrtc/metrics.py).
THEOREM JournalSafe == EventSpec /\ StatSpec => []JournalIsExact
<1>1. MirrorIsExact /\ SeriesAreTrue /\ ReadingsAddUp /\ CountersFollowTheWire => JournalIsExact
  BY DEF JournalIsExact
<1> QED
  BY <1>1, EventsSafe, StatsSafe, PTL

===============================================================================
