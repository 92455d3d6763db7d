--------------------------- MODULE ModelServerProofs ---------------------------
(***************************************************************************)
(* Proofs about the model server: who holds a slot, how often a request is *)
(* answered, and which generation a client steps in.                       *)
(***************************************************************************)
EXTENDS ModelServer, FiniteSetTheorems, SequenceTheorems, TLAPS

Messages == [kind : {"welcome", "reply", "done", "refused", "flush"}, id : Nat, gen : Nat]

\* The type invariant, with what an outbox holds.
Typed == ServerTypeOK /\ outbox \in [Conns -> Seq(Messages)]

-------------------------------------------------------------------------------
(* What the slots' invariant rests on.                                     *)

\* The step thread has events in hand exactly while it is between taking them
\* and finishing the last, and the connection of a call into the model waits.
ThreadInHand ==
  /\ at \in {"events", "opening", "resetting"} <=> todo # <<>>
  /\ at = "opening" => /\ Event.kind = "open" /\ cstate[Event.conn] = "OPENING"
                       /\ bySlot[slot[Event.conn]] = NoConn
  /\ at = "resetting" => Event.kind = "reset" /\ cstate[Event.conn] = "OPEN"

\* drain() and stop() have told the server, and an ended step thread serves nobody.
ServerTold ==
  /\ drain # "idle" => server # "serving"
  /\ stop # "idle" <=> server = "stopped"
  /\ stop = "done" => at = "ended"
  /\ at = "ended" => server # "serving"

\* A connection on its way has its place among the opening ones, and its slot
\* once it said hello.
OnTheWay ==
  /\ \A c \in Conns : cstate[c] \in {"OPENING", "OPEN"} => slot[c] \in Slots
  /\ \A c \in Conns : cstate[c] \in {"CONNECTING", "OPENING"} => c \in opening
  /\ \A e \in Range(events) \union Range(todo) :
       e.kind = "open" => cstate[e.conn] \notin {"none", "CONNECTING"}

Closes(c) == \E m \in Range(outbox[c]) : m.kind \in {"flush", "refused"}

\* A link open though its connection is closed has the end of it on its way.
LinksEnd ==
  \A c \in Conns : up[c] => /\ cstate[c] # "none"
                            /\ cstate[c] \in {"CLOSING", "CLOSED"} => Closes(c)

\* Only an open connection's requests wait.
WaitersAreOpen == \A w \in Range(waiting) : w.conn \in connections

SlotsInv == Typed /\ ThreadInHand /\ ServerTold /\ OnTheWay /\ LinksEnd /\ WaitersAreOpen
            /\ OneHolderPerSlot /\ ModelMirrors /\ BusyIsHeld /\ StopReleasesAll

-------------------------------------------------------------------------------
(* What the requests' invariant rests on.                                  *)

Resets(s) == {e \in Range(s) : e.kind = "reset"}

OwedStep(c, i) ==
  \/ \E w \in Range(waiting) : w.conn = c /\ w.id = i
  \/ \E p \in pending : p.conn = c /\ p.id = i /\ Awaited(p)

OwedReset(c, i) == \E e \in Resets(events) \union Resets(todo) : e.conn = c /\ e.id = i

\* A request that waits for its answer was made, and has none.
OwedAreNew ==
  \A c \in Conns : \A i \in RequestIds :
    /\ OwedStep(c, i) \/ OwedReset(c, i) => i <= calls[c] /\ answers[c][i] = 0
    /\ answers[c][i] > 0 => i <= calls[c]
    /\ ~ (OwedStep(c, i) /\ OwedReset(c, i))

\* The resets of a connection come in the order they were made, in a queue s.
Rising(s) ==
  \A i, j \in DOMAIN s :
    i < j /\ s[i].kind = "reset" /\ s[j].kind = "reset" /\ s[i].conn = s[j].conn
      => s[i].id < s[j].id

ResetsInOrder ==
  /\ \A e \in Resets(events) \union Resets(todo) : e.id \in RequestIds
  /\ Rising(events) /\ Rising(todo)
  /\ \A e \in Resets(todo), f \in Resets(events) : e.conn = f.conn => e.id < f.id

RequestsInv == OwedAreNew /\ ResetsInOrder /\ AnsweredOnce

-------------------------------------------------------------------------------
(* What the generations' invariant rests on.                               *)

NoReset(c) == \A e \in Resets(events) \union Resets(todo) : e.conn # c

\* A client knows no generation before its connection opens, and waits for the
\* call it made last.
Follows(c) ==
  /\ cstate[c] \in {"none", "CONNECTING", "OPENING"} =>
       /\ ~ready[c]
       /\ \A m \in Range(outbox[c]) : m.kind \notin {"welcome", "done"}
  /\ call[c].kind = "hello" => ~ready[c] /\ call[c].id = 0
  /\ call[c].kind \in {"step", "reset"} => call[c].id = calls[c] /\ calls[c] > 0
  /\ call[c].kind = "step" => ~OwedReset(c, calls[c])

\* The end of the last reset tells the generation the connection is in.
DoneIsLast(c) ==
  \A m \in Range(outbox[c]) :
    /\ m.kind = "welcome" => m.id = 0
    /\ m.kind = "done" =>
         /\ m.id \in 1 .. calls[c]
         /\ m.id = calls[c] => call[c].kind # "step" /\ m.gen = gen[c] /\ NoReset(c)

\* A client that may step has no reset under way.
ReadyIsCurrent(c) ==
  c \in connections /\ up[c] /\ ready[c] => clientGen[c] = gen[c] /\ NoReset(c)

ClientOK(c) == Follows(c) /\ DoneIsLast(c) /\ ReadyIsCurrent(c)
ClientsInv == \A c \in Conns : ClientOK(c)

\* A step that posts c nothing it moves on, and begins no wait of its client.
QuietLink(c) ==
  /\ up'[c] => up[c]
  /\ \A m \in Range(outbox'[c]) : m.kind \in {"welcome", "done"} => m \in Range(outbox[c])
  /\ call'[c] \in {call[c], NoCall}

QuietLinks == \A c \in Conns : QuietLink(c)

-------------------------------------------------------------------------------
(* The operators of the model.                                             *)

\* In a finite set of numbers every rank is somebody's.
LEMMA RanksAreTaken ==
  ASSUME NEW n \in Nat, NEW K \in SUBSET (1 .. n)
  PROVE  /\ Cardinality(K) \in Nat
         /\ \A k \in 1 .. Cardinality(K) :
              \E i \in K : Cardinality({j \in K : j <= i}) = k
         /\ \A i \in K : Cardinality({j \in K : j <= i}) \in 1 .. Cardinality(K)
         /\ \A i, l \in K : i # l =>
              Cardinality({j \in K : j <= i}) # Cardinality({j \in K : j <= l})
<1> DEFINE upTo(i) == {j \in K : j <= i}
<1> DEFINE rank == [i \in K |-> Cardinality(upTo(i))]
<1>1. IsFiniteSet(K) /\ Cardinality(K) \in Nat
  <2>1. IsFiniteSet(1 .. n)
    BY FS_Interval
  <2>2. IsFiniteSet(K)
    BY <2>1, FS_Subset
  <2> QED BY <2>2, FS_CardinalityType
<1>2. ASSUME NEW i \in K
      PROVE  Cardinality(upTo(i)) \in 1 .. Cardinality(K) /\ IsFiniteSet(upTo(i))
             /\ Cardinality(upTo(i)) \in Nat
  <2>1. upTo(i) \in SUBSET K /\ i \in upTo(i)
    OBVIOUS
  <2>2. IsFiniteSet(upTo(i)) /\ Cardinality(upTo(i)) <= Cardinality(K)
    BY <2>1, <1>1, FS_Subset
  <2>3. Cardinality(upTo(i)) \in Nat
    BY <2>2, FS_CardinalityType
  <2>4. Cardinality(upTo(i)) # 0
    BY <2>1, <2>2, FS_EmptySet
  <2> QED BY <2>2, <2>3, <2>4, <1>1
<1>3. ASSUME NEW i \in K, NEW l \in K, i < l
      PROVE  Cardinality(upTo(i)) < Cardinality(upTo(l))
  <2>0. \A j \in K : j \in Int
    OBVIOUS
  <2>1. upTo(i) \in SUBSET upTo(l) /\ l \in upTo(l) /\ l \notin upTo(i)
    <3>1. \A j \in K : j <= i => j <= l
      BY <1>3, <2>0
    <3>2. ~ (l <= i) /\ l <= l
      BY <1>3, <2>0
    <3> QED BY <3>1, <3>2
  <2>2. upTo(i) # upTo(l)
    BY <2>1
  <2>4. /\ Cardinality(upTo(i)) \in Nat /\ Cardinality(upTo(l)) \in Nat
        /\ IsFiniteSet(upTo(l))
    BY <1>2
  <2> HIDE DEF upTo
  <2>3. /\ Cardinality(upTo(i)) <= Cardinality(upTo(l))
        /\ Cardinality(upTo(i)) # Cardinality(upTo(l))
    BY <2>1, <2>2, <2>4, FS_Subset
  <2> QED BY <2>3, <2>4
<1>4. ASSUME NEW i \in K, NEW l \in K, i # l
      PROVE  Cardinality(upTo(i)) # Cardinality(upTo(l))
  <2>1. i \in Int /\ l \in Int
    OBVIOUS
  <2>2. Cardinality(upTo(i)) \in Nat /\ Cardinality(upTo(l)) \in Nat
    BY <1>2
  <2>3. CASE i < l
    BY <2>2, <2>3, <1>3
  <2>4. CASE l < i
    BY <2>2, <2>4, <1>3
  <2> QED BY <2>1, <2>3, <2>4, <1>4
<1> HIDE DEF upTo
<1>5. rank \in Injection(K, 1 .. Cardinality(K))
  <2>1. rank \in [K -> 1 .. Cardinality(K)]
    BY <1>2
  <2>2. \A i, l \in K : rank[i] = rank[l] => i = l
    BY <1>4
  <2> QED BY <2>1, <2>2 DEF Injection, IsInjective
<1>6. rank \in Surjection(K, 1 .. Cardinality(K))
  <2>1. IsFiniteSet(1 .. Cardinality(K)) /\ Cardinality(1 .. Cardinality(K)) = Cardinality(K)
    BY <1>1, FS_Interval
  <2> QED BY <2>1, <1>5, FS_Injection
<1>7. \A k \in 1 .. Cardinality(K) : \E i \in K : rank[i] = k
  BY <1>6 DEF Surjection
<1> QED BY <1>1, <1>2, <1>4, <1>7 DEF upTo

\* What is left of a queue once some of its requests left it.
LEMMA WithoutIs ==
  ASSUME NEW T, NEW s \in Seq(T), NEW R
  PROVE  /\ Without(s, R) \in Seq(T)
         /\ Range(Without(s, R)) = Range(s) \ R
         /\ \E f \in [DOMAIN Without(s, R) -> DOMAIN s] :
              /\ \A k \in DOMAIN Without(s, R) : Without(s, R)[k] = s[f[k]]
              /\ \A k, l \in DOMAIN Without(s, R) : f[k] = f[l] => k = l
<1> DEFINE kept == {i \in DOMAIN s : s[i] \notin R}
<1> DEFINE rank(i) == Cardinality({j \in kept : j <= i})
<1> DEFINE nth(k) == CHOOSE i \in kept : rank(i) = k
<1> DEFINE f == [k \in 1 .. Cardinality(kept) |-> nth(k)]
<1>1. Len(s) \in Nat /\ DOMAIN s = 1 .. Len(s) /\ kept \in SUBSET (1 .. Len(s))
  OBVIOUS
<1>2. /\ Cardinality(kept) \in Nat
      /\ \A k \in 1 .. Cardinality(kept) : \E i \in kept : rank(i) = k
      /\ \A i \in kept : rank(i) \in 1 .. Cardinality(kept)
      /\ \A i, l \in kept : i # l => rank(i) # rank(l)
  BY <1>1, RanksAreTaken
<1>3. Without(s, R) = [k \in 1 .. Cardinality(kept) |-> s[nth(k)]]
  BY DEF Without
<1>4. \A i \in kept : i \in DOMAIN s /\ s[i] \in T /\ s[i] \notin R
  OBVIOUS
<1>5. \A i \in DOMAIN s : s[i] \notin R => i \in kept
  OBVIOUS
<1> HIDE DEF kept, rank
<1>6. \A k \in 1 .. Cardinality(kept) : nth(k) \in kept /\ rank(nth(k)) = k
  BY <1>2
<1>7. \A i \in kept : nth(rank(i)) = i
  BY <1>2, <1>6
<1> HIDE DEF nth
<1>8. Without(s, R) \in Seq(T)
  <2>1. Without(s, R) \in [1 .. Cardinality(kept) -> T]
    BY <1>3, <1>4, <1>6
  <2> QED BY <2>1, <1>2
<1>9. Range(Without(s, R)) = Range(s) \ R
  <2>1. \A x : x \in Range(Without(s, R)) =>  x \in Range(s) \ R
    BY <1>3, <1>4, <1>6 DEF Range
  <2>2. ASSUME NEW x \in Range(s) \ R
        PROVE  x \in Range(Without(s, R))
    <3>1. PICK i \in DOMAIN s : s[i] = x
      BY DEF Range
    <3>2. i \in kept /\ nth(rank(i)) = i /\ rank(i) \in 1 .. Cardinality(kept)
      BY <3>1, <1>2, <1>5, <1>7
    <3> QED BY <3>1, <3>2, <1>3 DEF Range
  <2> QED BY <2>1, <2>2
<1>10. /\ f \in [DOMAIN Without(s, R) -> DOMAIN s]
       /\ \A k \in DOMAIN Without(s, R) : Without(s, R)[k] = s[f[k]]
       /\ \A k, l \in DOMAIN Without(s, R) : f[k] = f[l] => k = l
  BY <1>3, <1>4, <1>6
<1> QED BY <1>8, <1>9, <1>10

\* A message list answers request i, and answers no request twice.
Mentions(m, i) == \E k \in DOMAIN m : m[k].id = i
Once(m) == \A k, l \in DOMAIN m : m[k].id = m[l].id /\ m[k].id # 0 => k = l

\* What SetToSeq lists: every element of a finite set, each at one place.
LEMMA SetToSeqIs ==
  ASSUME NEW S, IsFiniteSet(S)
  PROVE  /\ SetToSeq(S) \in [1 .. Cardinality(S) -> S]
         /\ Cardinality(S) \in Nat
         /\ \A k, l \in 1 .. Cardinality(S) : SetToSeq(S)[k] = SetToSeq(S)[l] => k = l
         /\ \A x \in S : \E k \in 1 .. Cardinality(S) : SetToSeq(S)[k] = x
<1> DEFINE D == 1 .. Cardinality(S)
<1>1. Cardinality(S) \in Nat /\ ExistsBijection(D, S)
  BY FS_CardinalityType
<1>2. PICK b : b \in Bijection(D, S)
  BY <1>1 DEF ExistsBijection
<1>3. b \in [D -> S] /\ IsInjective(b)
  BY <1>2 DEF Bijection, Injection
<1>4. SetToSeq(S) \in [D -> S] /\ IsInjective(SetToSeq(S))
  BY <1>3 DEF SetToSeq
<1>5. SetToSeq(S) \in Injection(D, S)
  BY <1>4 DEF Injection
<1>6. IsFiniteSet(D) /\ Cardinality(D) = Cardinality(S)
  BY <1>1, FS_Interval
<1>7. SetToSeq(S) \in Surjection(D, S)
  BY <1>5, <1>6, FS_Injection
<1>8. \A x \in S : \E k \in D : SetToSeq(S)[k] = x
  BY <1>7 DEF Surjection
<1>9. \A k, l \in D : SetToSeq(S)[k] = SetToSeq(S)[l] => k = l
  BY <1>4 DEF IsInjective
<1> QED BY <1>1, <1>4, <1>8, <1>9

LEMMA FailedIs ==
  ASSUME NEW i \in Nat
  PROVE  /\ Failed(i) \in Messages /\ Failed(i).id = i /\ Failed(i).kind = "reply"
         /\ \A j \in Nat : Failed(i) = Failed(j) => i = j
BY DEF Failed, Answer, Messages

\* The failures of a connection's requests: one for each of them.
LEMMA FailuresAre ==
  ASSUME NEW c, NEW R, \A r \in R : r.conn = c => r.id \in RequestIds
  PROVE  /\ Failures(c, R) \in Seq(Messages)
         /\ \A k \in DOMAIN Failures(c, R) :
              Failures(c, R)[k].kind = "reply" /\ Failures(c, R)[k].id \in RequestIds
         /\ \A i : Mentions(Failures(c, R), i) => \E r \in R : r.conn = c /\ r.id = i
         /\ Once(Failures(c, R))
<1> DEFINE mine == {r \in R : r.conn = c}
<1> DEFINE S == {Failed(r.id) : r \in mine}
<1> DEFINE all == {Failed(i) : i \in RequestIds}
<1> DEFINE f == [i \in RequestIds |-> Failed(i)]
<1>0. RequestIds \subseteq Nat /\ IsFiniteSet(RequestIds) /\ 0 \notin RequestIds
  BY SizesAssumption, FS_Interval DEF RequestIds
<1>1. IsFiniteSet(all)
  <2>1. f \in Surjection(RequestIds, all)
    BY DEF Surjection
  <2> QED BY <2>1, <1>0, FS_Surjection
<1>2. S \in SUBSET all
  OBVIOUS
<1>3. IsFiniteSet(S)
  BY <1>1, <1>2, FS_Subset
<1>4. Failures(c, R) = SetToSeq(S)
  BY DEF Failures
<1>5. ASSUME NEW x \in S
      PROVE  /\ x \in Messages /\ x.kind = "reply" /\ x.id \in RequestIds
             /\ \E r \in R : r.conn = c /\ r.id = x.id
             /\ x = Failed(x.id)
  <2>1. PICK r \in mine : x = Failed(r.id)
    OBVIOUS
  <2>2. r.id \in RequestIds /\ r \in R /\ r.conn = c
    OBVIOUS
  <2>3. r.id \in Nat
    BY <2>2, <1>0
  <2>4. x \in Messages /\ x.id = r.id /\ x.kind = "reply"
    BY <2>1, <2>3, FailedIs
  <2> QED BY <2>1, <2>2, <2>4
<1> HIDE DEF S
<1> DEFINE q == SetToSeq(S)
<1>6. /\ q \in [1 .. Cardinality(S) -> S] /\ Cardinality(S) \in Nat
      /\ \A k, l \in 1 .. Cardinality(S) : q[k] = q[l] => k = l
  BY <1>3, SetToSeqIs
<1> HIDE DEF q
<1>7. DOMAIN q = 1 .. Cardinality(S) /\ \A k \in DOMAIN q : q[k] \in S
  BY <1>6
<1>8. q \in Seq(Messages)
  <2>1. q \in [1 .. Cardinality(S) -> Messages]
    BY <1>5, <1>6
  <2> QED BY <2>1, <1>6
<1>9. Once(q)
  <2>1. SUFFICES ASSUME NEW k \in DOMAIN q, NEW l \in DOMAIN q, q[k].id = q[l].id
                 PROVE  k = l
    BY DEF Once
  <2>2. q[k] = Failed(q[k].id) /\ q[l] = Failed(q[l].id)
    BY <1>5, <1>7
  <2>3. q[k] = q[l]
    BY <2>1, <2>2
  <2> QED BY <2>3, <1>6, <1>7
<1>10. \A k \in DOMAIN q : q[k].kind = "reply" /\ q[k].id \in RequestIds
  BY <1>5, <1>7
<1>11. \A i : Mentions(q, i) => \E r \in R : r.conn = c /\ r.id = i
  BY <1>5, <1>7 DEF Mentions
<1> QED BY <1>4, <1>8, <1>9, <1>10, <1>11 DEF q

\* How a count of answers grows by a list that holds no answer twice.
LEMMA CountIs ==
  ASSUME NEW m \in Seq(Messages), NEW i \in RequestIds
  PROVE  /\ Cardinality({k \in DOMAIN m : m[k].id = i}) \in Nat
         /\ ~Mentions(m, i) => Cardinality({k \in DOMAIN m : m[k].id = i}) = 0
         /\ Once(m) => Cardinality({k \in DOMAIN m : m[k].id = i}) <= 1
<1> DEFINE hits == {k \in DOMAIN m : m[k].id = i}
<1>1. IsFiniteSet(DOMAIN m)
  <2>1. DOMAIN m = 1 .. Len(m) /\ Len(m) \in Int
    OBVIOUS
  <2>2. IsFiniteSet(1 .. Len(m))
    BY <2>1, FS_Interval
  <2> QED BY <2>1, <2>2
<1>2. IsFiniteSet(hits) /\ Cardinality(hits) \in Nat
  <2>1. hits \in SUBSET (DOMAIN m)
    OBVIOUS
  <2>2. IsFiniteSet(hits)
    BY <2>1, <1>1, FS_Subset
  <2> QED BY <2>2, FS_CardinalityType
<1>3. ~Mentions(m, i) => hits = {}
  BY DEF Mentions
<1>4. ASSUME Once(m) PROVE hits = {} \/ \E k : hits = {k}
  <2>1. i # 0
    BY DEF RequestIds
  <2>2. \A k, l \in hits : k = l
    BY <1>4, <2>1 DEF Once
  <2> QED BY <2>2
<1> HIDE DEF hits
<1>5. ~Mentions(m, i) => Cardinality(hits) = 0
  BY <1>3, FS_EmptySet
<1>6. Once(m) => Cardinality(hits) <= 1
  <2>1. \A k : Cardinality({k}) = 1
    BY FS_Singleton
  <2>2. Cardinality({}) = 0
    BY FS_EmptySet
  <2>3. CASE hits = {}
    BY <2>2, <2>3
  <2>4. CASE \E k : hits = {k}
    <3>1. PICK k : hits = {k}
      BY <2>4
    <3>2. Cardinality(hits) = 1
      BY <2>1, <3>1
    <3> QED BY <3>2
  <2> QED BY <2>3, <2>4, <1>4
<1> QED BY <1>2, <1>5, <1>6 DEF hits

Calls == [kind : {"none", "hello", "step", "reset"}, id : Nat]

\* What posting the messages M, given the waits W, does to the links.
Delivered(M, W) ==
  /\ up' \in [Conns -> BOOLEAN]
  /\ outbox' \in [Conns -> Seq(Messages)] /\ \A c \in Conns : Len(outbox'[c]) \in 0 .. OutboxSize
  /\ call' \in [Conns -> Calls]
  /\ answers' \in [Conns -> [RequestIds -> Nat]]
  /\ \A c \in Conns :
       /\ up'[c] => up[c] /\ Range(outbox[c]) \subseteq Range(outbox'[c])
       /\ up'[c] /\ cstate[c] # "CLOSED" => Range(M[c]) \subseteq Range(outbox'[c])
       /\ Range(outbox'[c]) \subseteq Range(outbox[c]) \union Range(M[c])
       /\ call'[c] \in {W[c], NoCall}
       /\ \A i \in RequestIds :
            /\ ~Mentions(M[c], i) => answers'[c][i] = answers[c][i]
            /\ Once(M[c]) => answers'[c][i] <= answers[c][i] + 1

LEMMA RangeOfConcat ==
  ASSUME NEW T, NEW s \in Seq(T), NEW t \in Seq(T)
  PROVE  Range(s \o t) = Range(s) \union Range(t)
<1>1. \A k \in DOMAIN s : k \in DOMAIN (s \o t) /\ (s \o t)[k] = s[k]
  OBVIOUS
<1>2. \A k \in DOMAIN t : Len(s) + k \in DOMAIN (s \o t) /\ (s \o t)[Len(s) + k] = t[k]
  OBVIOUS
<1>3. \A k \in DOMAIN (s \o t) :
        \/ k \in DOMAIN s /\ (s \o t)[k] = s[k]
        \/ k - Len(s) \in DOMAIN t /\ (s \o t)[k] = t[k - Len(s)]
  OBVIOUS
<1>4. \A x : x \in Range(s) => x \in Range(s \o t)
  BY <1>1 DEF Range
<1>5. \A x : x \in Range(t) => x \in Range(s \o t)
  BY <1>2 DEF Range
<1>6. \A x : x \in Range(s \o t) => x \in Range(s) \union Range(t)
  BY <1>3 DEF Range
<1> QED BY <1>4, <1>5, <1>6

LEMMA PostIs ==
  ASSUME Typed, NEW M, M \in [Conns -> Seq(Messages)], NEW W, W \in [Conns -> Calls], PostTo(M, W)
  PROVE  Delivered(M, W)
<1> DEFINE sent == [c \in Conns |-> Posted(c, M[c])]
<1>1. /\ up' = [c \in Conns |-> up[c] /\ HasRoom(c, sent[c])]
      /\ outbox' = [c \in Conns |-> IF up'[c] THEN outbox[c] \o sent[c] ELSE <<>>]
      /\ call' = [c \in Conns |-> IF up'[c] THEN W[c] ELSE NoCall]
      /\ answers' = [c \in Conns |-> [i \in RequestIds |->
           answers[c][i] + Cardinality({k \in DOMAIN sent[c] : sent[c][k].id = i})]]
  BY DEF PostTo
<1>2. /\ outbox \in [Conns -> Seq(Messages)] /\ up \in [Conns -> BOOLEAN]
      /\ answers \in [Conns -> [RequestIds -> Nat]]
  BY DEF Typed, ServerTypeOK
<1>3. ASSUME NEW c \in Conns
      PROVE  /\ sent[c] \in Seq(Messages)
             /\ sent[c] = M[c] \/ sent[c] = <<>>
             /\ cstate[c] # "CLOSED" => sent[c] = M[c]
  BY DEF Posted
<1> HIDE DEF sent
<1>4. ASSUME NEW c \in Conns
      PROVE  /\ outbox'[c] \in Seq(Messages) /\ Len(outbox'[c]) \in 0 .. OutboxSize
             /\ up'[c] => up[c] /\ Range(outbox[c]) \subseteq Range(outbox'[c])
             /\ up'[c] /\ cstate[c] # "CLOSED" => Range(M[c]) \subseteq Range(outbox'[c])
             /\ Range(outbox'[c]) \subseteq Range(outbox[c]) \union Range(M[c])
  <2>1. outbox[c] \in Seq(Messages) /\ sent[c] \in Seq(Messages)
    BY <1>2, <1>3
  <2>2. Range(outbox[c] \o sent[c]) = Range(outbox[c]) \union Range(sent[c])
    BY <2>1, RangeOfConcat
  <2>3. Range(<<>>) = {}
    BY DEF Range
  <2>4. CASE up'[c]
    <3>1. outbox'[c] = outbox[c] \o sent[c] /\ up[c] /\ HasRoom(c, sent[c])
      BY <1>1, <2>4
    <3>2. Len(outbox[c] \o sent[c]) <= OutboxSize
      BY <3>1 DEF HasRoom
    <3>3. outbox'[c] \in Seq(Messages) /\ Len(outbox'[c]) \in 0 .. OutboxSize
      <4>1. outbox[c] \o sent[c] \in Seq(Messages)
        BY <2>1, ConcatProperties
      <4>2. Len(outbox[c] \o sent[c]) \in Nat
        BY <4>1, LenProperties
      <4> HIDE DEF sent
      <4>3. PICK w : w = outbox[c] \o sent[c]
        OBVIOUS
      <4>4. Len(w) \in Nat /\ Len(w) <= OutboxSize /\ w \in Seq(Messages) /\ outbox'[c] = w
        BY <3>1, <3>2, <4>1, <4>2, <4>3
      <4>5. Len(w) \in 0 .. OutboxSize
        BY <4>4, SizesAssumption
      <4> QED BY <4>4, <4>5
    <3>4. Range(sent[c]) \subseteq Range(M[c])
      BY <1>3, <2>3
    <3>5. Range(outbox'[c]) = Range(outbox[c]) \union Range(sent[c])
      BY <3>1, <2>2
    <3>6. cstate[c] # "CLOSED" => Range(sent[c]) = Range(M[c])
      BY <1>3
    <3> QED BY <3>1, <3>3, <3>4, <3>5, <3>6
  <2>5. CASE ~up'[c]
    <3>1. outbox'[c] = <<>>
      BY <1>1, <2>5
    <3> QED BY <3>1, <2>3, <2>5, SizesAssumption
  <2> QED BY <2>4, <2>5
<1>5. ASSUME NEW c \in Conns, NEW i \in RequestIds
      PROVE  /\ answers'[c][i] \in Nat
             /\ ~Mentions(M[c], i) => answers'[c][i] = answers[c][i]
             /\ Once(M[c]) => answers'[c][i] <= answers[c][i] + 1
  <2> DEFINE n == Cardinality({k \in DOMAIN sent[c] : sent[c][k].id = i})
  <2>1. answers'[c][i] = answers[c][i] + n /\ answers[c][i] \in Nat
    BY <1>1, <1>2
  <2>2. n \in Nat /\ (~Mentions(sent[c], i) => n = 0) /\ (Once(sent[c]) => n <= 1)
    BY <1>3, CountIs
  <2>3. ~Mentions(M[c], i) => ~Mentions(sent[c], i)
    BY <1>3 DEF Mentions
  <2>4. Once(M[c]) => Once(sent[c])
    BY <1>3 DEF Once
  <2> HIDE DEF n
  <2> QED BY <2>1, <2>2, <2>3, <2>4
<1>6. answers' \in [Conns -> [RequestIds -> Nat]]
  <2>1. \A c \in Conns : answers'[c] = [i \in RequestIds |-> answers'[c][i]]
    BY <1>1
  <2>2. \A c \in Conns : answers'[c] \in [RequestIds -> Nat]
    BY <2>1, <1>5
  <2> QED BY <1>1, <2>2
<1>7. outbox' \in [Conns -> Seq(Messages)]
  BY <1>1, <1>4
<1>8. up' \in [Conns -> BOOLEAN]
  BY <1>1, <1>2 DEF HasRoom
<1>9. \A c \in Conns : call'[c] \in {W[c], NoCall}
  BY <1>1
<1>10. call' \in [Conns -> Calls]
  <2>1. NoCall \in Calls
    BY DEF NoCall, Calls
  <2> QED BY <1>1, <2>1
<1> QED BY <1>4, <1>5, <1>6, <1>7, <1>8, <1>9, <1>10 DEF Delivered

-------------------------------------------------------------------------------
(* The messages the server posts.                                          *)

LEMMA NoMessage ==
  /\ <<>> \in Seq(Messages) /\ Range(<<>>) = {} /\ Once(<<>>)
  /\ \A i : ~Mentions(<<>>, i)
BY DEF Range, Once, Mentions

LEMMA OneMessage ==
  ASSUME NEW m \in Messages
  PROVE  /\ <<m>> \in Seq(Messages) /\ Range(<<m>>) = {m} /\ Once(<<m>>)
         /\ \A i : Mentions(<<m>>, i) => i = m.id
BY DEF Range, Once, Mentions

LEMMA TwoMessages ==
  ASSUME NEW m \in Messages, NEW n \in Messages, n.id = 0
  PROVE  /\ <<m, n>> \in Seq(Messages) /\ Range(<<m, n>>) = {m, n} /\ Once(<<m, n>>)
         /\ \A i : Mentions(<<m, n>>, i) => i = m.id \/ i = 0
<1>1. DOMAIN <<m, n>> = {1, 2} /\ <<m, n>>[1] = m /\ <<m, n>>[2] = n
  OBVIOUS
<1>2. <<m, n>> \in Seq(Messages)
  OBVIOUS
<1>3. Range(<<m, n>>) = {m, n}
  BY <1>1 DEF Range
<1>4. Once(<<m, n>>)
  BY <1>1 DEF Once
<1>5. \A i : Mentions(<<m, n>>, i) => i = m.id \/ i = 0
  BY <1>1 DEF Mentions
<1> QED BY <1>2, <1>3, <1>4, <1>5

LEMMA AnswerIs ==
  ASSUME NEW k \in {"welcome", "reply", "done", "refused", "flush"}, NEW i \in Nat, NEW g \in Nat
  PROVE  /\ Answer(k, i, g) \in Messages
         /\ Answer(k, i, g).kind = k /\ Answer(k, i, g).id = i /\ Answer(k, i, g).gen = g
BY DEF Answer, Messages

LEMMA FlushIs == Flush \in Messages /\ Flush.kind = "flush" /\ Flush.id = 0
BY DEF Flush, Answer, Messages

LEMMA NothingIs == Nothing \in [Conns -> Seq(Messages)] /\ \A c \in Conns : Nothing[c] = <<>>
BY DEF Nothing

LEMMA ToIs ==
  ASSUME NEW c \in Conns, NEW ms \in Seq(Messages)
  PROVE  /\ To(c, ms) \in [Conns -> Seq(Messages)]
         /\ To(c, ms)[c] = ms
         /\ \A d \in Conns : d # c => To(c, ms)[d] = <<>>
<1>1. Nothing \in [Conns -> Seq(Messages)] /\ \A d \in Conns : Nothing[d] = <<>>
  BY NothingIs
<1>2. To(c, ms) = [Nothing EXCEPT ![c] = ms]
  BY DEF To
<1> QED BY <1>1, <1>2

\* The links after a post.
LEMMA PostNow ==
  ASSUME Typed, NEW M, M \in [Conns -> Seq(Messages)], Post(M)
  PROVE  Delivered(M, call)
<1>1. call \in [Conns -> Calls]
  BY DEF Typed, ServerTypeOK, Calls
<1>2. PostTo(M, call)
  BY DEF Post
<1> QED BY <1>1, <1>2, PostIs

\* The links after a cut.
LEMMA CutIs ==
  ASSUME Typed, NEW c \in Conns, Cut(c)
  PROVE  Delivered(Nothing, call) /\ ~up'[c]
<1>1. /\ up' = [up EXCEPT ![c] = FALSE] /\ outbox' = [outbox EXCEPT ![c] = <<>>]
      /\ call' = [call EXCEPT ![c] = NoCall] /\ answers' = answers
  BY DEF Cut
<1>2. /\ up \in [Conns -> BOOLEAN] /\ outbox \in [Conns -> Seq(Messages)]
      /\ \A d \in Conns : Len(outbox[d]) \in 0 .. OutboxSize
      /\ call \in [Conns -> Calls] /\ answers \in [Conns -> [RequestIds -> Nat]]
  BY DEF Typed, ServerTypeOK, Calls
<1>3. NoCall \in Calls
  BY DEF NoCall, Calls
<1>4. /\ up' \in [Conns -> BOOLEAN] /\ outbox' \in [Conns -> Seq(Messages)]
      /\ call' \in [Conns -> Calls] /\ answers' \in [Conns -> [RequestIds -> Nat]]
  BY <1>1, <1>2, <1>3
<1>5. \A d \in Conns : Len(outbox'[d]) \in 0 .. OutboxSize
  BY <1>1, <1>2, SizesAssumption
<1>6. ASSUME NEW d \in Conns
      PROVE  /\ up'[d] => up[d] /\ Range(outbox[d]) \subseteq Range(outbox'[d])
             /\ Range(Nothing[d]) \subseteq Range(outbox'[d])
             /\ Range(outbox'[d]) \subseteq Range(outbox[d]) \union Range(Nothing[d])
             /\ call'[d] \in {call[d], NoCall}
  <2>1. Range(Nothing[d]) = {}
    BY NothingIs, NoMessage
  <2>2. CASE d = c
    <3>1. ~up'[d] /\ outbox'[d] = <<>> /\ call'[d] = NoCall
      BY <1>1, <1>2, <2>2
    <3> QED BY <2>1, <3>1, NoMessage
  <2>3. CASE d # c
    <3>1. up'[d] = up[d] /\ outbox'[d] = outbox[d] /\ call'[d] = call[d]
      BY <1>1, <1>2, <2>3
    <3> QED BY <2>1, <3>1
  <2> QED BY <2>2, <2>3
<1>7. \A d \in Conns : \A i \in RequestIds : answers'[d][i] <= answers[d][i] + 1
  BY <1>1, <1>2
<1> QED BY <1>1, <1>2, <1>4, <1>5, <1>6, <1>7 DEF Delivered

-------------------------------------------------------------------------------
(* What a step leaves of the invariant by leaving its variables alone.     *)

LEMMA KeepThread ==
  ASSUME ThreadInHand, UNCHANGED <<at, todo, cstate, slot, bySlot>>
  PROVE  ThreadInHand'
BY DEF ThreadInHand, Event

LEMMA KeepTold ==
  ASSUME ServerTold, UNCHANGED <<drain, server, stop, at>>
  PROVE  ServerTold'
BY DEF ServerTold

LEMMA KeepWay ==
  ASSUME OnTheWay, UNCHANGED <<cstate, slot, opening, todo>>,
         \A e \in Range(events') : e \in Range(events) \/ e.kind # "open"
  PROVE  OnTheWay'
BY DEF OnTheWay

LEMMA KeepLinks ==
  ASSUME LinksEnd, NEW M, NEW W, Delivered(M, W), UNCHANGED cstate
  PROVE  LinksEnd'
BY DEF LinksEnd, Delivered, Closes

LEMMA KeepHolders ==
  ASSUME OneHolderPerSlot, UNCHANGED <<connections, cstate, slot, bySlot>>
  PROVE  OneHolderPerSlot'
BY DEF OneHolderPerSlot

LEMMA KeepMirror ==
  ASSUME ModelMirrors, UNCHANGED <<modelOpen, gen, connections, slot, at, todo>>
  PROVE  ModelMirrors'
BY DEF ModelMirrors, Resetting, Event

LEMMA KeepBusy ==
  ASSUME BusyIsHeld, UNCHANGED <<busy, waiting, pending>>
  PROVE  BusyIsHeld'
BY DEF BusyIsHeld

\* A stopped server stays released: nothing of it changes but what its links lose.
LEMMA KeepReleased ==
  ASSUME StopReleasesAll, NEW M, NEW W, Delivered(M, W),
         UNCHANGED <<stop, modelOpen, connections, opening, pending, waiting, busy>>
  PROVE  StopReleasesAll'
BY DEF StopReleasesAll, Delivered

LEMMA NotStopped ==
  ASSUME ServerTold', at' # "ended"
  PROVE  StopReleasesAll'
BY DEF ServerTold, StopReleasesAll

-------------------------------------------------------------------------------
(* The events, in the list and in the step thread's hands.                 *)

LEMMA EventIs ==
  ASSUME NEW e \in Events
  PROVE  e.conn \in Conns /\ e.kind \in {"open", "leave", "reset"} /\ e.id \in Nat
BY DEF Events

LEMMA EventsAre ==
  ASSUME Typed
  PROVE  /\ \A e \in Range(events) \union Range(todo) :
              e \in Events /\ e.conn \in Conns /\ e.id \in Nat
         /\ todo # <<>> => /\ Event \in Range(todo) /\ Event \in Events
                           /\ Event.conn \in Conns /\ Event.id \in Nat
<1>1. events \in Seq(Events) /\ todo \in Seq(Events)
  BY DEF Typed, ServerTypeOK
<1>2. \A e \in Range(events) \union Range(todo) : e \in Events
  BY <1>1 DEF Range
<1>3. todo # <<>> => 1 \in DOMAIN todo /\ Event = todo[1]
  BY <1>1 DEF Event
<1>4. todo # <<>> => Event \in Range(todo)
  BY <1>3 DEF Range
<1> QED BY <1>2, <1>4, EventIs

LEMMA EventDoneIs ==
  ASSUME Typed, todo # <<>>, EventDone
  PROVE  /\ todo' = Tail(todo) /\ todo' \in Seq(Events) /\ Range(todo') \subseteq Range(todo)
         /\ at' \in {"loop", "events"} /\ (at' = "events" <=> todo' # <<>>)
<1>1. todo \in Seq(Events) /\ Len(todo) > 0 /\ todo' = Tail(todo)
  BY DEF Typed, ServerTypeOK, EventDone
<1>2. /\ Tail(todo) \in Seq(Events) /\ Len(Tail(todo)) = Len(todo) - 1
      /\ \A n \in DOMAIN Tail(todo) : n + 1 \in DOMAIN todo /\ Tail(todo)[n] = todo[n + 1]
  BY <1>1
<1>3. Tail(todo) = <<>> <=> Len(todo) = 1
  BY <1>1, <1>2
<1> QED BY <1>1, <1>2, <1>3 DEF EventDone, Range

-------------------------------------------------------------------------------
(* Links accepted and lost.                                                *)

LEMMA AcceptSlots ==
  ASSUME SlotsInv, NEW c \in Conns, Accept(c)
  PROVE  SlotsInv'
<1> USE DEF SlotsInv, life, conn, wires, holders, policy, thread, client
<1>1. Typed'
  BY DEF Accept, Typed, ServerTypeOK, ConnectionStates
<1>2. /\ cstate[c] = "none" /\ cstate' = [cstate EXCEPT ![c] = "CONNECTING"]
      /\ cstate \in [Conns -> ConnectionStates]
  BY DEF Accept, Typed, ServerTypeOK
<1>3. Event' = Event /\ (todo # <<>> => Event.conn \in Conns)
  BY EventsAre DEF Accept, Event
<1>4. ThreadInHand'
  BY <1>2, <1>3 DEF Accept, ThreadInHand
<1>5. ServerTold'
  BY DEF Accept, ServerTold
<1>6. OnTheWay'
  <2>1. \A e \in Range(events) \union Range(todo) : e.conn \in Conns
    BY EventsAre
  <2> QED BY <1>2, <2>1 DEF Accept, OnTheWay, Range
<1>7. LinksEnd'
  BY <1>2 DEF Accept, LinksEnd, Closes, Typed, ServerTypeOK
<1>8. OneHolderPerSlot'
  BY <1>2 DEF Accept, OneHolderPerSlot
<1>9. ModelMirrors' /\ BusyIsHeld' /\ WaitersAreOpen'
  BY KeepMirror, KeepBusy DEF Accept, WaitersAreOpen
<1>10. StopReleasesAll'
  BY DEF Accept, ServerTold, StopReleasesAll
<1> QED BY <1>1, <1>4, <1>5, <1>6, <1>7, <1>8, <1>9, <1>10

LEMMA QueueIs ==
  ASSUME Typed, NEW c \in Conns, NEW k \in {"open", "leave", "reset"}, NEW i \in Nat,
         Queue(k, c, i)
  PROVE  /\ events' \in Seq(Events)
         /\ Range(events') = Range(events) \union {[kind |-> k, conn |-> c, id |-> i]}
<1> DEFINE e == [kind |-> k, conn |-> c, id |-> i]
<1>1. e \in Events /\ events \in Seq(Events) /\ events' = Append(events, e)
  BY DEF Typed, ServerTypeOK, Events, Queue
<1> HIDE DEF e
<1>2. /\ events' \in Seq(Events) /\ DOMAIN events' = DOMAIN events \union {Len(events) + 1}
      /\ \A n \in DOMAIN events : events'[n] = events[n]
      /\ events'[Len(events) + 1] = e
  BY <1>1
<1> QED BY <1>2 DEF Range, e

LEMMA HelloSlots ==
  ASSUME SlotsInv, NEW c \in Conns, NEW s \in Slots, Hello(c, s)
  PROVE  SlotsInv'
<1> USE DEF SlotsInv, life, conn, wires, holders, policy, thread, client
<1>1. /\ events' \in Seq(Events)
      /\ Range(events') = Range(events) \union {[kind |-> "open", conn |-> c, id |-> 0]}
  BY QueueIs DEF Hello
<1>2. Typed'
  BY <1>1 DEF Hello, Typed, ServerTypeOK, ConnectionStates
<1>3. /\ cstate[c] = "CONNECTING" /\ cstate' = [cstate EXCEPT ![c] = "OPENING"]
      /\ slot' = [slot EXCEPT ![c] = s]
      /\ cstate \in [Conns -> ConnectionStates] /\ slot \in [Conns -> Slots \union {NoSlot}]
  BY DEF Hello, Typed, ServerTypeOK
<1>4. Event' = Event /\ (todo # <<>> => Event.conn \in Conns)
  BY EventsAre DEF Hello, Event
<1>5. ThreadInHand'
  BY <1>3, <1>4 DEF Hello, ThreadInHand
<1>6. ServerTold'
  BY DEF Hello, ServerTold
<1>7. OnTheWay'
  <2>1. \A e \in Range(events) \union Range(todo) : e.conn \in Conns
    BY EventsAre
  <2>2. todo' = todo /\ opening' = opening
    BY DEF Hello
  <2>3. \A d \in Conns : d # c => cstate'[d] = cstate[d] /\ slot'[d] = slot[d]
    BY <1>3
  <2>4. cstate'[c] = "OPENING" /\ slot'[c] = s /\ c \in opening
    BY <1>3 DEF OnTheWay
  <2> QED BY <1>1, <2>1, <2>2, <2>3, <2>4 DEF OnTheWay
<1>8. LinksEnd'
  BY <1>3 DEF Hello, LinksEnd, Closes
<1>9. OneHolderPerSlot'
  BY <1>3 DEF Hello, OneHolderPerSlot
<1>10. ModelMirrors'
  <2>1. c \notin connections
    BY <1>3 DEF OneHolderPerSlot
  <2>2. \A d \in Conns : Resetting(d)' <=> Resetting(d)
    BY <1>4 DEF Resetting, Hello
  <2>3. /\ connections' = connections /\ gen' = gen /\ modelOpen' = modelOpen
        /\ connections \subseteq Conns
    BY DEF Hello, Typed, ServerTypeOK
  <2>4. \A d \in connections : slot'[d] = slot[d]
    BY <1>3, <2>1, <2>3
  <2> QED BY <2>2, <2>3, <2>4 DEF ModelMirrors
<1>11. BusyIsHeld' /\ WaitersAreOpen'
  BY KeepBusy DEF Hello, WaitersAreOpen
<1>12. StopReleasesAll'
  BY DEF Hello, ServerTold, StopReleasesAll
<1> QED BY <1>2, <1>5, <1>6, <1>7, <1>8, <1>9, <1>10, <1>11, <1>12

\* A step of the links alone.
LEMMA LinksSlots ==
  ASSUME SlotsInv, NEW M, NEW W, Delivered(M, W),
         reading' \in [Conns -> BOOLEAN], ready' \in [Conns -> BOOLEAN],
         clientGen' \in [Conns -> Nat], calls' \in [Conns -> 0 .. MaxCalls],
         resetPending' \subseteq Conns, events' \in Seq(Events),
         \A e \in Range(events') : e \in Range(events) \/ e.kind # "open",
         UNCHANGED <<life, cstate, slot, gen, opening, connections, bySlot, generations, policy,
                     pending, thread, modelOpen>>
  PROVE  SlotsInv'
<1> USE DEF SlotsInv, life, policy, thread
<1>1. Typed'
  BY DEF Typed, ServerTypeOK, Delivered, Calls
<1>2. ThreadInHand'
  BY KeepThread
<1>3. ServerTold'
  BY KeepTold
<1>4. OnTheWay'
  BY KeepWay
<1>5. LinksEnd'
  BY KeepLinks
<1>6. OneHolderPerSlot' /\ ModelMirrors' /\ BusyIsHeld'
  BY KeepHolders, KeepMirror, KeepBusy
<1>7. WaitersAreOpen'
  BY DEF WaitersAreOpen
<1>8. StopReleasesAll'
  BY KeepReleased
<1> QED BY <1>1, <1>2, <1>3, <1>4, <1>5, <1>6, <1>7, <1>8

LEMMA CutSlots ==
  ASSUME SlotsInv, NEW c \in Conns, HelloExpires(c) \/ ClientLeaves(c) \/ LinkEnds(c)
  PROVE  SlotsInv'
<1>1. Cut(c) /\ UNCHANGED <<life, conn, holders, events, policy, pending, thread, modelOpen, client>>
  BY DEF HelloExpires, ClientLeaves, LinkEnds
<1>2. Delivered(Nothing, call)
  BY <1>1, CutIs DEF SlotsInv
<1> QED BY <1>1, <1>2, LinksSlots
    DEF SlotsInv, Typed, ServerTypeOK, conn, holders, client

LEMMA UnchangedLinks ==
  ASSUME Typed, UNCHANGED wires
  PROVE  Delivered(Nothing, call)
<1>1. /\ up \in [Conns -> BOOLEAN] /\ outbox \in [Conns -> Seq(Messages)]
      /\ \A d \in Conns : Len(outbox[d]) \in 0 .. OutboxSize
      /\ call \in [Conns -> Calls] /\ answers \in [Conns -> [RequestIds -> Nat]]
  BY DEF Typed, ServerTypeOK, Calls
<1>2. up' = up /\ outbox' = outbox /\ call' = call /\ answers' = answers
  BY DEF wires
<1>3. \A d \in Conns : Range(Nothing[d]) = {}
  BY NothingIs, NoMessage
<1>4. \A d \in Conns : \A i \in RequestIds : answers'[d][i] <= answers[d][i] + 1
  BY <1>1, <1>2
<1> QED BY <1>1, <1>2, <1>3, <1>4 DEF Delivered

LEMMA ReaderSlots ==
  ASSUME SlotsInv, NEW c \in Conns, ReaderEnds(c) \/ ReaderFails(c)
  PROVE  SlotsInv'
<1>1. ReaderLeaves(c)
  BY DEF ReaderEnds, ReaderFails
<1>2. Typed /\ UNCHANGED wires
  BY <1>1 DEF SlotsInv, ReaderLeaves
<1>3. Delivered(Nothing, call)
  BY <1>2, UnchangedLinks
<1>4. /\ events' \in Seq(Events)
      /\ Range(events') = Range(events) \union {[kind |-> "leave", conn |-> c, id |-> 0]}
  BY <1>1, <1>2, QueueIs DEF ReaderLeaves
<1>5. \A e \in Range(events') : e \in Range(events) \/ e.kind # "open"
  BY <1>4
<1> QED BY <1>1, <1>3, <1>4, <1>5, LinksSlots
    DEF SlotsInv, Typed, ServerTypeOK, ReaderLeaves, conn, holders, client

LEMMA TurnedAwayPosts ==
  ASSUME Typed, NEW c \in Conns, HelloTurnedAway(c)
  PROVE  \E m \in Messages : m.kind \in {"refused", "flush"} /\ m.id = 0 /\ Delivered(To(c, <<m>>), call)
<1>1. Answer("refused", 0, 0) \in Messages /\ Answer("refused", 0, 0).kind = "refused"
      /\ Answer("refused", 0, 0).id = 0
  BY AnswerIs
<1>2. PICK m \in Messages : m.kind \in {"refused", "flush"} /\ m.id = 0 /\ Post(To(c, <<m>>))
  BY <1>1, FlushIs DEF HelloTurnedAway
<1>3. To(c, <<m>>) \in [Conns -> Seq(Messages)]
  BY OneMessage, ToIs
<1> QED BY <1>2, <1>3, PostNow

LEMMA TurnedAwaySlots ==
  ASSUME SlotsInv, NEW c \in Conns, HelloTurnedAway(c)
  PROVE  SlotsInv'
<1>1. Typed
  BY DEF SlotsInv
<1>2. PICK m \in Messages : Delivered(To(c, <<m>>), call)
  BY <1>1, TurnedAwayPosts
<1>3. /\ events' \in Seq(Events)
      /\ Range(events') = Range(events) \union {[kind |-> "leave", conn |-> c, id |-> 0]}
  BY <1>1, QueueIs DEF HelloTurnedAway
<1>4. \A e \in Range(events') : e \in Range(events) \/ e.kind # "open"
  BY <1>3
<1> QED BY <1>2, <1>3, <1>4, LinksSlots
    DEF SlotsInv, Typed, ServerTypeOK, HelloTurnedAway, conn, holders, client

\* A message read: the outbox keeps the others, and none that ends the link was read.
LEMMA ReadIs ==
  ASSUME Typed, NEW c \in Conns, ClientReads(c)
  PROVE  /\ outbox' \in [Conns -> Seq(Messages)]
         /\ \A d \in Conns : Len(outbox'[d]) \in 0 .. OutboxSize
         /\ \A d \in Conns : Range(outbox'[d]) \subseteq Range(outbox[d])
         /\ \A d \in Conns : Closes(d) => Closes(d)'
         /\ Head(outbox[c]) \in Range(outbox[c]) /\ Head(outbox[c]) \in Messages
         /\ call' \in [Conns -> Calls] /\ \A d \in Conns : call'[d] \in {call[d], NoCall}
<1> DEFINE q == outbox[c]
<1>1. /\ outbox \in [Conns -> Seq(Messages)] /\ q # <<>> /\ outbox' = [outbox EXCEPT ![c] = Tail(q)]
      /\ \A d \in Conns : Len(outbox[d]) \in 0 .. OutboxSize
      /\ q \in Seq(Messages) /\ Head(q).kind \notin {"flush", "refused"}
  BY DEF ClientReads, Typed, ServerTypeOK
<1>2. outbox'[c] = Tail(q) /\ \A d \in Conns : d # c => outbox'[d] = outbox[d]
  BY <1>1
<1> HIDE DEF q
<1>3. /\ Tail(q) \in Seq(Messages) /\ Len(Tail(q)) = Len(q) - 1 /\ Len(q) > 0
      /\ \A n \in DOMAIN Tail(q) : n + 1 \in DOMAIN q /\ Tail(q)[n] = q[n + 1]
      /\ \A n \in DOMAIN q : n = 1 \/ (n - 1 \in DOMAIN Tail(q) /\ Tail(q)[n - 1] = q[n])
      /\ Head(q) = q[1] /\ 1 \in DOMAIN q /\ q[1] \in Messages
  BY <1>1
<1>4. Range(Tail(q)) \subseteq Range(q) /\ Head(q) \in Range(q)
  BY <1>3 DEF Range
<1>5. \A m \in Range(q) : m = Head(q) \/ m \in Range(Tail(q))
  BY <1>3 DEF Range
<1>6. \A d \in Conns : Len(outbox'[d]) \in 0 .. OutboxSize
  <2>1. Len(q) \in 0 .. OutboxSize
    BY <1>1 DEF q
  <2>2. Len(Tail(q)) \in 0 .. OutboxSize
    BY <2>1, <1>3, SizesAssumption
  <2> QED BY <2>2, <1>1, <1>2
<1>7. outbox' \in [Conns -> Seq(Messages)]
  BY <1>1, <1>3
<1>8. \A d \in Conns : Closes(d) => Closes(d)'
  BY <1>1, <1>2, <1>5 DEF Closes, q
<1>9. \A d \in Conns : Range(outbox'[d]) \subseteq Range(outbox[d])
  BY <1>2, <1>4 DEF q
<1>10. call' \in [Conns -> Calls] /\ \A d \in Conns : call'[d] \in {call[d], NoCall}
  <2>1. call \in [Conns -> Calls] /\ NoCall \in Calls
    BY DEF Typed, ServerTypeOK, Calls, NoCall
  <2>2. call' = [call EXCEPT ![c] = NoCall] \/ call' = call
    BY DEF ClientReads
  <2> QED BY <2>1, <2>2
<1> QED BY <1>3, <1>4, <1>6, <1>7, <1>8, <1>9, <1>10 DEF q

LEMMA ReadSlots ==
  ASSUME SlotsInv, NEW c \in Conns, ClientReads(c)
  PROVE  SlotsInv'
<1> USE DEF SlotsInv, life, conn, holders, policy, thread
<1>1. /\ outbox' \in [Conns -> Seq(Messages)]
      /\ \A d \in Conns : Len(outbox'[d]) \in 0 .. OutboxSize
      /\ \A d \in Conns : Closes(d) => Closes(d)'
      /\ Head(outbox[c]) \in Messages
      /\ call' \in [Conns -> Calls]
  BY ReadIs
<1>2. Head(outbox[c]).gen \in Nat
  BY <1>1 DEF Messages
<1>3. Typed'
  <2>1. ready' \in [Conns -> BOOLEAN] /\ clientGen' \in [Conns -> Nat]
    BY <1>2 DEF ClientReads, Typed, ServerTypeOK
  <2> QED BY <1>1, <2>1 DEF ClientReads, Typed, ServerTypeOK, Calls
<1>4. ThreadInHand' /\ ServerTold' /\ OneHolderPerSlot' /\ ModelMirrors' /\ BusyIsHeld'
  BY KeepThread, KeepTold, KeepHolders, KeepMirror, KeepBusy DEF ClientReads
<1>5. OnTheWay'
  BY KeepWay DEF ClientReads
<1>6. LinksEnd'
  BY <1>1 DEF ClientReads, LinksEnd
<1>7. WaitersAreOpen'
  BY DEF ClientReads, WaitersAreOpen
<1>8. StopReleasesAll'
  BY <1>1 DEF ClientReads, StopReleasesAll, Closes
<1> QED BY <1>3, <1>4, <1>5, <1>6, <1>7, <1>8

-------------------------------------------------------------------------------
(* Requests: made, withdrawn, taken, finished.                             *)

DistinctConns(s) == \A i, j \in DOMAIN s : s[i].conn = s[j].conn => i = j

LEMMA DistinctInRange ==
  ASSUME NEW s, DistinctConns(s)
  PROVE  \A w, x \in Range(s) : w.conn = x.conn => w = x
BY DEF DistinctConns, Range

LEMMA WithoutDistinct ==
  ASSUME NEW s \in Seq(Requests), NEW R
  PROVE  /\ Without(s, R) \in Seq(Requests)
         /\ Range(Without(s, R)) = Range(s) \ R
         /\ DistinctConns(s) => DistinctConns(Without(s, R))
<1>1. /\ Without(s, R) \in Seq(Requests)
      /\ Range(Without(s, R)) = Range(s) \ R
  BY WithoutIs
<1>2. PICK f \in [DOMAIN Without(s, R) -> DOMAIN s] :
              /\ \A k \in DOMAIN Without(s, R) : Without(s, R)[k] = s[f[k]]
              /\ \A k, l \in DOMAIN Without(s, R) : f[k] = f[l] => k = l
  BY WithoutIs
<1>3. DistinctConns(s) => DistinctConns(Without(s, R))
  BY <1>2 DEF DistinctConns
<1> QED BY <1>1, <1>3

LEMMA PendingIs ==
  ASSUME NEW p \in Pendings
  PROVE  /\ p.conn \in Conns /\ p.id \in RequestIds /\ p.gen \in Nat
         /\ [p EXCEPT !.detached = TRUE] \in Pendings
         /\ [p EXCEPT !.answered = TRUE] \in Pendings
         /\ [p EXCEPT !.future = TRUE] \in Pendings
         /\ \A q \in {[p EXCEPT !.detached = TRUE], [p EXCEPT !.answered = TRUE],
                      [p EXCEPT !.future = TRUE]} : q.conn = p.conn /\ q.id = p.id
         /\ [p EXCEPT !.detached = TRUE].detached = TRUE
         /\ [p EXCEPT !.answered = TRUE].detached = p.detached
         /\ [p EXCEPT !.future = TRUE].detached = p.detached
         /\ [p EXCEPT !.answered = TRUE].answered = TRUE
         /\ [p EXCEPT !.future = TRUE].answered = p.answered
BY DEF Pendings

LEMMA RequestIs ==
  ASSUME NEW w \in Requests
  PROVE  w.conn \in Conns /\ w.id \in RequestIds /\ w = [conn |-> w.conn, id |-> w.id]
BY DEF Requests

\* The failures of requests, posted.
LEMMA FailuresPosted ==
  ASSUME Typed, NEW R, \A r \in R : r.id \in RequestIds,
         Post([c \in Conns |-> Failures(c, R)])
  PROVE  Delivered([c \in Conns |-> Failures(c, R)], call)
<1>1. \A c \in Conns : Failures(c, R) \in Seq(Messages)
  BY FailuresAre
<1>2. [c \in Conns |-> Failures(c, R)] \in [Conns -> Seq(Messages)]
  BY <1>1
<1> QED BY <1>2, PostNow

LEMMA OneFailurePosted ==
  ASSUME Typed, NEW c \in Conns, NEW i \in Nat, NEW W, W \in [Conns -> Calls],
         PostTo(To(c, <<Failed(i)>>), W)
  PROVE  Delivered(To(c, <<Failed(i)>>), W)
<1>1. To(c, <<Failed(i)>>) \in [Conns -> Seq(Messages)]
  BY FailedIs, OneMessage, ToIs
<1> QED BY <1>1, PostIs

\* A step that changes requests and links, between calls into the model or not.
LEMMA RequestsSlots ==
  ASSUME SlotsInv, NEW M, NEW W, Delivered(M, W), BusyIsHeld',
         waiting' \in Seq(Requests), busy' \subseteq Conns, pending' \subseteq Pendings,
         \A w \in Range(waiting') : w.conn \in connections,
         stop = "done" => UNCHANGED <<waiting, busy, pending>>,
         at' = at \/ (at \in {"loop", "running"} /\ at' \in {"loop", "running"}),
         calls' \in [Conns -> 0 .. MaxCalls],
         UNCHANGED <<life, conn, holders, events, todo, refusing, modelOpen, ready, clientGen>>
  PROVE  SlotsInv'
<1> USE DEF SlotsInv, life, conn, holders
<1>1. Typed'
  BY DEF Typed, ServerTypeOK, Delivered, Calls
<1>2. ThreadInHand'
  BY DEF ThreadInHand, Event
<1>3. ServerTold'
  BY DEF ServerTold
<1>4. OnTheWay'
  BY KeepWay
<1>5. LinksEnd'
  BY KeepLinks
<1>6. OneHolderPerSlot'
  BY KeepHolders
<1>7. ModelMirrors'
  <2>1. \A d \in Conns : Resetting(d)' <=> Resetting(d)
    BY DEF Resetting, Event
  <2> QED BY <2>1 DEF ModelMirrors, Typed, ServerTypeOK
<1>8. WaitersAreOpen'
  BY DEF WaitersAreOpen
<1>9. StopReleasesAll'
  <2>1. CASE stop = "done"
    BY <2>1, KeepReleased
  <2>2. CASE stop # "done"
    BY <2>2 DEF StopReleasesAll
  <2> QED BY <2>1, <2>2
<1> QED BY <1>1, <1>2, <1>3, <1>4, <1>5, <1>6, <1>7, <1>8, <1>9

\* What BusyIsHeld says, and what is enough for it.
LEMMA BusySays ==
  ASSUME Typed, BusyIsHeld
  PROVE  /\ \A w \in Range(waiting) : w.conn \in busy /\ w \in Requests
         /\ \A p \in pending : ~p.detached => p.conn \in busy
         /\ \A c \in busy : \/ \E w \in Range(waiting) : w.conn = c
                            \/ \E p \in pending : ~p.detached /\ p.conn = c
         /\ DistinctConns(waiting)
         /\ \A w, x \in Range(waiting) : w.conn = x.conn => w = x
         /\ \A p, q \in pending : ~p.detached /\ ~q.detached /\ p.conn = q.conn => p = q
         /\ \A p \in pending, w \in Range(waiting) : ~p.detached => p.conn # w.conn
<1>1. \A w \in Range(waiting) : w \in Requests
  BY DEF Typed, ServerTypeOK, Range
<1>2. DistinctConns(waiting)
  BY DEF BusyIsHeld, DistinctConns
<1>3. \A w, x \in Range(waiting) : w.conn = x.conn => w = x
  BY <1>2, DistinctInRange
<1> QED BY <1>1, <1>2, <1>3 DEF BusyIsHeld

LEMMA BusyNext ==
  ASSUME \A w \in Range(waiting') : w.conn \in busy',
         \A p \in pending' : ~p.detached => p.conn \in busy',
         \A c \in busy' : \/ \E w \in Range(waiting') : w.conn = c
                          \/ \E p \in pending' : ~p.detached /\ p.conn = c,
         DistinctConns(waiting'),
         \A p, q \in pending' : ~p.detached /\ ~q.detached /\ p.conn = q.conn => p = q,
         \A p \in pending', w \in Range(waiting') : ~p.detached => p.conn # w.conn
  PROVE  BusyIsHeld'
BY DEF BusyIsHeld, DistinctConns

LEMMA AppendIs ==
  ASSUME NEW T, NEW s \in Seq(T), NEW e \in T
  PROVE  /\ Append(s, e) \in Seq(T) /\ Range(Append(s, e)) = Range(s) \union {e}
         /\ DOMAIN Append(s, e) = DOMAIN s \union {Len(s) + 1} /\ Len(s) + 1 \notin DOMAIN s
         /\ \A n \in DOMAIN s : Append(s, e)[n] = s[n]
         /\ Append(s, e)[Len(s) + 1] = e
<1>1. /\ Append(s, e) \in Seq(T)
      /\ DOMAIN Append(s, e) = DOMAIN s \union {Len(s) + 1} /\ Len(s) + 1 \notin DOMAIN s
      /\ \A n \in DOMAIN s : Append(s, e)[n] = s[n]
      /\ Append(s, e)[Len(s) + 1] = e
  OBVIOUS
<1> QED BY <1>1 DEF Range

Asks(c, k) == [call EXCEPT ![c] = [kind |-> k, id |-> calls[c] + 1]]

LEMMA AsksIs ==
  ASSUME Typed, NEW c \in Conns, NEW k \in {"step", "reset"}, Idle(c)
  PROVE  /\ Asks(c, k) \in [Conns -> Calls]
         /\ calls[c] + 1 \in RequestIds /\ calls[c] + 1 \in Nat /\ calls[c] \in Nat
         /\ [calls EXCEPT ![c] = calls[c] + 1] \in [Conns -> 0 .. MaxCalls]
         /\ \A d \in Conns : [calls EXCEPT ![c] = calls[c] + 1][d]
                               = IF d = c THEN calls[c] + 1 ELSE calls[d]
<1>1. /\ calls \in [Conns -> 0 .. MaxCalls] /\ calls[c] < MaxCalls /\ calls[c] \in 0 .. MaxCalls
      /\ call \in [Conns -> Calls]
  BY DEF Typed, ServerTypeOK, Idle, Calls
<1>2. calls[c] + 1 \in 1 .. MaxCalls /\ calls[c] \in Nat
  BY <1>1, SizesAssumption
<1>3. [kind |-> k, id |-> calls[c] + 1] \in Calls
  BY <1>2 DEF Calls
<1> QED BY <1>1, <1>2, <1>3 DEF Asks, RequestIds

\* What step() posts: nothing, or the refusal of the request.
LEMMA StepPosts ==
  ASSUME Typed, NEW c \in Conns, ClientStep(c)
  PROVE  \/ /\ Delivered(Nothing, Asks(c, "step"))
            /\ server = "serving" /\ cstate[c] = "OPEN" /\ c \notin busy
            /\ waiting' = Append(waiting, [conn |-> c, id |-> calls[c] + 1])
            /\ busy' = busy \union {c}
         \/ /\ Delivered(To(c, <<Failed(calls[c] + 1)>>), Asks(c, "step"))
            /\ UNCHANGED <<waiting, busy>>
<1>1. Asks(c, "step") \in [Conns -> Calls] /\ calls[c] + 1 \in Nat
  BY AsksIs DEF ClientStep
<1>2. \/ /\ PostTo(Nothing, Asks(c, "step"))
         /\ server = "serving" /\ cstate[c] = "OPEN" /\ c \notin busy
         /\ waiting' = Append(waiting, [conn |-> c, id |-> calls[c] + 1])
         /\ busy' = busy \union {c}
      \/ /\ PostTo(To(c, <<Failed(calls[c] + 1)>>), Asks(c, "step"))
         /\ UNCHANGED <<waiting, busy>>
  BY DEF ClientStep, Asks, Add, policy
<1>3. ASSUME PostTo(Nothing, Asks(c, "step")) PROVE Delivered(Nothing, Asks(c, "step"))
  BY <1>1, <1>3, NothingIs, PostIs
<1>4. ASSUME PostTo(To(c, <<Failed(calls[c] + 1)>>), Asks(c, "step"))
      PROVE  Delivered(To(c, <<Failed(calls[c] + 1)>>), Asks(c, "step"))
  BY <1>1, <1>4, OneFailurePosted
<1> QED BY <1>2, <1>3, <1>4

LEMMA StepSlots ==
  ASSUME SlotsInv, NEW c \in Conns, ClientStep(c)
  PROVE  SlotsInv'
<1>1. Typed /\ BusyIsHeld /\ waiting \in Seq(Requests) /\ busy \subseteq Conns
  BY DEF SlotsInv, Typed, ServerTypeOK
<1>2. /\ calls' \in [Conns -> 0 .. MaxCalls] /\ calls[c] + 1 \in RequestIds
      /\ UNCHANGED <<life, conn, holders, events, pending, thread, modelOpen, ready, clientGen>>
  BY <1>1, AsksIs DEF ClientStep
<1> DEFINE w == [conn |-> c, id |-> calls[c] + 1]
<1>3. w \in Requests
  BY <1>2 DEF Requests
<1>4. pending' = pending /\ pending \subseteq Pendings
  BY <1>1, <1>2 DEF Typed, ServerTypeOK
<1>5. CASE /\ Delivered(Nothing, Asks(c, "step")) /\ server = "serving" /\ cstate[c] = "OPEN"
           /\ c \notin busy /\ waiting' = Append(waiting, w) /\ busy' = busy \union {c}
  <2>1. w.conn = c
    OBVIOUS
  <2> HIDE DEF w
  <2>2. /\ waiting' \in Seq(Requests) /\ Range(waiting') = Range(waiting) \union {w}
        /\ DOMAIN waiting' = DOMAIN waiting \union {Len(waiting) + 1}
        /\ \A n \in DOMAIN waiting : waiting'[n] = waiting[n]
        /\ waiting'[Len(waiting) + 1] = w
    BY <1>1, <1>3, <1>5, AppendIs
  <2>3. /\ \A x \in Range(waiting) : x.conn \in busy
        /\ \A p \in pending : ~p.detached => p.conn \in busy
        /\ \A d \in busy : \/ \E x \in Range(waiting) : x.conn = d
                           \/ \E p \in pending : ~p.detached /\ p.conn = d
        /\ DistinctConns(waiting)
        /\ \A p, q \in pending : ~p.detached /\ ~q.detached /\ p.conn = q.conn => p = q
        /\ \A p \in pending, x \in Range(waiting) : ~p.detached => p.conn # x.conn
    BY <1>1, BusySays
  <2>4. DistinctConns(waiting')
    <3>1. \A n \in DOMAIN waiting : waiting[n].conn # c
      BY <2>3, <1>5 DEF Range
    <3> QED BY <2>1, <2>2, <2>3, <3>1 DEF DistinctConns
  <2>5. BusyIsHeld'
    <3>1. \A x \in Range(waiting') : x.conn \in busy'
      BY <1>5, <2>1, <2>2, <2>3
    <3>2. \A p \in pending' : ~p.detached => p.conn \in busy'
      BY <1>4, <1>5, <2>3
    <3>3. \A d \in busy' : \/ \E x \in Range(waiting') : x.conn = d
                           \/ \E p \in pending' : ~p.detached /\ p.conn = d
      BY <1>4, <1>5, <2>1, <2>2, <2>3
    <3>4. \A p \in pending', x \in Range(waiting') : ~p.detached => p.conn # x.conn
      BY <1>4, <1>5, <2>1, <2>2, <2>3
    <3>5. \A p, q \in pending' : ~p.detached /\ ~q.detached /\ p.conn = q.conn => p = q
      BY <1>4, <2>3
    <3> QED BY <3>1, <3>2, <3>3, <3>4, <3>5, <2>4, BusyNext
  <2>6. \A x \in Range(waiting') : x.conn \in connections
    <3>1. c \in connections
      BY <1>5 DEF SlotsInv, OneHolderPerSlot
    <3> QED BY <2>1, <2>2, <3>1 DEF SlotsInv, WaitersAreOpen
  <2>7. stop # "done" /\ busy' \subseteq Conns
    BY <1>1, <1>5 DEF SlotsInv, ServerTold
  <2> QED BY <1>2, <1>4, <1>5, <2>2, <2>5, <2>6, <2>7, RequestsSlots DEF thread
<1>6. CASE /\ Delivered(To(c, <<Failed(calls[c] + 1)>>), Asks(c, "step"))
           /\ UNCHANGED <<waiting, busy>>
  <2>1. BusyIsHeld'
    BY <1>1, <1>4, <1>6, KeepBusy
  <2>2. \A x \in Range(waiting') : x.conn \in connections
    BY <1>6 DEF SlotsInv, WaitersAreOpen
  <2> QED BY <1>1, <1>2, <1>4, <1>6, <2>1, <2>2, RequestsSlots DEF thread
<1> QED BY <1>1, <1>5, <1>6, StepPosts

LEMMA ResetPosts ==
  ASSUME Typed, NEW c \in Conns, ClientReset(c)
  PROVE  \/ /\ Delivered(Nothing, Asks(c, "reset")) /\ server = "serving"
            /\ Queue("reset", c, calls[c] + 1)
            /\ resetPending' = resetPending \union {c}
         \/ /\ Delivered(To(c, <<Failed(calls[c] + 1)>>), Asks(c, "reset"))
            /\ UNCHANGED <<resetPending, events>>
<1>1. Asks(c, "reset") \in [Conns -> Calls] /\ calls[c] + 1 \in Nat
  BY AsksIs DEF ClientReset
<1>2. \/ /\ PostTo(Nothing, Asks(c, "reset")) /\ server = "serving"
         /\ Queue("reset", c, calls[c] + 1)
         /\ resetPending' = resetPending \union {c}
      \/ /\ PostTo(To(c, <<Failed(calls[c] + 1)>>), Asks(c, "reset"))
         /\ UNCHANGED <<resetPending, events>>
  BY DEF ClientReset, Asks
<1>3. ASSUME PostTo(Nothing, Asks(c, "reset")) PROVE Delivered(Nothing, Asks(c, "reset"))
  BY <1>1, <1>3, NothingIs, PostIs
<1>4. ASSUME PostTo(To(c, <<Failed(calls[c] + 1)>>), Asks(c, "reset"))
      PROVE  Delivered(To(c, <<Failed(calls[c] + 1)>>), Asks(c, "reset"))
  BY <1>1, <1>4, OneFailurePosted
<1> QED BY <1>2, <1>3, <1>4

LEMMA ResetSlots ==
  ASSUME SlotsInv, NEW c \in Conns, ClientReset(c)
  PROVE  SlotsInv'
<1>1. Typed /\ events \in Seq(Events) /\ ready \in [Conns -> BOOLEAN] /\ resetPending \subseteq Conns
      /\ clientGen \in [Conns -> Nat] /\ reading \in [Conns -> BOOLEAN]
  BY DEF SlotsInv, Typed, ServerTypeOK
<1>2. /\ calls' \in [Conns -> 0 .. MaxCalls] /\ calls[c] + 1 \in Nat
      /\ ready' = [ready EXCEPT ![c] = FALSE]
      /\ UNCHANGED <<life, conn, opening, connections, bySlot, generations, policy, pending,
                     thread, modelOpen, clientGen>>
  BY <1>1, AsksIs DEF ClientReset
<1>3. ready' \in [Conns -> BOOLEAN]
  BY <1>1, <1>2
<1>4. PICK M, W : Delivered(M, W)
  BY <1>1, ResetPosts
<1>5. /\ resetPending' \subseteq Conns /\ events' \in Seq(Events)
      /\ \A e \in Range(events') : e \in Range(events) \/ e.kind # "open"
  <2>1. CASE Queue("reset", c, calls[c] + 1) /\ resetPending' = resetPending \union {c}
    <3>1. /\ events' \in Seq(Events)
          /\ Range(events') = Range(events)
                \union {[kind |-> "reset", conn |-> c, id |-> calls[c] + 1]}
      BY <1>1, <1>2, <2>1, QueueIs
    <3> QED BY <1>1, <2>1, <3>1
  <2>2. CASE UNCHANGED <<resetPending, events>>
    BY <1>1, <2>2
  <2> QED BY <1>1, <2>1, <2>2, ResetPosts
<1> QED BY <1>1, <1>2, <1>3, <1>4, <1>5, LinksSlots DEF conn

\* The requests K keep running, changed by f or not, and the others are done.
LEMMA HeldMapped ==
  ASSUME Typed, BusyIsHeld, waiting' = waiting, NEW K, K \subseteq pending, NEW f,
         \A p \in K : f[p] \in Pendings /\ f[p].conn = p.conn /\ f[p].detached = p.detached,
         \A q \in pending' : \E p \in K : q = f[p],
         \A p \in K : f[p] \in pending',
         \A d : d \in busy' <=> d \in busy /\ ~ \E p \in pending \ K : ~p.detached /\ p.conn = d
  PROVE  BusyIsHeld' /\ pending' \subseteq Pendings /\ busy' \subseteq Conns
<1>1. /\ \A w \in Range(waiting) : w.conn \in busy /\ w \in Requests
      /\ \A p \in pending : ~p.detached => p.conn \in busy
      /\ \A c \in busy : \/ \E w \in Range(waiting) : w.conn = c
                         \/ \E p \in pending : ~p.detached /\ p.conn = c
      /\ DistinctConns(waiting)
      /\ \A p, q \in pending : ~p.detached /\ ~q.detached /\ p.conn = q.conn => p = q
      /\ \A p \in pending, w \in Range(waiting) : ~p.detached => p.conn # w.conn
  BY BusySays
<1>2. \A q \in pending' : \E p \in K : /\ q = f[p] /\ p \in pending /\ q.conn = p.conn
                                       /\ q.detached = p.detached
  OBVIOUS
<1>3. \A p \in K : f[p] \in pending' /\ f[p].conn = p.conn /\ f[p].detached = p.detached
  OBVIOUS
<1>4. \A w \in Range(waiting') : w.conn \in busy'
  BY <1>1
<1>5. \A q \in pending' : ~q.detached => q.conn \in busy'
  <2>1. SUFFICES ASSUME NEW q \in pending', ~q.detached PROVE q.conn \in busy'
    OBVIOUS
  <2>2. PICK p \in K : p \in pending /\ q.conn = p.conn /\ ~p.detached
    BY <1>2, <2>1
  <2>3. \A x \in pending \ K : ~x.detached => x.conn # p.conn
    BY <1>1, <2>2
  <2> QED BY <1>1, <2>2, <2>3
<1>6. \A c \in busy' : \/ \E w \in Range(waiting') : w.conn = c
                       \/ \E q \in pending' : ~q.detached /\ q.conn = c
  <2>1. SUFFICES ASSUME NEW c \in busy', ~ \E w \in Range(waiting') : w.conn = c
                 PROVE  \E q \in pending' : ~q.detached /\ q.conn = c
    OBVIOUS
  <2>2. PICK p \in pending : ~p.detached /\ p.conn = c
    BY <1>1, <2>1
  <2>3. p \in K
    BY <2>2
  <2> QED BY <2>2, <2>3, <1>3
<1>7. \A q, r \in pending' : ~q.detached /\ ~r.detached /\ q.conn = r.conn => q = r
  <2>1. SUFFICES ASSUME NEW q \in pending', NEW r \in pending', ~q.detached, ~r.detached,
                        q.conn = r.conn
                 PROVE  q = r
    OBVIOUS
  <2>2. PICK p \in K : q = f[p] /\ p \in pending /\ q.conn = p.conn /\ ~p.detached
    BY <1>2, <2>1
  <2>3. PICK o \in K : r = f[o] /\ o \in pending /\ r.conn = o.conn /\ ~o.detached
    BY <1>2, <2>1
  <2>4. p = o
    BY <1>1, <2>1, <2>2, <2>3
  <2> QED BY <2>2, <2>3, <2>4
<1>8. \A q \in pending', w \in Range(waiting') : ~q.detached => q.conn # w.conn
  BY <1>1, <1>2
<1>9. BusyIsHeld'
  BY <1>1, <1>4, <1>5, <1>6, <1>7, <1>8, BusyNext
<1>10. pending' \subseteq Pendings /\ busy' \subseteq Conns
  <2>1. busy \subseteq Conns
    BY DEF Typed, ServerTypeOK
  <2> QED BY <2>1, <1>2
<1> QED BY <1>9, <1>10

\* A request leaves the queue.
LEMMA OneWithdrawn ==
  ASSUME Typed, BusyIsHeld, NEW w \in Range(waiting), waiting' = Without(waiting, {w}),
         busy' = busy \ {w.conn}, pending' = pending
  PROVE  BusyIsHeld' /\ waiting' \in Seq(Requests) /\ busy' \subseteq Conns
         /\ Range(waiting') \subseteq Range(waiting)
<1>1. /\ \A x \in Range(waiting) : x.conn \in busy /\ x \in Requests
      /\ \A p \in pending : ~p.detached => p.conn \in busy
      /\ \A c \in busy : \/ \E x \in Range(waiting) : x.conn = c
                         \/ \E p \in pending : ~p.detached /\ p.conn = c
      /\ DistinctConns(waiting)
      /\ \A v, x \in Range(waiting) : v.conn = x.conn => v = x
      /\ \A p, q \in pending : ~p.detached /\ ~q.detached /\ p.conn = q.conn => p = q
      /\ \A p \in pending, x \in Range(waiting) : ~p.detached => p.conn # x.conn
  BY BusySays
<1>2. waiting \in Seq(Requests) /\ busy \subseteq Conns
  BY DEF Typed, ServerTypeOK
<1>3. /\ waiting' \in Seq(Requests) /\ DistinctConns(waiting')
      /\ Range(waiting') = Range(waiting) \ {w}
  BY <1>1, <1>2, WithoutDistinct
<1>4. \A x \in Range(waiting') : x.conn \in busy'
  BY <1>1, <1>3
<1>5. \A q \in pending' : ~q.detached => q.conn \in busy'
  BY <1>1
<1>6. \A c \in busy' : \/ \E x \in Range(waiting') : x.conn = c
                       \/ \E q \in pending' : ~q.detached /\ q.conn = c
  BY <1>1, <1>3
<1>7. \A q \in pending', x \in Range(waiting') : ~q.detached => q.conn # x.conn
  BY <1>1, <1>3
<1>8. BusyIsHeld'
  BY <1>1, <1>3, <1>4, <1>5, <1>6, <1>7, BusyNext
<1> QED BY <1>2, <1>3, <1>8

\* What giving up does to the requests: one leaves the queue, or one that runs
\* counts as answered, or nothing.
LEMMA GivesUpIs ==
  ASSUME Typed, NEW c \in Conns, ClientGivesUp(c)
  PROVE  \/ \E w \in Range(waiting) : /\ waiting' = Without(waiting, {w})
                                      /\ busy' = busy \ {w.conn} /\ pending' = pending
         \/ /\ UNCHANGED <<waiting, busy>>
            /\ \E f : /\ pending' = {f[p] : p \in pending}
                      /\ \A p \in pending : f[p] = p \/ f[p] = [p EXCEPT !.answered = TRUE]
<1> DEFINE i == call[c].id
           request == [conn |-> c, id |-> i]
<1>1. CASE call[c].kind = "step" /\ reading[c]
  <2>1. CancelRequest(c, i)
    BY <1>1 DEF ClientGivesUp
  <2>2. CASE request \in Range(waiting)
    <3>1. waiting' = Without(waiting, {request}) /\ busy' = busy \ {c} /\ pending' = pending
      BY <2>1, <2>2 DEF CancelRequest
    <3>2. request.conn = c
      OBVIOUS
    <3> HIDE DEF request
    <3> QED BY <2>2, <3>1, <3>2
  <2>3. CASE request \notin Range(waiting)
    <3> DEFINE f == [p \in pending |-> IF p.conn = c /\ p.id = i /\ p.future /\ Awaited(p)
                                       THEN [p EXCEPT !.answered = TRUE] ELSE p]
    <3>1. pending' = {f[p] : p \in pending} /\ UNCHANGED <<waiting, busy>>
      BY <2>1, <2>3 DEF CancelRequest, policy
    <3>2. \A p \in pending : f[p] = p \/ f[p] = [p EXCEPT !.answered = TRUE]
      OBVIOUS
    <3> HIDE DEF f
    <3> QED BY <3>1, <3>2
  <2> QED BY <2>2, <2>3
<1>2. CASE ~(call[c].kind = "step" /\ reading[c])
  <2> DEFINE f == [p \in pending |-> p]
  <2>1. UNCHANGED <<waiting, busy, pending>>
    BY <1>2 DEF ClientGivesUp, policy
  <2>3. \A p \in pending : f[p] = p
    OBVIOUS
  <2>2. pending = {f[p] : p \in pending}
    BY <2>3
  <2> HIDE DEF f
  <2> QED BY <2>1, <2>2, <2>3
<1> QED BY <1>1, <1>2

\* Only one client's wait ends.
LEMMA GivesUpLinks ==
  ASSUME Typed, NEW c \in Conns, ClientGivesUp(c)
  PROVE  Delivered(Nothing, [call EXCEPT ![c] = NoCall])
<1>1. /\ up \in [Conns -> BOOLEAN] /\ outbox \in [Conns -> Seq(Messages)]
      /\ \A d \in Conns : Len(outbox[d]) \in 0 .. OutboxSize
      /\ call \in [Conns -> Calls] /\ answers \in [Conns -> [RequestIds -> Nat]]
  BY DEF Typed, ServerTypeOK, Calls
<1>2. up' = up /\ outbox' = outbox /\ call' = [call EXCEPT ![c] = NoCall] /\ answers' = answers
  BY DEF ClientGivesUp
<1>3. \A d \in Conns : Range(Nothing[d]) = {}
  BY NothingIs, NoMessage
<1>4. \A d \in Conns : \A i \in RequestIds : answers'[d][i] <= answers[d][i] + 1
  BY <1>1, <1>2
<1>5. call' \in [Conns -> Calls]
  BY <1>1, <1>2 DEF NoCall, Calls
<1> QED BY <1>1, <1>2, <1>3, <1>4, <1>5 DEF Delivered

LEMMA GivesUpSlots ==
  ASSUME SlotsInv, NEW c \in Conns, ClientGivesUp(c)
  PROVE  SlotsInv'
<1>1. /\ Typed /\ BusyIsHeld /\ pending \subseteq Pendings /\ waiting \in Seq(Requests)
      /\ calls \in [Conns -> 0 .. MaxCalls] /\ busy \subseteq Conns
  BY DEF SlotsInv, Typed, ServerTypeOK
<1>2. Delivered(Nothing, [call EXCEPT ![c] = NoCall])
  BY <1>1, GivesUpLinks
<1>3. UNCHANGED <<life, conn, holders, events, thread, modelOpen, client>>
  BY DEF ClientGivesUp
<1>4. \A w \in Range(waiting) : w.conn \in connections
  BY DEF SlotsInv, WaitersAreOpen
<1>5. stop = "done" => waiting = <<>> /\ pending = {}
  BY DEF SlotsInv, StopReleasesAll
<1>6. CASE \E w \in Range(waiting) : /\ waiting' = Without(waiting, {w})
                                     /\ busy' = busy \ {w.conn} /\ pending' = pending
  <2>1. PICK w \in Range(waiting) : /\ waiting' = Without(waiting, {w})
                                    /\ busy' = busy \ {w.conn} /\ pending' = pending
    BY <1>6
  <2>2. /\ BusyIsHeld' /\ waiting' \in Seq(Requests) /\ busy' \subseteq Conns
        /\ Range(waiting') \subseteq Range(waiting)
    BY <1>1, <2>1, OneWithdrawn
  <2>3. stop # "done"
    BY <1>5, NoMessage
  <2> QED BY <1>1, <1>2, <1>3, <1>4, <2>1, <2>2, <2>3, RequestsSlots DEF thread, client
<1>7. CASE /\ UNCHANGED <<waiting, busy>>
           /\ \E f : /\ pending' = {f[p] : p \in pending}
                     /\ \A p \in pending : f[p] = p \/ f[p] = [p EXCEPT !.answered = TRUE]
  <2>1. PICK f : /\ pending' = {f[p] : p \in pending}
                 /\ \A p \in pending : f[p] = p \/ f[p] = [p EXCEPT !.answered = TRUE]
    BY <1>7
  <2>2. \A p \in pending : f[p] \in Pendings /\ f[p].conn = p.conn /\ f[p].detached = p.detached
    BY <1>1, <2>1, PendingIs
  <2>4. BusyIsHeld' /\ pending' \subseteq Pendings /\ busy' \subseteq Conns
    <3>1. PICK K : K = pending
      OBVIOUS
    <3>2. \A d : d \in busy' <=> d \in busy /\ ~ \E p \in pending \ K : ~p.detached /\ p.conn = d
      BY <1>7, <3>1
    <3>3. /\ \A q \in pending' : \E p \in K : q = f[p]
          /\ \A p \in K : f[p] \in pending' /\ p \in pending
      BY <2>1, <3>1
    <3>4. \A p \in K : f[p] \in Pendings /\ f[p].conn = p.conn /\ f[p].detached = p.detached
      BY <2>2, <3>1
    <3> QED BY <1>1, <1>7, <3>2, <3>3, <3>4, HeldMapped
  <2>5. stop = "done" => pending' = pending
    <3>1. pending = {} => pending' = {}
      BY <2>1
    <3> QED BY <1>5, <3>1
  <2> QED BY <1>1, <1>2, <1>3, <1>4, <1>7, <2>4, <2>5, RequestsSlots DEF thread, client
<1> QED BY <1>1, <1>6, <1>7, GivesUpIs

LEMMA ExpiresPosts ==
  ASSUME Typed, NEW p \in pending, StepExpires(p)
  PROVE  Delivered(To(p.conn, <<Failed(p.id)>>), call)
<1>1. p \in Pendings /\ call \in [Conns -> Calls]
  BY DEF Typed, ServerTypeOK, Calls
<1>2. p.conn \in Conns /\ p.id \in Nat
  <2>1. p.conn \in Conns /\ p.id \in RequestIds
    BY <1>1, PendingIs
  <2> QED BY <2>1 DEF RequestIds
<1>3. PostTo(To(p.conn, <<Failed(p.id)>>), call)
  BY DEF StepExpires, Post
<1> QED BY <1>1, <1>2, <1>3, OneFailurePosted

LEMMA ExpiresSlots ==
  ASSUME SlotsInv, NEW p \in pending, StepExpires(p)
  PROVE  SlotsInv'
<1>1. /\ Typed /\ BusyIsHeld /\ pending \subseteq Pendings /\ waiting \in Seq(Requests)
      /\ calls \in [Conns -> 0 .. MaxCalls] /\ busy \subseteq Conns
  BY DEF SlotsInv, Typed, ServerTypeOK
<1>2. Delivered(To(p.conn, <<Failed(p.id)>>), call)
  BY <1>1, ExpiresPosts
<1>3. /\ pending' = (pending \ {p}) \union {[p EXCEPT !.answered = TRUE]}
      /\ UNCHANGED <<life, conn, holders, events, policy, thread, modelOpen, client>>
      /\ at = "loop"
  BY DEF StepExpires, Turn
<1> DEFINE f == [x \in pending |-> IF x = p THEN [p EXCEPT !.answered = TRUE] ELSE x]
<1>4. PICK K : K = pending
  OBVIOUS
<1>5. f[p] = [p EXCEPT !.answered = TRUE] /\ \A x \in pending : x # p => f[x] = x
  OBVIOUS
<1> HIDE DEF f
<1>6. ASSUME NEW x \in K
      PROVE  f[x] \in Pendings /\ f[x].conn = x.conn /\ f[x].detached = x.detached
  <2>1. x \in Pendings /\ p \in Pendings /\ x \in pending
    BY <1>1, <1>4
  <2>2. CASE x = p
    BY <1>5, <2>1, <2>2, PendingIs
  <2>3. CASE x # p
    BY <1>5, <2>1, <2>3
  <2> QED BY <2>2, <2>3
<1>7. /\ \A q \in pending' : \E x \in K : q = f[x]
      /\ \A x \in K : f[x] \in pending' /\ x \in pending
  BY <1>3, <1>4, <1>5
<1>8. \A d : d \in busy' <=> d \in busy /\ ~ \E x \in pending \ K : ~x.detached /\ x.conn = d
  BY <1>3, <1>4 DEF policy
<1>9. BusyIsHeld' /\ pending' \subseteq Pendings /\ busy' \subseteq Conns
  <2>1. waiting' = waiting
    BY <1>3 DEF policy
  <2> QED BY <1>1, <2>1, <1>6, <1>7, <1>8, HeldMapped
<1>10. stop # "done"
  BY <1>3 DEF SlotsInv, ServerTold
<1>11. \A w \in Range(waiting) : w.conn \in connections
  BY DEF SlotsInv, WaitersAreOpen
<1> QED BY <1>1, <1>2, <1>3, <1>9, <1>10, <1>11, RequestsSlots DEF thread, policy, client

LEMMA WaitingExpiresPosts ==
  ASSUME Typed, NEW w \in Range(waiting), WaitingExpires(w)
  PROVE  \/ Delivered(To(w.conn, <<Failed(w.id)>>), call)
         \/ Delivered(Nothing, call)
<1>1. w \in Requests /\ call \in [Conns -> Calls]
  BY DEF Typed, ServerTypeOK, Calls, Range
<1>2. w.conn \in Conns /\ w.id \in Nat
  BY <1>1, RequestIs DEF RequestIds
<1>3. CASE w.conn \in connections
  <2>1. PostTo(To(w.conn, <<Failed(w.id)>>), call)
    BY <1>3 DEF WaitingExpires, Post
  <2> QED BY <1>1, <1>2, <2>1, OneFailurePosted
<1>4. CASE w.conn \notin connections
  <2>1. Post(Nothing)
    BY <1>4 DEF WaitingExpires
  <2> QED BY <2>1, NothingIs, PostNow
<1> QED BY <1>3, <1>4

LEMMA WaitingExpiresSlots ==
  ASSUME SlotsInv, NEW w \in Range(waiting), WaitingExpires(w)
  PROVE  SlotsInv'
<1>1. /\ Typed /\ BusyIsHeld /\ pending \subseteq Pendings
      /\ calls \in [Conns -> 0 .. MaxCalls]
  BY DEF SlotsInv, Typed, ServerTypeOK
<1>2. PICK M : Delivered(M, call)
  BY <1>1, WaitingExpiresPosts
<1>3. /\ waiting' = Without(waiting, {w}) /\ busy' = busy \ {w.conn}
      /\ UNCHANGED <<life, conn, holders, events, pending, thread, modelOpen, client>>
      /\ at = "loop"
  BY DEF WaitingExpires, Turn
<1>4. /\ BusyIsHeld' /\ waiting' \in Seq(Requests) /\ busy' \subseteq Conns
      /\ Range(waiting') \subseteq Range(waiting)
  BY <1>1, <1>3, OneWithdrawn
<1>5. stop # "done"
  BY <1>3 DEF SlotsInv, ServerTold
<1>6. \A x \in Range(waiting) : x.conn \in connections
  BY DEF SlotsInv, WaitersAreOpen
<1> QED BY <1>1, <1>2, <1>3, <1>4, <1>5, <1>6, RequestsSlots DEF thread, client

\* A queue cut in two.
LEMMA CutInTwo ==
  ASSUME NEW T, NEW s \in Seq(T), NEW n \in 0 .. Len(s)
  PROVE  /\ SubSeq(s, n + 1, Len(s)) \in Seq(T)
         /\ Range(s) = Range(SubSeq(s, 1, n)) \union Range(SubSeq(s, n + 1, Len(s)))
         /\ Len(SubSeq(s, n + 1, Len(s))) = Len(s) - n
         /\ \A k \in DOMAIN SubSeq(s, n + 1, Len(s)) :
              k + n \in DOMAIN s /\ SubSeq(s, n + 1, Len(s))[k] = s[k + n]
         /\ \A k \in DOMAIN SubSeq(s, 1, n) : k \in DOMAIN s /\ k <= n /\ SubSeq(s, 1, n)[k] = s[k]
         /\ \A k \in DOMAIN s : k <= n => k \in DOMAIN SubSeq(s, 1, n)
<1> DEFINE a == SubSeq(s, 1, n)
           b == SubSeq(s, n + 1, Len(s))
<1>1. /\ b \in Seq(T) /\ Len(b) = Len(s) - n /\ DOMAIN b = 1 .. (Len(s) - n)
      /\ \A k \in DOMAIN b : k + n \in DOMAIN s /\ b[k] = s[k + n]
  OBVIOUS
<1>2. DOMAIN a = 1 .. n /\ \A k \in DOMAIN a : k \in DOMAIN s /\ k <= n /\ a[k] = s[k]
  OBVIOUS
<1>3. \A k \in DOMAIN s : \/ k \in DOMAIN a /\ a[k] = s[k]
                          \/ k - n \in DOMAIN b /\ b[k - n] = s[k] /\ ~(k <= n)
  BY <1>1, <1>2
<1> HIDE DEF a, b
<1>4. Range(s) = Range(a) \union Range(b)
  <2>1. \A x \in Range(a) : x \in Range(s)
    BY <1>2 DEF Range
  <2>2. \A x \in Range(b) : x \in Range(s)
    BY <1>1 DEF Range
  <2>3. \A x \in Range(s) : x \in Range(a) \/ x \in Range(b)
    BY <1>3 DEF Range
  <2> QED BY <2>1, <2>2, <2>3
<1> QED BY <1>1, <1>2, <1>3, <1>4 DEF a, b

LEMMA BatchIs ==
  ASSUME Typed, WaitersAreOpen, BusyIsHeld, BatchTaken
  PROVE  \E batch :
           /\ batch \subseteq Range(waiting) /\ Range(waiting) = batch \union Range(waiting')
           /\ \A w \in batch, x \in Range(waiting') : w # x
           /\ waiting' \in Seq(Requests) /\ DistinctConns(waiting')
           /\ pending' = pending \union
                {[conn |-> w.conn, id |-> w.id, gen |-> gen[w.conn],
                  future |-> FALSE, answered |-> FALSE, detached |-> FALSE] : w \in batch}
           /\ busy' = busy /\ at' = "running"
<1> DEFINE size == IF Len(waiting) < MaxBatch THEN Len(waiting) ELSE MaxBatch
           batch == Range(SubSeq(waiting, 1, size))
           live == {w \in batch : w.conn \in connections}
<1>1. /\ waiting' = SubSeq(waiting, size + 1, Len(waiting))
      /\ pending' = pending \union
                {[conn |-> w.conn, id |-> w.id, gen |-> gen[w.conn],
                  future |-> FALSE, answered |-> FALSE, detached |-> FALSE] : w \in live}
      /\ busy' = IF live = {} THEN busy \ {w.conn : w \in batch} ELSE busy
      /\ at' = IF live = {} THEN "loop" ELSE "running"
      /\ waiting # <<>>
  BY DEF BatchTaken
<1>2. waiting \in Seq(Requests) /\ DistinctConns(waiting)
  BY BusySays DEF Typed, ServerTypeOK
<1>3. size \in 0 .. Len(waiting) /\ size >= 1
  BY <1>1, <1>2, SizesAssumption
<1> HIDE DEF size
<1>4. /\ waiting' \in Seq(Requests) /\ Range(waiting) = batch \union Range(waiting')
      /\ \A k \in DOMAIN waiting' : k + size \in DOMAIN waiting /\ waiting'[k] = waiting[k + size]
      /\ \A k \in DOMAIN SubSeq(waiting, 1, size) :
           k \in DOMAIN waiting /\ k <= size /\ SubSeq(waiting, 1, size)[k] = waiting[k]
      /\ 1 \in DOMAIN SubSeq(waiting, 1, size)
  <2>1. 1 \in DOMAIN waiting /\ 1 <= size
    BY <1>1, <1>2, <1>3
  <2> QED BY <1>1, <1>2, <1>3, <2>1, CutInTwo
<1>5. DistinctConns(waiting')
  BY <1>2, <1>3, <1>4 DEF DistinctConns
<1>6. \A w \in batch, x \in Range(waiting') : w # x
  <2>1. SUFFICES ASSUME NEW k \in DOMAIN SubSeq(waiting, 1, size), NEW l \in DOMAIN waiting',
                        SubSeq(waiting, 1, size)[k] = waiting'[l]
                 PROVE  FALSE
    BY DEF Range
  <2>2. k \in DOMAIN waiting /\ k <= size /\ l + size \in DOMAIN waiting
        /\ waiting[k] = waiting[l + size] /\ l \in 1 .. Len(waiting') /\ k \in Int
    <3>1. DOMAIN waiting = 1 .. Len(waiting) /\ Len(waiting) \in Nat
      BY <1>2
    <3>2. DOMAIN waiting' = 1 .. Len(waiting') /\ Len(waiting') \in Nat
      BY <1>4
    <3>3. /\ k \in DOMAIN waiting /\ k <= size /\ SubSeq(waiting, 1, size)[k] = waiting[k]
          /\ l + size \in DOMAIN waiting /\ waiting'[l] = waiting[l + size]
      BY <1>4, <2>1
    <3>4. waiting[k] = waiting[l + size]
      BY <2>1, <3>3
    <3>5. l \in 1 .. Len(waiting') /\ k \in Int
      BY <3>1, <3>2, <3>3
    <3> QED BY <3>3, <3>4, <3>5
  <2>3. k = l + size
    BY <1>2, <2>2 DEF DistinctConns
  <2> QED BY <2>2, <2>3, <1>3, <1>4
<1>7. batch # {} /\ live = batch
  <2>1. \A w \in batch : w.conn \in connections
    BY <1>4 DEF WaitersAreOpen
  <2>2. SubSeq(waiting, 1, size)[1] \in batch
    BY <1>4 DEF Range
  <2> QED BY <2>1, <2>2
<1>8. /\ pending' = pending \union
                {[conn |-> w.conn, id |-> w.id, gen |-> gen[w.conn],
                  future |-> FALSE, answered |-> FALSE, detached |-> FALSE] : w \in batch}
      /\ busy' = busy /\ at' = "running"
  BY <1>1, <1>7
<1> QED BY <1>4, <1>5, <1>6, <1>8

LEMMA BatchSlots ==
  ASSUME SlotsInv, BatchTaken
  PROVE  SlotsInv'
<1>1. /\ Typed /\ BusyIsHeld /\ WaitersAreOpen /\ pending \subseteq Pendings
      /\ gen \in [Conns -> Nat] /\ calls \in [Conns -> 0 .. MaxCalls] /\ busy \subseteq Conns
  BY DEF SlotsInv, Typed, ServerTypeOK
<1> DEFINE run(w) == [conn |-> w.conn, id |-> w.id, gen |-> gen[w.conn],
                      future |-> FALSE, answered |-> FALSE, detached |-> FALSE]
<1>2. PICK batch :
           /\ batch \subseteq Range(waiting) /\ Range(waiting) = batch \union Range(waiting')
           /\ \A w \in batch, x \in Range(waiting') : w # x
           /\ waiting' \in Seq(Requests) /\ DistinctConns(waiting')
           /\ pending' = pending \union {run(w) : w \in batch}
           /\ busy' = busy /\ at' = "running"
  BY <1>1, BatchIs
<1>3. /\ \A x \in Range(waiting) : x.conn \in busy /\ x \in Requests
      /\ \A p \in pending : ~p.detached => p.conn \in busy
      /\ \A c \in busy : \/ \E x \in Range(waiting) : x.conn = c
                         \/ \E p \in pending : ~p.detached /\ p.conn = c
      /\ \A v, x \in Range(waiting) : v.conn = x.conn => v = x
      /\ \A p, q \in pending : ~p.detached /\ ~q.detached /\ p.conn = q.conn => p = q
      /\ \A p \in pending, x \in Range(waiting) : ~p.detached => p.conn # x.conn
  BY <1>1, BusySays
<1>4. \A w \in batch : run(w) \in Pendings /\ run(w).conn = w.conn /\ ~run(w).detached
  BY <1>1, <1>2, <1>3, RequestIs DEF Pendings
<1> HIDE DEF run
<1>5. \A q \in pending' : q \in pending \/ \E w \in batch : q = run(w)
  BY <1>2
<1>6. BusyIsHeld'
  <2>1. \A x \in Range(waiting') : x.conn \in busy'
    BY <1>2, <1>3
  <2>2. \A q \in pending' : ~q.detached => q.conn \in busy'
    BY <1>2, <1>3, <1>4, <1>5
  <2>3. \A c \in busy' : \/ \E x \in Range(waiting') : x.conn = c
                         \/ \E q \in pending' : ~q.detached /\ q.conn = c
    <3>1. SUFFICES ASSUME NEW c \in busy, ~ \E x \in Range(waiting') : x.conn = c
                   PROVE  \E q \in pending' : ~q.detached /\ q.conn = c
      BY <1>2
    <3>2. CASE \E p \in pending : ~p.detached /\ p.conn = c
      BY <1>2, <3>2
    <3>3. CASE \E w \in batch : w.conn = c
      <4>1. PICK w \in batch : w.conn = c
        BY <3>3
      <4>2. run(w) \in pending' /\ run(w).conn = c /\ ~run(w).detached
        BY <1>2, <1>4, <4>1
      <4> QED BY <4>2
    <3> QED BY <1>2, <1>3, <3>1, <3>2, <3>3
  <2>4. \A q \in pending', x \in Range(waiting') : ~q.detached => q.conn # x.conn
    <3>1. \A q \in pending, x \in Range(waiting') : ~q.detached => q.conn # x.conn
      BY <1>2, <1>3
    <3>2. \A w \in batch, x \in Range(waiting') : w.conn # x.conn
      BY <1>2, <1>3
    <3> QED BY <1>4, <1>5, <3>1, <3>2
  <2>5. \A p, q \in pending' : ~p.detached /\ ~q.detached /\ p.conn = q.conn => p = q
    <3>1. SUFFICES ASSUME NEW p \in pending', NEW q \in pending', ~p.detached, ~q.detached,
                          p.conn = q.conn
                   PROVE  p = q
      OBVIOUS
    <3>2. CASE p \in pending /\ q \in pending
      BY <1>3, <3>1, <3>2
    <3>3. ASSUME NEW w \in batch, q = run(w), p \in pending PROVE FALSE
      BY <1>2, <1>3, <1>4, <3>1, <3>3
    <3>4. ASSUME NEW w \in batch, p = run(w), q \in pending PROVE FALSE
      BY <1>2, <1>3, <1>4, <3>1, <3>4
    <3>5. ASSUME NEW w \in batch, NEW x \in batch, p = run(w), q = run(x) PROVE p = q
      BY <1>2, <1>3, <1>4, <3>1, <3>5
    <3> QED BY <1>5, <3>2, <3>3, <3>4, <3>5
  <2> QED BY <2>1, <2>2, <2>3, <2>4, <2>5, <1>2, BusyNext
<1>7. /\ UNCHANGED <<life, conn, wires, holders, events, todo, refusing, modelOpen, client>>
      /\ at = "loop"
  BY DEF BatchTaken, Turn
<1>8. Delivered(Nothing, call)
  BY <1>1, <1>7, UnchangedLinks
<1>9. stop # "done"
  BY <1>7 DEF SlotsInv, ServerTold
<1>10. \A x \in Range(waiting') : x.conn \in connections
  BY <1>1, <1>2 DEF WaitersAreOpen
<1>11. pending' \subseteq Pendings
  BY <1>1, <1>4, <1>5
<1> QED BY <1>1, <1>2, <1>6, <1>7, <1>8, <1>9, <1>10, <1>11, RequestsSlots DEF client

Due(S) == {p \in S : Awaited(p) /\ cstate[p.conn] = "OPEN" /\ gen[p.conn] = p.gen
                     /\ p.conn \in connections}

LEMMA CompletePosts ==
  ASSUME Typed, NEW S, S \subseteq pending, Complete(S)
  PROVE  /\ Delivered([c \in Conns |-> Failures(c, Due(S))], call)
         /\ \A d : d \in busy' <=> d \in busy /\ ~ \E p \in S : ~p.detached /\ p.conn = d
<1>1. \A r \in Due(S) : r.id \in RequestIds
  <2>1. \A r \in pending : r \in Pendings
    BY DEF Typed, ServerTypeOK
  <2> QED BY <2>1, PendingIs DEF Due
<1>2. /\ Post([c \in Conns |-> Failures(c, Due(S))])
      /\ busy' = busy \ {p.conn : p \in {p \in S : ~p.detached}}
  BY DEF Complete, Due
<1>3. Delivered([c \in Conns |-> Failures(c, Due(S))], call)
  BY <1>1, <1>2, FailuresPosted
<1> QED BY <1>2, <1>3

LEMMA FutureSlots ==
  ASSUME SlotsInv, NEW p \in pending, FutureDone(p)
  PROVE  SlotsInv'
<1>1. /\ Typed /\ BusyIsHeld /\ pending \subseteq Pendings /\ waiting \in Seq(Requests)
      /\ calls \in [Conns -> 0 .. MaxCalls] /\ busy \subseteq Conns
  BY DEF SlotsInv, Typed, ServerTypeOK
<1>2. /\ pending' = pending \ {p} /\ Complete({p})
      /\ UNCHANGED <<life, conn, holders, events, waiting, thread, modelOpen, client>>
  BY DEF FutureDone
<1>3. PICK S : S = {p}
  OBVIOUS
<1>4. /\ Delivered([c \in Conns |-> Failures(c, Due(S))], call)
      /\ \A d : d \in busy' <=> d \in busy /\ ~ \E q \in S : ~q.detached /\ q.conn = d
  BY <1>1, <1>2, <1>3, CompletePosts
<1> DEFINE f == [x \in pending |-> x]
<1>5. PICK K : K = pending \ {p}
  OBVIOUS
<1>6. \A x \in K : f[x] = x /\ x \in pending
  BY <1>5
<1> HIDE DEF f
<1>7. BusyIsHeld' /\ pending' \subseteq Pendings /\ busy' \subseteq Conns
  <2>1. \A x \in K : f[x] \in Pendings /\ f[x].conn = x.conn /\ f[x].detached = x.detached
    BY <1>1, <1>6
  <2>2. /\ \A q \in pending' : \E x \in K : q = f[x]
        /\ \A x \in K : f[x] \in pending'
    BY <1>2, <1>5, <1>6
  <2>3. pending \ K = S
    BY <1>3, <1>5
  <2>4. \A d : d \in busy' <=> d \in busy /\ ~ \E x \in pending \ K : ~x.detached /\ x.conn = d
    BY <1>4, <2>3
  <2>5. K \subseteq pending
    BY <1>5
  <2> QED BY <1>1, <1>2, <2>1, <2>2, <2>4, <2>5, HeldMapped
<1>8. stop # "done"
  BY DEF SlotsInv, StopReleasesAll
<1>9. \A w \in Range(waiting) : w.conn \in connections
  BY DEF SlotsInv, WaitersAreOpen
<1> QED BY <1>1, <1>2, <1>4, <1>7, <1>8, <1>9, RequestsSlots DEF thread, client

\* A step() that returned: those of its batch that are not futures are done.
LEMMA ReturnIs ==
  ASSUME Typed, NEW F, StepReturns(F)
  PROVE  \E K, f :
           /\ K \subseteq pending
           /\ \A x \in K : f[x] = x \/ f[x] = [x EXCEPT !.future = TRUE]
           /\ \A q \in pending' : \E x \in K : q = f[x]
           /\ \A x \in K : f[x] \in pending'
           /\ Complete(pending \ K)
<1> DEFINE batch == {p \in pending : ~p.future}
           later == {p \in batch : p.conn \in F}
           K == pending \ (batch \ later)
           f == [x \in pending |-> IF x \in later THEN [x EXCEPT !.future = TRUE] ELSE x]
<1>1. /\ pending' = (pending \ batch) \union {[p EXCEPT !.future = TRUE] : p \in later}
      /\ Complete(batch \ later)
  BY DEF StepReturns
<1>2. pending \ K = batch \ later /\ K \subseteq pending
  OBVIOUS
<1>3. K = (pending \ batch) \union later /\ \A x \in later : x \notin pending \ batch
  OBVIOUS
<1>4. /\ \A x \in later : f[x] = [x EXCEPT !.future = TRUE]
      /\ \A x \in pending \ batch : f[x] = x
  OBVIOUS
<1>5. Complete(pending \ K)
  BY <1>1, <1>2
<1> HIDE DEF batch, later, K, f
<1>6. \A x \in K : f[x] = x \/ f[x] = [x EXCEPT !.future = TRUE]
  BY <1>3, <1>4
<1>7. \A q \in pending' : \E x \in K : q = f[x]
  BY <1>1, <1>3, <1>4
<1>8. \A x \in K : f[x] \in pending'
  BY <1>1, <1>3, <1>4
<1> QED BY <1>2, <1>5, <1>6, <1>7, <1>8

LEMMA ReturnSlots ==
  ASSUME SlotsInv, NEW F, StepReturns(F)
  PROVE  SlotsInv'
<1>1. /\ Typed /\ BusyIsHeld /\ pending \subseteq Pendings /\ waiting \in Seq(Requests)
      /\ calls \in [Conns -> 0 .. MaxCalls]
  BY DEF SlotsInv, Typed, ServerTypeOK
<1>2. /\ at = "running" /\ at' = "loop"
      /\ UNCHANGED <<life, conn, holders, events, waiting, todo, refusing, modelOpen, client>>
  BY DEF StepReturns
<1>3. PICK K, f :
           /\ K \subseteq pending
           /\ \A x \in K : f[x] = x \/ f[x] = [x EXCEPT !.future = TRUE]
           /\ \A q \in pending' : \E x \in K : q = f[x]
           /\ \A x \in K : f[x] \in pending'
           /\ Complete(pending \ K)
  BY <1>1, ReturnIs
<1>4. PICK S : S = pending \ K
  OBVIOUS
<1>5. /\ Delivered([c \in Conns |-> Failures(c, Due(S))], call)
      /\ \A d : d \in busy' <=> d \in busy /\ ~ \E q \in S : ~q.detached /\ q.conn = d
  <2>1. S \subseteq pending /\ Complete(S)
    BY <1>3, <1>4
  <2> QED BY <1>1, <2>1, CompletePosts
<1>6. ASSUME NEW x \in K
      PROVE  f[x] \in Pendings /\ f[x].conn = x.conn /\ f[x].detached = x.detached
  <2>1. x \in Pendings /\ (f[x] = x \/ f[x] = [x EXCEPT !.future = TRUE])
    BY <1>1, <1>3
  <2> QED BY <2>1, PendingIs
<1>7. \A d : d \in busy' <=> d \in busy /\ ~ \E x \in pending \ K : ~x.detached /\ x.conn = d
  BY <1>4, <1>5
<1>8. BusyIsHeld' /\ pending' \subseteq Pendings /\ busy' \subseteq Conns
  BY <1>1, <1>2, <1>3, <1>6, <1>7, HeldMapped
<1>9. stop # "done"
  BY <1>2 DEF SlotsInv, ServerTold
<1>10. \A w \in Range(waiting) : w.conn \in connections
  BY DEF SlotsInv, WaitersAreOpen
<1> QED BY <1>1, <1>2, <1>5, <1>8, <1>9, <1>10, RequestsSlots DEF client

-------------------------------------------------------------------------------
(* The step thread and the event loop, where nothing is held or let go.    *)

LEMMA TakenSlots ==
  ASSUME SlotsInv, EventsTaken
  PROVE  SlotsInv'
<1>1. /\ Typed /\ at = "loop" /\ at' = "events" /\ todo' = events /\ events' = <<>> /\ events # <<>>
      /\ UNCHANGED <<life, conn, wires, holders, policy, pending, modelOpen, client>>
  BY DEF EventsTaken, Turn, SlotsInv
<1>2. Delivered(Nothing, call)
  BY <1>1, UnchangedLinks
<1>11. refusing' \in BOOLEAN
  BY DEF EventsTaken
<1> USE DEF SlotsInv, life, conn, holders, policy, client
<1>3. Typed'
  BY <1>1, <1>2, <1>11 DEF Typed, ServerTypeOK, Delivered, Calls
<1>4. ThreadInHand'
  BY <1>1 DEF ThreadInHand
<1>5. ServerTold'
  BY <1>1 DEF ServerTold
<1>6. OnTheWay'
  <2>1. Range(events') = {}
    BY <1>1, NoMessage
  <2> QED BY <1>1, <2>1 DEF OnTheWay
<1>7. LinksEnd' /\ OneHolderPerSlot' /\ BusyIsHeld'
  BY <1>1, <1>2, KeepLinks, KeepHolders, KeepBusy
<1>8. ModelMirrors'
  <2>1. \A d \in Conns : ~Resetting(d)' /\ ~Resetting(d)
    BY <1>1 DEF Resetting
  <2> QED BY <1>1, <2>1 DEF ModelMirrors, Typed, ServerTypeOK
<1>9. WaitersAreOpen'
  BY <1>1 DEF WaitersAreOpen
<1>10. StopReleasesAll'
  BY <1>1, <1>5, NotStopped
<1> QED BY <1>3, <1>4, <1>5, <1>6, <1>7, <1>8, <1>9, <1>10

\* A step of the step thread's or the event loop's own state.
LEMMA LifeSlots ==
  ASSUME SlotsInv, ServerTold', stop' # "done",
         server' \in {"serving", "draining", "stopped"}, drain' \in {"idle", "joining", "done"},
         stop' \in {"idle", "joining", "done"}, drainLate' \in BOOLEAN,
         at' = at \/ (at = "loop" /\ at' = "ended"),
         UNCHANGED <<conn, wires, holders, events, policy, pending, todo, refusing, modelOpen, client>>
  PROVE  SlotsInv'
<1> USE DEF SlotsInv, conn, holders, policy, client
<1>1. Delivered(Nothing, call)
  BY UnchangedLinks
<1>2. Typed'
  BY <1>1 DEF Typed, ServerTypeOK, Delivered, Calls
<1>3. ThreadInHand'
  BY DEF ThreadInHand, Event
<1>4. OnTheWay' /\ LinksEnd' /\ OneHolderPerSlot' /\ BusyIsHeld'
  BY <1>1, KeepWay, KeepLinks, KeepHolders, KeepBusy
<1>5. ModelMirrors'
  <2>1. \A d \in Conns : Resetting(d)' <=> Resetting(d)
    BY DEF Resetting, Event
  <2> QED BY <2>1 DEF ModelMirrors, Typed, ServerTypeOK
<1>6. WaitersAreOpen'
  BY DEF WaitersAreOpen
<1>7. StopReleasesAll'
  BY DEF StopReleasesAll
<1> QED BY <1>2, <1>3, <1>4, <1>5, <1>6, <1>7

LEMMA LoopEndsSlots ==
  ASSUME SlotsInv, StepLoopEnds
  PROVE  SlotsInv'
<1>1. /\ at = "loop" /\ at' = "ended" /\ server # "serving"
      /\ UNCHANGED <<life, conn, wires, holders, events, policy, pending, todo, refusing,
                     modelOpen, client>>
  BY DEF StepLoopEnds, Drained
<1>2. ServerTold' /\ stop' # "done"
  BY <1>1 DEF SlotsInv, ServerTold, life
<1>3. /\ server \in {"serving", "draining", "stopped"} /\ drain \in {"idle", "joining", "done"}
      /\ stop \in {"idle", "joining", "done"} /\ drainLate \in BOOLEAN
  BY DEF SlotsInv, Typed, ServerTypeOK
<1> QED BY <1>1, <1>2, <1>3, LifeSlots DEF life

LEMMA LifecycleSlots ==
  ASSUME SlotsInv, DrainStarts \/ DrainDeadline \/ StopStarts
  PROVE  SlotsInv'
<1>1. /\ server \in {"serving", "draining", "stopped"} /\ drain \in {"idle", "joining", "done"}
      /\ stop \in {"idle", "joining", "done"} /\ drainLate \in BOOLEAN
  BY DEF SlotsInv, Typed, ServerTypeOK
<1>2. CASE DrainStarts
  <2>1. ServerTold' /\ stop' # "done" /\ at' = at
    BY <1>2 DEF SlotsInv, ServerTold, DrainStarts, thread
  <2> QED BY <1>1, <1>2, <2>1, LifeSlots DEF DrainStarts, thread
<1>3. CASE DrainDeadline
  <2>1. ServerTold' /\ stop' # "done" /\ at' = at
    BY <1>3 DEF SlotsInv, ServerTold, DrainDeadline, thread
  <2> QED BY <1>1, <1>3, <2>1, LifeSlots DEF DrainDeadline, thread
<1>4. CASE StopStarts
  <2>1. ServerTold' /\ stop' # "done" /\ at' = at
    BY <1>4 DEF SlotsInv, ServerTold, StopStarts, thread
  <2> QED BY <1>1, <1>4, <2>1, LifeSlots DEF StopStarts, thread
<1> QED BY <1>2, <1>3, <1>4

-------------------------------------------------------------------------------
(* Connections that leave.                                                 *)

\* ModelMirrors, slot by slot.
Mirrored ==
  \A s \in Slots :
    modelOpen[s] = IF bySlot[s] = NoConn \/ Resetting(bySlot[s]) THEN {} ELSE {gen[bySlot[s]]}

LEMMA MirrorSays == Typed /\ OneHolderPerSlot => (ModelMirrors <=> Mirrored)
<1> SUFFICES ASSUME Typed, OneHolderPerSlot PROVE ModelMirrors <=> Mirrored
  OBVIOUS
<1>1. connections \subseteq Conns
  BY DEF Typed, ServerTypeOK
<1>2. ASSUME NEW s \in Slots
      PROVE  {gen[c] : c \in {c \in connections : slot[c] = s /\ ~Resetting(c)}}
               = IF bySlot[s] = NoConn \/ Resetting(bySlot[s]) THEN {} ELSE {gen[bySlot[s]]}
  <2>1. \A c \in connections : slot[c] = s => bySlot[s] = c
    BY DEF OneHolderPerSlot
  <2>2. CASE bySlot[s] = NoConn
    <3>1. \A c \in connections : slot[c] # s
      BY <2>1, <2>2, <1>1, ConnsAssumption
    <3> QED BY <2>2, <3>1
  <2>3. CASE bySlot[s] # NoConn
    <3>1. bySlot[s] \in connections /\ slot[bySlot[s]] = s
      BY <2>3 DEF OneHolderPerSlot
    <3>2. CASE Resetting(bySlot[s])
      <4>1. {c \in connections : slot[c] = s /\ ~Resetting(c)} = {}
        BY <2>1, <3>2
      <4> QED BY <3>2, <4>1
    <3>3. CASE ~Resetting(bySlot[s])
      <4>1. {c \in connections : slot[c] = s /\ ~Resetting(c)} = {bySlot[s]}
        BY <2>1, <3>1, <3>3
      <4> QED BY <2>3, <3>3, <4>1
    <3> QED BY <3>2, <3>3
  <2> QED BY <2>2, <2>3
<1> QED BY <1>2 DEF ModelMirrors, Mirrored

LEMMA MirrorNext == Typed' /\ OneHolderPerSlot' => (ModelMirrors' <=> Mirrored')
BY MirrorSays, PTL

\* The holders and the model once the connections of left are gone.
LEMMA LeftCore ==
  ASSUME SlotsInv, NEW left, left \subseteq Conns,
         connections' = connections \ left,
         bySlot' = [s \in Slots |-> IF bySlot[s] \in left THEN NoConn ELSE bySlot[s]],
         modelOpen' = ClosedFor({c \in left : cstate[c] = "OPEN"}),
         \A c \in Conns : cstate'[c] = "OPEN" <=> cstate[c] = "OPEN" /\ c \notin left,
         \A c \in connections : gen'[c] = gen[c], slot' = slot,
         at # "resetting", at' # "resetting", Typed'
  PROVE  OneHolderPerSlot' /\ ModelMirrors'
<1>1. /\ Typed /\ OneHolderPerSlot /\ connections \subseteq Conns
      /\ bySlot \in [Slots -> Conns \union {NoConn}] /\ modelOpen \in [Slots -> SUBSET Nat]
  BY DEF SlotsInv, Typed, ServerTypeOK
<1>2. Mirrored
  BY MirrorSays DEF SlotsInv
<1>3. OneHolderPerSlot'
  <2>1. connections' = {c \in Conns : cstate'[c] = "OPEN"}
    BY <1>1 DEF OneHolderPerSlot
  <2>2. ASSUME NEW c \in connections' PROVE bySlot'[slot'[c]] = c
    <3>1. c \in connections /\ c \notin left /\ bySlot[slot[c]] = c
      BY <1>1 DEF OneHolderPerSlot
    <3>2. slot[c] \in Slots
      BY <1>1, <3>1 DEF SlotsInv, OnTheWay, OneHolderPerSlot
    <3> QED BY <3>1, <3>2
  <2>3. ASSUME NEW s \in Slots, bySlot'[s] # NoConn
        PROVE  bySlot'[s] \in connections' /\ slot'[bySlot'[s]] = s
    <3>1. bySlot'[s] = bySlot[s] /\ bySlot[s] \notin left
      BY <2>3
    <3> QED BY <1>1, <2>3, <3>1 DEF OneHolderPerSlot
  <2> QED BY <2>1, <2>2, <2>3 DEF OneHolderPerSlot
<1>4. Mirrored'
  <2>1. SUFFICES ASSUME NEW s \in Slots
                 PROVE  modelOpen'[s] = IF bySlot'[s] = NoConn THEN {} ELSE {gen'[bySlot'[s]]}
    BY DEF Mirrored, Resetting
  <2> DEFINE gone == {gen[c] : c \in {c \in {c \in left : cstate[c] = "OPEN"} : slot[c] = s}}
  <2>2. modelOpen'[s] = modelOpen[s] \ gone
    BY DEF ClosedFor
  <2>3. modelOpen[s] = IF bySlot[s] = NoConn THEN {} ELSE {gen[bySlot[s]]}
    BY <1>2 DEF Mirrored, Resetting
  <2>4. \A c \in left : cstate[c] = "OPEN" /\ slot[c] = s => bySlot[s] = c
    BY <1>1 DEF OneHolderPerSlot
  <2>5. CASE bySlot[s] = NoConn
    <3>1. bySlot'[s] = NoConn
      BY <2>5
    <3> QED BY <2>2, <2>3, <2>5, <3>1
  <2>6. CASE bySlot[s] # NoConn
    <3>1. bySlot[s] \in connections /\ slot[bySlot[s]] = s /\ cstate[bySlot[s]] = "OPEN"
      BY <1>1, <2>6 DEF OneHolderPerSlot
    <3>2. CASE bySlot[s] \in left
      <4>1. gen[bySlot[s]] \in gone
        BY <3>1, <3>2
      <4>2. bySlot'[s] = NoConn
        BY <3>2
      <4> QED BY <2>2, <2>3, <2>6, <4>1, <4>2
    <3>3. CASE bySlot[s] \notin left
      <4>1. gone = {}
        BY <2>4, <3>3
      <4>2. bySlot'[s] = bySlot[s] /\ gen'[bySlot[s]] = gen[bySlot[s]]
        BY <3>1, <3>3
      <4> QED BY <2>2, <2>3, <2>6, <4>1, <4>2
    <3> QED BY <3>2, <3>3
  <2> QED BY <2>5, <2>6
<1> QED BY <1>3, <1>4, MirrorNext

LEMMA WaitingOfIs ==
  ASSUME NEW C
  PROVE  \A w : w \in Range(waiting) \ WaitingOf(C) <=> w \in Range(waiting) /\ w.conn \notin C
BY DEF WaitingOf

\* The requests once those of C are dropped.
LEMMA DropBusy ==
  ASSUME Typed, BusyIsHeld, NEW C, Drop(C), pending' = DropPending(C)
  PROVE  /\ BusyIsHeld' /\ waiting' \in Seq(Requests) /\ busy' \subseteq Conns
         /\ pending' \subseteq Pendings
         /\ \A w \in Range(waiting') : w \in Range(waiting) /\ w.conn \notin C
         /\ \A q \in pending' : \/ q \in pending /\ q.conn \notin C
                                \/ \E p \in pending : /\ p.conn \in C
                                                      /\ q = [p EXCEPT !.detached = TRUE]
<1>1. /\ \A x \in Range(waiting) : x.conn \in busy /\ x \in Requests
      /\ \A p \in pending : ~p.detached => p.conn \in busy
      /\ \A c \in busy : \/ \E x \in Range(waiting) : x.conn = c
                         \/ \E p \in pending : ~p.detached /\ p.conn = c
      /\ DistinctConns(waiting)
      /\ \A p, q \in pending : ~p.detached /\ ~q.detached /\ p.conn = q.conn => p = q
      /\ \A p \in pending, x \in Range(waiting) : ~p.detached => p.conn # x.conn
  BY BusySays
<1>2. waiting \in Seq(Requests) /\ busy \subseteq Conns /\ pending \subseteq Pendings
  BY DEF Typed, ServerTypeOK
<1>3. waiting' = Without(waiting, WaitingOf(C)) /\ busy' = busy \ C
  BY DEF Drop
<1>4. /\ waiting' \in Seq(Requests) /\ DistinctConns(waiting')
      /\ Range(waiting') = Range(waiting) \ WaitingOf(C)
  BY <1>1, <1>2, <1>3, WithoutDistinct
<1>5. \A w : w \in Range(waiting') <=> w \in Range(waiting) /\ w.conn \notin C
  BY <1>4, WaitingOfIs
<1>6. /\ \A q \in pending' : \/ q \in pending /\ q.conn \notin C
                             \/ \E p \in pending : p.conn \in C /\ q = [p EXCEPT !.detached = TRUE]
      /\ \A p \in pending : p.conn \notin C => p \in pending'
  BY DEF DropPending
<1>7. \A q \in pending' : /\ q \in Pendings
                          /\ ~q.detached => q \in pending /\ q.conn \notin C
  <2> SUFFICES ASSUME NEW q \in pending'
               PROVE  q \in Pendings /\ (~q.detached => q \in pending /\ q.conn \notin C)
    OBVIOUS
  <2>1. CASE q \in pending /\ q.conn \notin C
    BY <1>2, <2>1
  <2>2. CASE \E p \in pending : p.conn \in C /\ q = [p EXCEPT !.detached = TRUE]
    <3>1. PICK p \in pending : p.conn \in C /\ q = [p EXCEPT !.detached = TRUE]
      BY <2>2
    <3>2. p \in Pendings
      BY <1>2
    <3>3. q \in Pendings /\ q.detached = TRUE
      BY <3>1, <3>2, PendingIs
    <3> QED BY <3>3
  <2> QED BY <1>6, <2>1, <2>2
<1>8. BusyIsHeld'
  <2>1. \A x \in Range(waiting') : x.conn \in busy'
    BY <1>1, <1>3, <1>5
  <2>2. \A q \in pending' : ~q.detached => q.conn \in busy'
    BY <1>1, <1>3, <1>7
  <2>3. \A c \in busy' : \/ \E x \in Range(waiting') : x.conn = c
                         \/ \E q \in pending' : ~q.detached /\ q.conn = c
    BY <1>1, <1>3, <1>5, <1>6
  <2>4. \A p, q \in pending' : ~p.detached /\ ~q.detached /\ p.conn = q.conn => p = q
    BY <1>1, <1>7
  <2>5. \A q \in pending', x \in Range(waiting') : ~q.detached => q.conn # x.conn
    BY <1>1, <1>5, <1>7
  <2> QED BY <2>1, <2>2, <2>3, <2>4, <2>5, <1>4, BusyNext
<1> QED BY <1>2, <1>3, <1>4, <1>5, <1>6, <1>7, <1>8

Flushes(L) == [c \in Conns |-> IF c \in L THEN <<Flush>> ELSE <<>>]

\* What Leave does.
LEMMA LeaveIs ==
  ASSUME SlotsInv, NEW L, L \subseteq Conns, Leave(L)
  PROVE  \E left :
           /\ left = {c \in L : cstate[c] \notin {"CLOSING", "CLOSED"}}
           /\ opening' = opening \ L /\ resetPending' = resetPending \ left
           /\ connections' = connections \ left
           /\ bySlot' = [s \in Slots |-> IF bySlot[s] \in left THEN NoConn ELSE bySlot[s]]
           /\ modelOpen' = ClosedFor({c \in left : cstate[c] = "OPEN"})
           /\ cstate' = [c \in Conns |-> IF c \in left THEN "CLOSED" ELSE cstate[c]]
           /\ Drop(left) /\ pending' = DropPending(left)
           /\ BusyIsHeld' /\ waiting' \in Seq(Requests) /\ busy' \subseteq Conns
           /\ pending' \subseteq Pendings
           /\ WaitersAreOpen' /\ LinksEnd'
           /\ Delivered(Flushes(L), call)
<1> DEFINE left == {c \in L : cstate[c] \notin {"CLOSING", "CLOSED"}}
<1>1. /\ opening' = opening \ L /\ Forget(left)
      /\ modelOpen' = ClosedFor({c \in left : cstate[c] = "OPEN"})
      /\ cstate' = [c \in Conns |-> IF c \in left THEN "CLOSED" ELSE cstate[c]]
      /\ Post(Flushes(L))
  BY DEF Leave, Flushes
<1>2. Typed /\ BusyIsHeld
  BY DEF SlotsInv
<1>3. Flushes(L) \in [Conns -> Seq(Messages)]
  BY FlushIs, OneMessage, NoMessage DEF Flushes
<1>4. Delivered(Flushes(L), call)
  BY <1>1, <1>2, <1>3, PostNow
<1>5. \A c \in left : c \in Conns /\ c \in L /\ cstate[c] # "CLOSED"
  OBVIOUS
<1>6. \A c \in L : Range(Flushes(L)[c]) = {Flush}
  BY FlushIs, OneMessage DEF Flushes
<1>7. left = {c \in L : cstate[c] \notin {"CLOSING", "CLOSED"}}
  OBVIOUS
<1> HIDE DEF left
<1>8. /\ Drop(left) /\ pending' = DropPending(left) /\ resetPending' = resetPending \ left
      /\ connections' = connections \ left
      /\ bySlot' = [s \in Slots |-> IF bySlot[s] \in left THEN NoConn ELSE bySlot[s]]
  BY <1>1 DEF Forget
<1>9. /\ BusyIsHeld' /\ waiting' \in Seq(Requests) /\ busy' \subseteq Conns
      /\ pending' \subseteq Pendings
      /\ \A w \in Range(waiting') : w \in Range(waiting) /\ w.conn \notin left
  BY <1>2, <1>8, DropBusy
<1>10. WaitersAreOpen'
  BY <1>8, <1>9 DEF SlotsInv, WaitersAreOpen
<1>11. LinksEnd'
  <2>1. SUFFICES ASSUME NEW c \in Conns, up'[c]
                 PROVE  /\ cstate'[c] # "none"
                        /\ cstate'[c] \in {"CLOSING", "CLOSED"} => Closes(c)'
    BY DEF LinksEnd
  <2>2. up[c] /\ Range(outbox[c]) \subseteq Range(outbox'[c])
    BY <1>4, <2>1 DEF Delivered
  <2>3. CASE c \in left
    <3>1. Flush \in Range(outbox'[c])
      BY <1>4, <1>5, <1>6, <2>1, <2>3 DEF Delivered
    <3> QED BY <1>1, <2>3, <3>1, FlushIs DEF Closes
  <2>4. CASE c \notin left
    BY <1>1, <2>2, <2>4 DEF SlotsInv, LinksEnd, Closes
  <2> QED BY <2>3, <2>4
<1> QED BY <1>1, <1>4, <1>7, <1>8, <1>9, <1>10, <1>11

\* An action that applies an event has one in hand.
LEMMA InHand ==
  ASSUME SlotsInv, at \in {"events", "opening", "resetting"}
  PROVE  /\ todo # <<>> /\ Event \in Range(todo) /\ Event \in Events
         /\ Event.conn \in Conns /\ Event.id \in Nat /\ stop # "done"
BY EventsAre DEF SlotsInv, ThreadInHand, ServerTold

LEMMA LeaveAppliedSlots ==
  ASSUME SlotsInv, LeaveApplied
  PROVE  SlotsInv'
<1>1. /\ at = "events" /\ Leave({Event.conn}) /\ EventDone
      /\ UNCHANGED <<life, slot, gen, reading, generations, events, refusing, client>>
  BY DEF LeaveApplied, Applies
<1>2. Typed /\ todo # <<>> /\ Event.conn \in Conns
  BY <1>1, InHand DEF SlotsInv
<1>3. PICK L : L = {Event.conn}
  OBVIOUS
<1>3a. L \subseteq Conns /\ Leave(L)
  BY <1>1, <1>2, <1>3
<1>4. PICK left :
           /\ left = {c \in L : cstate[c] \notin {"CLOSING", "CLOSED"}}
           /\ opening' = opening \ L /\ resetPending' = resetPending \ left
           /\ connections' = connections \ left
           /\ bySlot' = [s \in Slots |-> IF bySlot[s] \in left THEN NoConn ELSE bySlot[s]]
           /\ modelOpen' = ClosedFor({c \in left : cstate[c] = "OPEN"})
           /\ cstate' = [c \in Conns |-> IF c \in left THEN "CLOSED" ELSE cstate[c]]
           /\ Drop(left) /\ pending' = DropPending(left)
           /\ BusyIsHeld' /\ waiting' \in Seq(Requests) /\ busy' \subseteq Conns
           /\ pending' \subseteq Pendings
           /\ WaitersAreOpen' /\ LinksEnd'
           /\ Delivered(Flushes(L), call)
  BY <1>3a, LeaveIs
<1>5. /\ todo' \in Seq(Events) /\ Range(todo') \subseteq Range(todo)
      /\ at' \in {"loop", "events"} /\ (at' = "events" <=> todo' # <<>>)
  BY <1>1, <1>2, EventDoneIs
<1>6. Typed'
  <2>1. modelOpen' \in [Slots -> SUBSET Nat] /\ bySlot' \in [Slots -> Conns \union {NoConn}]
    BY <1>2, <1>4 DEF Typed, ServerTypeOK, ClosedFor
  <2>2. cstate' \in [Conns -> ConnectionStates]
    BY <1>2, <1>4 DEF Typed, ServerTypeOK, ConnectionStates
  <2> QED BY <1>1, <1>2, <1>4, <1>5, <2>1, <2>2
      DEF Typed, ServerTypeOK, Delivered, Calls, life, client
<1>7. OneHolderPerSlot' /\ ModelMirrors'
  <2>1. left \subseteq Conns
    BY <1>2, <1>3, <1>4
  <2>2. \A c \in Conns : cstate'[c] = "OPEN" <=> cstate[c] = "OPEN" /\ c \notin left
    BY <1>4
  <2>3. at # "resetting" /\ at' # "resetting" /\ slot' = slot /\ gen' = gen
    BY <1>1, <1>5
  <2> QED BY <1>4, <1>6, <2>1, <2>2, <2>3, LeftCore
<1>8. ThreadInHand'
  BY <1>5 DEF ThreadInHand
<1>9. ServerTold'
  BY <1>1, <1>5 DEF SlotsInv, ServerTold, life
<1>10. OnTheWay'
  <2>1. \A e \in Range(events) \union Range(todo) : e.conn \in Conns
    BY <1>2, EventsAre
  <2>2. \A c \in Conns : cstate'[c] = cstate[c] \/ cstate'[c] = "CLOSED"
    BY <1>4
  <2>3. \A c \in Conns : cstate'[c] \in {"CONNECTING", "OPENING"} => c \notin L
    BY <1>4
  <2>4. slot' = slot /\ events' = events /\ opening' = opening \ L
    BY <1>1, <1>4
  <2> QED BY <1>5, <2>1, <2>2, <2>3, <2>4 DEF SlotsInv, OnTheWay
<1>11. StopReleasesAll'
  BY <1>5, <1>9, NotStopped
<1> QED BY <1>4, <1>6, <1>7, <1>8, <1>9, <1>10, <1>11 DEF SlotsInv

\* A generation begins: the slot's count and the connection's number.
LEMMA GenerationIs ==
  ASSUME Typed, NEW c \in Conns, slot[c] \in Slots, NextGeneration(c)
  PROVE  /\ gen' \in [Conns -> Nat] /\ generations' \in [Slots -> Nat]
         /\ \A d \in Conns : d # c => gen'[d] = gen[d]
BY DEF NextGeneration, Typed, ServerTypeOK

LEMMA OpenBeginsSlots ==
  ASSUME SlotsInv, OpenBegins
  PROVE  SlotsInv'
<1> DEFINE c == Event.conn
<1>1. /\ at = "events" /\ at' = "opening" /\ Event.kind = "open" /\ cstate[c] = "OPENING"
      /\ Leave(Held(c)) /\ NextGeneration(c)
      /\ UNCHANGED <<life, slot, reading, events, todo, refusing, client>>
  BY DEF OpenBegins, Applies
<1>2. Typed /\ todo # <<>> /\ c \in Conns /\ OneHolderPerSlot /\ Event' = Event
  BY <1>1, InHand DEF SlotsInv, Event
<1>3. slot[c] \in Slots /\ c \in opening
  BY <1>1, <1>2 DEF SlotsInv, OnTheWay
<1>4. PICK L : L = Held(c)
  OBVIOUS
<1>5. L \subseteq Conns /\ c \notin L /\ \A h \in Conns : h = bySlot[slot[c]] => h \in L \/ h = c
  BY <1>4 DEF Held
<1>6. c \notin connections
  BY <1>1, <1>2 DEF OneHolderPerSlot
<1>7. bySlot[slot[c]] # NoConn => bySlot[slot[c]] \in L /\ cstate[bySlot[slot[c]]] = "OPEN"
  BY <1>1, <1>2, <1>3, <1>5 DEF OneHolderPerSlot
<1>7a. L \subseteq Conns /\ Leave(L)
  BY <1>1, <1>4, <1>5
<1>8. PICK left :
           /\ left = {d \in L : cstate[d] \notin {"CLOSING", "CLOSED"}}
           /\ opening' = opening \ L /\ resetPending' = resetPending \ left
           /\ connections' = connections \ left
           /\ bySlot' = [s \in Slots |-> IF bySlot[s] \in left THEN NoConn ELSE bySlot[s]]
           /\ modelOpen' = ClosedFor({d \in left : cstate[d] = "OPEN"})
           /\ cstate' = [d \in Conns |-> IF d \in left THEN "CLOSED" ELSE cstate[d]]
           /\ Drop(left) /\ pending' = DropPending(left)
           /\ BusyIsHeld' /\ waiting' \in Seq(Requests) /\ busy' \subseteq Conns
           /\ pending' \subseteq Pendings
           /\ WaitersAreOpen' /\ LinksEnd'
           /\ Delivered(Flushes(L), call)
  BY <1>7a, LeaveIs
<1>9. /\ gen' \in [Conns -> Nat] /\ generations' \in [Slots -> Nat]
      /\ \A d \in Conns : d # c => gen'[d] = gen[d]
  BY <1>1, <1>2, <1>3, GenerationIs
<1>10. Event.conn = c
  OBVIOUS
<1> HIDE DEF c
<1>11. Typed'
  <2>1. modelOpen' \in [Slots -> SUBSET Nat] /\ bySlot' \in [Slots -> Conns \union {NoConn}]
    BY <1>2, <1>8 DEF Typed, ServerTypeOK, ClosedFor
  <2>2. cstate' \in [Conns -> ConnectionStates]
    BY <1>2, <1>8 DEF Typed, ServerTypeOK, ConnectionStates
  <2> QED BY <1>1, <1>2, <1>8, <1>9, <2>1, <2>2
      DEF Typed, ServerTypeOK, Delivered, Calls, life, client
<1>12. OneHolderPerSlot' /\ ModelMirrors'
  <2>1. left \subseteq Conns
    BY <1>5, <1>8
  <2>2. \A d \in Conns : cstate'[d] = "OPEN" <=> cstate[d] = "OPEN" /\ d \notin left
    BY <1>8
  <2>3. \A d \in connections : gen'[d] = gen[d]
    BY <1>2, <1>6, <1>9 DEF Typed, ServerTypeOK
  <2>4. at # "resetting" /\ at' # "resetting" /\ slot' = slot
    BY <1>1
  <2> QED BY <1>8, <1>11, <2>1, <2>2, <2>3, <2>4, LeftCore
<1>13. ThreadInHand'
  <2>1. cstate'[c] = "OPENING"
    BY <1>1, <1>2, <1>5, <1>8
  <2>2. bySlot'[slot'[c]] = NoConn
    BY <1>1, <1>3, <1>7, <1>8
  <2> QED BY <1>1, <1>2, <1>10, <2>1, <2>2 DEF ThreadInHand
<1>14. ServerTold'
  BY <1>1 DEF SlotsInv, ServerTold, life
<1>15. OnTheWay'
  <2>1. \A e \in Range(events) \union Range(todo) : e.conn \in Conns
    BY <1>2, EventsAre
  <2>2. \A d \in Conns : cstate'[d] = cstate[d] \/ cstate'[d] = "CLOSED"
    BY <1>8
  <2>3. \A d \in Conns : cstate'[d] \in {"CONNECTING", "OPENING"} => d \notin L
    BY <1>8
  <2>4. slot' = slot /\ events' = events /\ opening' = opening \ L /\ todo' = todo
    BY <1>1, <1>8
  <2> QED BY <2>1, <2>2, <2>3, <2>4 DEF SlotsInv, OnTheWay
<1>16. StopReleasesAll'
  BY <1>1, <1>14, NotStopped
<1> QED BY <1>8, <1>11, <1>12, <1>13, <1>14, <1>15, <1>16 DEF SlotsInv

\* A step that ends an event without closing or opening a session.
LEMMA EventEndsSlots ==
  ASSUME SlotsInv, NEW M, NEW W, Delivered(M, W), EventDone,
         at \in {"events", "opening"}, opening' \subseteq opening, resetPending' \subseteq resetPending,
         cstate' \in [Conns -> ConnectionStates],
         \A c \in Conns : /\ cstate'[c] = "OPEN" <=> cstate[c] = "OPEN"
                          /\ cstate'[c] = "none" <=> cstate[c] = "none"
                          /\ cstate'[c] \in {"CONNECTING", "OPENING"} =>
                               cstate'[c] = cstate[c] /\ c \in opening'
                          /\ cstate'[c] \in {"CLOSING", "CLOSED"} /\ up'[c] =>
                               cstate'[c] = cstate[c] \/ Closes(c)',
         UNCHANGED <<life, slot, gen, reading, connections, bySlot, generations, events, policy,
                     pending, refusing, modelOpen, client>>
  PROVE  SlotsInv'
<1>1. Typed /\ todo # <<>> /\ stop # "done"
  BY InHand DEF SlotsInv
<1>2. /\ todo' \in Seq(Events) /\ Range(todo') \subseteq Range(todo)
      /\ at' \in {"loop", "events"} /\ (at' = "events" <=> todo' # <<>>)
  BY <1>1, EventDoneIs
<1> USE DEF SlotsInv, life, policy, client
<1>3. Typed'
  BY <1>2 DEF Typed, ServerTypeOK, Delivered, Calls
<1>4. ThreadInHand'
  BY <1>2 DEF ThreadInHand
<1>5. ServerTold'
  BY <1>2 DEF ServerTold
<1>6. OnTheWay'
  <2>1. \A e \in Range(events) \union Range(todo) : e.conn \in Conns
    BY <1>1, EventsAre
  <2>2. \A c \in Conns : cstate'[c] \in {"OPENING", "OPEN"} => slot[c] \in Slots
    BY DEF OnTheWay
  <2>3. \A c \in Conns : cstate'[c] \in {"none", "CONNECTING"} => cstate[c] = cstate'[c]
    OBVIOUS
  <2> QED BY <1>2, <2>1, <2>2, <2>3 DEF OnTheWay
<1>7. LinksEnd'
  <2>1. SUFFICES ASSUME NEW c \in Conns, up'[c]
                 PROVE  /\ cstate'[c] # "none"
                        /\ cstate'[c] \in {"CLOSING", "CLOSED"} => Closes(c)'
    BY DEF LinksEnd
  <2>2. up[c] /\ (Closes(c) => Closes(c)')
    BY <2>1 DEF Delivered, Closes
  <2> QED BY <2>1, <2>2 DEF LinksEnd
<1>8. OneHolderPerSlot'
  BY DEF OneHolderPerSlot
<1>9. ModelMirrors'
  <2>1. \A d \in Conns : ~Resetting(d)' /\ ~Resetting(d)
    BY <1>2 DEF Resetting
  <2> QED BY <1>1, <2>1 DEF ModelMirrors, Typed, ServerTypeOK
<1>10. WaitersAreOpen' /\ BusyIsHeld'
  BY KeepBusy DEF WaitersAreOpen
<1>11. StopReleasesAll'
  BY <1>1 DEF StopReleasesAll
<1> QED BY <1>3, <1>4, <1>5, <1>6, <1>7, <1>8, <1>9, <1>10, <1>11

-------------------------------------------------------------------------------
(* The ends of an open.                                                    *)

\* What a failed open posts: the end of its link, and no answer.
LEMMA OpenFailsPosts ==
  ASSUME SlotsInv, OpenFails
  PROVE  \E M : /\ M \in [Conns -> Seq(Messages)] /\ Delivered(M, call)
                /\ \A d \in Conns : \A i \in RequestIds : ~Mentions(M[d], i)
                /\ \E m \in Range(M[Event.conn]) : m.kind \in {"flush", "refused"}
                /\ \A d \in Conns : \A m \in Range(M[d]) : m.kind \in {"flush", "refused"}
<1>1. Typed /\ Event.conn \in Conns /\ 0 \notin RequestIds
  BY InHand DEF SlotsInv, OpenFails, RequestIds
<1>2. PICK c \in Conns : c = Event.conn
  BY <1>1
<1>3. PICK refused : refused = Answer("refused", 0, 0)
  OBVIOUS
<1>4. refused \in Messages /\ refused.kind = "refused" /\ refused.id = 0
  BY <1>3, AnswerIs
<1>5. Post(To(c, <<refused, Flush>>)) \/ Post(To(c, <<Flush>>))
  BY <1>2, <1>3 DEF OpenFails
<1>6. PICK ms \in Seq(Messages) : /\ Post(To(c, ms)) /\ Flush \in Range(ms)
                                  /\ \A i \in RequestIds : ~Mentions(ms, i)
                                  /\ Range(ms) \subseteq {refused, Flush}
  <2>1. /\ <<Flush>> \in Seq(Messages) /\ Range(<<Flush>>) = {Flush}
        /\ \A i \in RequestIds : ~Mentions(<<Flush>>, i)
    BY <1>1, FlushIs, OneMessage
  <2>2. /\ <<refused, Flush>> \in Seq(Messages) /\ Range(<<refused, Flush>>) = {refused, Flush}
        /\ \A i \in RequestIds : ~Mentions(<<refused, Flush>>, i)
    BY <1>1, <1>4, FlushIs, TwoMessages
  <2>3. CASE Post(To(c, <<refused, Flush>>))
    BY <2>2, <2>3
  <2>4. CASE Post(To(c, <<Flush>>))
    BY <2>1, <2>4
  <2> QED BY <1>5, <2>3, <2>4
<1>7. PICK M : M = To(c, ms)
  OBVIOUS
<1>8. /\ M \in [Conns -> Seq(Messages)] /\ M[c] = ms
      /\ \A d \in Conns : d # c => M[d] = <<>>
  BY <1>7, ToIs
<1>9. Delivered(M, call)
  BY <1>1, <1>6, <1>7, <1>8, PostNow
<1>10. \A d \in Conns : \A i \in RequestIds : ~Mentions(M[d], i)
  BY <1>6, <1>8, NoMessage
<1>11. \A d \in Conns : \A m \in Range(M[d]) : m.kind \in {"flush", "refused"}
  BY <1>4, <1>6, <1>8, NoMessage, FlushIs
<1> QED BY <1>2, <1>6, <1>8, <1>9, <1>10, <1>11, FlushIs

LEMMA OpenFailsSlots ==
  ASSUME SlotsInv, OpenFails
  PROVE  SlotsInv'
<1>1. PICK c : c = Event.conn
  OBVIOUS
<1>2. /\ at = "opening" /\ opening' = opening \ {c} /\ EventDone
      /\ cstate' = [cstate EXCEPT ![c] = "CLOSING"]
      /\ modelOpen' \in {modelOpen, OpenedTooLate(c)}
      /\ UNCHANGED <<life, slot, gen, reading, connections, bySlot, resetPending, generations,
                     events, policy, pending, refusing, client>>
  BY <1>1 DEF OpenFails
<1>3. Typed /\ c \in Conns /\ cstate[c] = "OPENING" /\ bySlot[slot[c]] = NoConn /\ slot[c] \in Slots
  BY <1>1, <1>2, InHand DEF SlotsInv, ThreadInHand, OnTheWay
<1>4. modelOpen' = modelOpen
  <2>1. Mirrored
    BY MirrorSays DEF SlotsInv
  <2>2. modelOpen \in [Slots -> SUBSET Nat] /\ modelOpen[slot[c]] = {}
    BY <1>3, <2>1 DEF Mirrored, Typed, ServerTypeOK
  <2>3. OpenedTooLate(c) = modelOpen
    BY <1>3, <2>2 DEF OpenedTooLate
  <2> QED BY <1>2, <2>3
<1>5. PICK M : /\ Delivered(M, call)
               /\ \E m \in Range(M[c]) : m.kind \in {"flush", "refused"}
  BY <1>1, OpenFailsPosts
<1>6. cstate \in [Conns -> ConnectionStates] /\ cstate' \in [Conns -> ConnectionStates]
  BY <1>2, <1>3 DEF Typed, ServerTypeOK, ConnectionStates
<1>7. up'[c] => Closes(c)'
  BY <1>3, <1>5 DEF Delivered, Closes
<1>8. \A d \in Conns : d # c => cstate'[d] = cstate[d]
  BY <1>2, <1>6
<1>9. cstate'[c] = "CLOSING"
  BY <1>2, <1>3, <1>6
<1>10. \A d \in Conns :
         /\ cstate'[d] = "OPEN" <=> cstate[d] = "OPEN"
         /\ cstate'[d] = "none" <=> cstate[d] = "none"
         /\ cstate'[d] \in {"CONNECTING", "OPENING"} =>
              cstate'[d] = cstate[d] /\ d \in opening'
         /\ cstate'[d] \in {"CLOSING", "CLOSED"} /\ up'[d] =>
              cstate'[d] = cstate[d] \/ Closes(d)'
  <2> SUFFICES ASSUME NEW d \in Conns
               PROVE  /\ cstate'[d] = "OPEN" <=> cstate[d] = "OPEN"
                      /\ cstate'[d] = "none" <=> cstate[d] = "none"
                      /\ cstate'[d] \in {"CONNECTING", "OPENING"} =>
                           cstate'[d] = cstate[d] /\ d \in opening'
                      /\ cstate'[d] \in {"CLOSING", "CLOSED"} /\ up'[d] =>
                           cstate'[d] = cstate[d] \/ Closes(d)'
    OBVIOUS
  <2>1. CASE d = c
    BY <1>3, <1>7, <1>9, <2>1
  <2>2. CASE d # c
    BY <1>2, <1>8, <2>2 DEF SlotsInv, OnTheWay
  <2> QED BY <2>1, <2>2
<1>11. opening' \subseteq opening /\ resetPending' \subseteq resetPending
  BY <1>2
<1> QED BY <1>2, <1>4, <1>5, <1>6, <1>10, <1>11, EventEndsSlots

LEMMA OpenSkippedSlots ==
  ASSUME SlotsInv, OpenSkipped
  PROVE  SlotsInv'
<1>1. /\ at = "events" /\ Event.kind = "open" /\ EventDone
      /\ refusing \/ cstate[Event.conn] # "OPENING"
      /\ opening' = IF refusing THEN opening ELSE opening \ {Event.conn}
      /\ UNCHANGED <<life, conn, wires, connections, bySlot, resetPending, generations, events,
                     policy, pending, refusing, modelOpen, client>>
  BY DEF OpenSkipped, Applies
<1>2. Typed /\ Event.conn \in Conns /\ Event \in Range(todo)
  BY <1>1, InHand DEF SlotsInv
<1>3. cstate[Event.conn] # "CONNECTING"
  BY <1>1, <1>2 DEF SlotsInv, OnTheWay
<1>4. Delivered(Nothing, call)
  BY <1>1, <1>2, UnchangedLinks DEF wires
<1>5. cstate' = cstate /\ cstate \in [Conns -> ConnectionStates]
  BY <1>1, <1>2 DEF Typed, ServerTypeOK, conn
<1>6. \A d \in Conns : cstate[d] \in {"CONNECTING", "OPENING"} => d \in opening'
  BY <1>1, <1>3 DEF SlotsInv, OnTheWay
<1>7. opening' \subseteq opening /\ resetPending' \subseteq resetPending
  BY <1>1
<1>8. UNCHANGED <<life, slot, gen, reading, connections, bySlot, generations, events, policy,
                  pending, refusing, modelOpen, client>>
  BY <1>1 DEF conn
<1> QED BY <1>1, <1>4, <1>5, <1>6, <1>7, <1>8, EventEndsSlots

LEMMA ResetSkippedPosts ==
  ASSUME SlotsInv, ResetSkipped
  PROVE  \E M : /\ M \in [Conns -> Seq(Messages)] /\ Delivered(M, call)
                /\ \A d \in Conns : /\ Once(M[d])
                                    /\ \A i : Mentions(M[d], i) => d = Event.conn /\ i = Event.id
                /\ \A d \in Conns : \A m \in Range(M[d]) : m.kind = "reply"
<1>1. Typed /\ Event.conn \in Conns /\ Event.id \in Nat
  BY InHand DEF SlotsInv, ResetSkipped, Applies
<1>2. PICK c \in Conns : c = Event.conn
  BY <1>1
<1>3. PICK f : f = Failed(Event.id)
  OBVIOUS
<1>4. f \in Messages /\ f.kind = "reply" /\ f.id = Event.id
  BY <1>1, <1>3, FailedIs
<1>5. Post(To(c, <<f>>)) \/ Post(Nothing)
  BY <1>2, <1>3 DEF ResetSkipped
<1>6. CASE Post(To(c, <<f>>))
  <2>1. PICK M : M = To(c, <<f>>)
    OBVIOUS
  <2>2. /\ M \in [Conns -> Seq(Messages)] /\ M[c] = <<f>>
        /\ \A d \in Conns : d # c => M[d] = <<>>
    BY <1>4, <2>1, OneMessage, ToIs
  <2>3. Delivered(M, call)
    BY <1>1, <1>6, <2>1, <2>2, PostNow
  <2>4. \A d \in Conns : \A m \in Range(M[d]) : m.kind = "reply"
    BY <1>4, <2>2, OneMessage, NoMessage
  <2>5. \A d \in Conns : /\ Once(M[d])
                         /\ \A i : Mentions(M[d], i) => d = Event.conn /\ i = Event.id
    BY <1>2, <1>4, <2>2, OneMessage, NoMessage
  <2> QED BY <2>2, <2>3, <2>4, <2>5
<1>7. CASE Post(Nothing)
  <2>1. Delivered(Nothing, call)
    BY <1>1, <1>7, NothingIs, PostNow
  <2> QED BY <2>1, NothingIs, NoMessage
<1> QED BY <1>5, <1>6, <1>7

LEMMA ResetSkippedSlots ==
  ASSUME SlotsInv, ResetSkipped
  PROVE  SlotsInv'
<1>1. /\ at = "events" /\ EventDone /\ resetPending' \subseteq resetPending
      /\ UNCHANGED <<life, conn, opening, connections, bySlot, generations, events, policy,
                     pending, refusing, modelOpen, client>>
  BY DEF ResetSkipped, Applies
<1>2. PICK M : Delivered(M, call)
  BY ResetSkippedPosts
<1>3. cstate' = cstate /\ cstate \in [Conns -> ConnectionStates]
  BY <1>1 DEF SlotsInv, Typed, ServerTypeOK, conn
<1>4. \A d \in Conns : cstate[d] \in {"CONNECTING", "OPENING"} => d \in opening'
  BY <1>1 DEF SlotsInv, OnTheWay
<1>5. UNCHANGED <<life, slot, gen, reading, connections, bySlot, generations, events, policy,
                  pending, refusing, modelOpen, client>>
  BY <1>1 DEF conn
<1> QED BY <1>1, <1>2, <1>3, <1>4, <1>5, EventEndsSlots

\* Messages for one connection, posted.
LEMMA PostedTo ==
  ASSUME Typed, NEW c \in Conns, NEW ms \in Seq(Messages), Post(To(c, ms))
  PROVE  \E M : /\ M \in [Conns -> Seq(Messages)] /\ Delivered(M, call)
                /\ M[c] = ms /\ \A d \in Conns : d # c => M[d] = <<>>
<1>1. PICK M : M = To(c, ms)
  OBVIOUS
<1>2. /\ M \in [Conns -> Seq(Messages)] /\ M[c] = ms
      /\ \A d \in Conns : d # c => M[d] = <<>>
  BY <1>1, ToIs
<1>3. Delivered(M, call)
  BY <1>1, <1>2, PostNow
<1> QED BY <1>2, <1>3

LEMMA OpenSucceedsSlots ==
  ASSUME SlotsInv, OpenSucceeds
  PROVE  SlotsInv'
<1>1. PICK c : c = Event.conn
  OBVIOUS
<1>2. /\ at = "opening" /\ opening' = opening \ {c} /\ connections' = connections \union {c}
      /\ cstate' = [cstate EXCEPT ![c] = "OPEN"] /\ bySlot' = [bySlot EXCEPT ![slot[c]] = c]
      /\ modelOpen' = [modelOpen EXCEPT ![slot[c]] = @ \union {gen[c]}]
      /\ Post(To(c, <<Answer("welcome", 0, gen[c])>>)) /\ EventDone
      /\ UNCHANGED <<life, slot, gen, reading, resetPending, generations, events, policy, pending,
                     refusing, client>>
  BY <1>1 DEF OpenSucceeds
<1>3. /\ Typed /\ OneHolderPerSlot /\ c \in Conns /\ cstate[c] = "OPENING"
      /\ bySlot[slot[c]] = NoConn /\ slot[c] \in Slots /\ todo # <<>>
  BY <1>1, <1>2, InHand DEF SlotsInv, ThreadInHand, OnTheWay
<1>4. /\ cstate \in [Conns -> ConnectionStates] /\ bySlot \in [Slots -> Conns \union {NoConn}]
      /\ modelOpen \in [Slots -> SUBSET Nat] /\ gen[c] \in Nat /\ connections \subseteq Conns
  BY <1>3 DEF Typed, ServerTypeOK
<1>5. PICK m \in Messages : m = Answer("welcome", 0, gen[c])
  BY <1>4, AnswerIs
<1>6. PICK M : Delivered(M, call)
  <2>1. <<m>> \in Seq(Messages) /\ Post(To(c, <<m>>))
    BY <1>2, <1>5, OneMessage
  <2> QED BY <1>3, <2>1, PostedTo
<1>7. /\ todo' \in Seq(Events) /\ Range(todo') \subseteq Range(todo)
      /\ at' \in {"loop", "events"} /\ (at' = "events" <=> todo' # <<>>)
  BY <1>2, <1>3, EventDoneIs
<1>8. /\ cstate'[c] = "OPEN" /\ \A d \in Conns : d # c => cstate'[d] = cstate[d]
      /\ cstate' \in [Conns -> ConnectionStates]
  BY <1>2, <1>3, <1>4 DEF ConnectionStates
<1>9. /\ bySlot' \in [Slots -> Conns \union {NoConn}] /\ bySlot'[slot[c]] = c
      /\ \A s \in Slots : s # slot[c] => bySlot'[s] = bySlot[s]
  BY <1>2, <1>3, <1>4
<1>10. /\ modelOpen' \in [Slots -> SUBSET Nat]
       /\ modelOpen'[slot[c]] = modelOpen[slot[c]] \union {gen[c]}
       /\ \A s \in Slots : s # slot[c] => modelOpen'[s] = modelOpen[s]
  BY <1>2, <1>3, <1>4
<1>11. Typed'
  BY <1>2, <1>3, <1>6, <1>7, <1>8, <1>9, <1>10
     DEF Typed, ServerTypeOK, Delivered, Calls, life, policy, client
<1>12. OneHolderPerSlot'
  <2>1. connections' = {d \in Conns : cstate'[d] = "OPEN"}
    BY <1>2, <1>3, <1>8 DEF OneHolderPerSlot
  <2>2. ASSUME NEW d \in connections' PROVE bySlot'[slot'[d]] = d
    <3>1. CASE d = c
      BY <1>2, <1>9, <3>1
    <3>2. CASE d # c
      <4>1. d \in connections /\ cstate[d] = "OPEN" /\ d \in Conns /\ bySlot[slot[d]] = d
        BY <1>2, <1>3, <1>4, <3>2 DEF OneHolderPerSlot
      <4>2. slot[d] \in Slots /\ slot[d] # slot[c]
        BY <1>3, <4>1, ConnsAssumption DEF SlotsInv, OnTheWay
      <4> QED BY <1>2, <1>9, <4>1, <4>2
    <3> QED BY <3>1, <3>2
  <2>3. ASSUME NEW s \in Slots, bySlot'[s] # NoConn
        PROVE  bySlot'[s] \in connections' /\ slot'[bySlot'[s]] = s
    <3>1. CASE s = slot[c]
      BY <1>2, <1>9, <3>1
    <3>2. CASE s # slot[c]
      BY <1>2, <1>3, <1>9, <2>3, <3>2 DEF OneHolderPerSlot
    <3> QED BY <3>1, <3>2
  <2> QED BY <2>1, <2>2, <2>3 DEF OneHolderPerSlot
<1>13. Mirrored'
  <2>1. Mirrored
    BY MirrorSays DEF SlotsInv
  <2>2. \A d : ~Resetting(d) /\ ~Resetting(d)'
    BY <1>2, <1>7 DEF Resetting
  <2>3. ASSUME NEW s \in Slots
        PROVE  modelOpen'[s] = IF bySlot'[s] = NoConn THEN {} ELSE {gen'[bySlot'[s]]}
    <3>1. CASE s = slot[c]
      <4>1. modelOpen[s] = {}
        BY <1>3, <2>1, <3>1 DEF Mirrored
      <4>2. c # NoConn
        BY <1>3, ConnsAssumption
      <4> QED BY <1>2, <1>9, <1>10, <3>1, <4>1, <4>2
    <3>2. CASE s # slot[c]
      BY <1>2, <1>9, <1>10, <2>1, <2>2, <3>2 DEF Mirrored
    <3> QED BY <3>1, <3>2
  <2> QED BY <2>2, <2>3 DEF Mirrored
<1>14. ModelMirrors'
  BY <1>11, <1>12, <1>13, MirrorNext
<1>15. ThreadInHand'
  BY <1>7 DEF ThreadInHand
<1>16. ServerTold'
  BY <1>2, <1>7 DEF SlotsInv, ServerTold, life
<1>17. OnTheWay'
  <2>1. \A e \in Range(events) \union Range(todo) : e.conn \in Conns
    BY <1>3, EventsAre
  <2>2. slot' = slot /\ events' = events /\ opening' = opening \ {c}
    BY <1>2
  <2>3. \A d \in Conns : cstate'[d] \in {"CONNECTING", "OPENING"} => cstate[d] = cstate'[d] /\ d # c
    BY <1>8
  <2>4. \A d \in Conns : cstate'[d] \in {"OPENING", "OPEN"} => slot[d] \in Slots
    BY <1>3, <1>8 DEF SlotsInv, OnTheWay
  <2>5. \A d \in Conns : cstate'[d] \in {"none", "CONNECTING"} => cstate[d] = cstate'[d]
    BY <1>8
  <2> QED BY <1>7, <2>1, <2>2, <2>3, <2>4, <2>5 DEF SlotsInv, OnTheWay
<1>18. LinksEnd'
  <2>1. \A d \in Conns : up'[d] => up[d] /\ (Closes(d) => Closes(d)')
    BY <1>6 DEF Delivered, Closes
  <2>2. \A d \in Conns : cstate'[d] \in {"none", "CLOSING", "CLOSED"} => cstate[d] = cstate'[d]
    BY <1>8
  <2> QED BY <2>1, <2>2 DEF SlotsInv, LinksEnd
<1>19. WaitersAreOpen' /\ BusyIsHeld'
  BY <1>2, KeepBusy DEF SlotsInv, WaitersAreOpen, policy
<1>20. StopReleasesAll'
  BY <1>7, <1>16, NotStopped
<1> QED BY <1>11, <1>12, <1>14, <1>15, <1>16, <1>17, <1>18, <1>19, <1>20 DEF SlotsInv

-------------------------------------------------------------------------------
(* A reset.                                                                *)

\* What a reset takes from the old generation: requests still owed an answer.
LEMMA ResetBeginsPosts ==
  ASSUME SlotsInv, ResetBegins
  PROVE  \E R : /\ \A r \in R : r \in WaitingOf({Event.conn}) \/
                      (r \in pending /\ r.conn = Event.conn /\ r.future /\ Awaited(r))
                /\ \A r \in R : r.id \in RequestIds
                /\ Delivered([d \in Conns |-> Failures(d, R)], call)
<1>1. PICK R : R = WaitingOf({Event.conn}) \union
                   {p \in pending : p.conn = Event.conn /\ p.future /\ Awaited(p)}
  OBVIOUS
<1>2. Post([d \in Conns |-> Failures(d, R)])
  BY <1>1 DEF ResetBegins
<1>3. Typed /\ \A w \in Range(waiting) : w \in Requests
  BY BusySays DEF SlotsInv
<1>4. \A p \in pending : p.id \in RequestIds
  BY <1>3 DEF Typed, ServerTypeOK, Pendings
<1>5. \A w \in WaitingOf({Event.conn}) : w.id \in RequestIds
  BY <1>3, RequestIs DEF WaitingOf
<1>6. \A r \in R : r.id \in RequestIds
  BY <1>1, <1>4, <1>5
<1> QED BY <1>1, <1>2, <1>3, <1>6, FailuresPosted

LEMMA ResetBeginsSlots ==
  ASSUME SlotsInv, ResetBegins
  PROVE  SlotsInv'
<1>1. PICK c : c = Event.conn
  OBVIOUS
<1>2. /\ at = "events" /\ Event.kind = "reset" /\ cstate[c] = "OPEN"
      /\ Drop({c}) /\ pending' = DropPending({c})
      /\ modelOpen' = ClosedFor({c}) /\ NextGeneration(c) /\ at' = "resetting"
      /\ UNCHANGED <<life, cstate, slot, reading, opening, connections, bySlot, resetPending,
                     events, todo, refusing, client>>
  BY <1>1 DEF ResetBegins, Applies
<1>3. Typed /\ OneHolderPerSlot /\ BusyIsHeld /\ c \in Conns /\ todo # <<>> /\ Event' = Event
  BY <1>1, <1>2, InHand DEF SlotsInv, Event
<1>4. slot[c] \in Slots /\ c \in connections /\ bySlot[slot[c]] = c
  BY <1>2, <1>3 DEF SlotsInv, OnTheWay, OneHolderPerSlot
<1>5. PICK M : Delivered(M, call)
  BY ResetBeginsPosts
<1>6. /\ BusyIsHeld' /\ waiting' \in Seq(Requests) /\ busy' \subseteq Conns
      /\ pending' \subseteq Pendings
      /\ \A w \in Range(waiting') : w \in Range(waiting)
  BY <1>2, <1>3, DropBusy
<1>7. /\ gen' \in [Conns -> Nat] /\ generations' \in [Slots -> Nat]
      /\ \A d \in Conns : d # c => gen'[d] = gen[d]
  BY <1>2, <1>3, <1>4, GenerationIs
<1>8. Typed'
  <2>1. modelOpen' \in [Slots -> SUBSET Nat]
    BY <1>2, <1>3 DEF Typed, ServerTypeOK, ClosedFor
  <2> QED BY <1>2, <1>3, <1>5, <1>6, <1>7, <2>1
      DEF Typed, ServerTypeOK, Delivered, Calls, life, client
<1>9. OneHolderPerSlot'
  BY <1>2, <1>3, KeepHolders
<1>10. Mirrored'
  <2>1. Mirrored
    BY MirrorSays DEF SlotsInv
  <2>2. \A d : ~Resetting(d) /\ (Resetting(d)' <=> d = c)
    BY <1>1, <1>2, <1>3 DEF Resetting
  <2>3. ASSUME NEW s \in Slots
        PROVE  modelOpen'[s] = IF bySlot'[s] = NoConn \/ bySlot'[s] = c THEN {} ELSE {gen'[bySlot'[s]]}
    <3>1. modelOpen'[s] = modelOpen[s] \ {gen[d] : d \in {d \in {c} : slot[d] = s}}
      BY <1>2 DEF ClosedFor
    <3>2. bySlot' = bySlot /\ bySlot[s] \in Conns \union {NoConn}
      BY <1>2, <1>3 DEF Typed, ServerTypeOK
    <3>3. modelOpen[s] = IF bySlot[s] = NoConn THEN {} ELSE {gen[bySlot[s]]}
      BY <2>1, <2>2 DEF Mirrored
    <3>4. CASE s = slot[c]
      <4>1. modelOpen[s] = {gen[c]}
        BY <1>3, <1>4, <3>3, <3>4, ConnsAssumption
      <4>2. gen[c] \in {gen[d] : d \in {d \in {c} : slot[d] = s}}
        BY <3>4
      <4> QED BY <1>4, <3>1, <3>2, <3>4, <4>1, <4>2
    <3>5. CASE s # slot[c]
      <4>1. {d \in {c} : slot[d] = s} = {}
        BY <3>5
      <4>2. bySlot[s] # c
        BY <1>3, <1>4, <3>5, ConnsAssumption DEF OneHolderPerSlot
      <4>3. modelOpen'[s] = modelOpen[s]
        BY <3>1, <4>1
      <4> QED BY <1>7, <3>2, <3>3, <4>2, <4>3
    <3> QED BY <3>4, <3>5
  <2> QED BY <2>2, <2>3 DEF Mirrored
<1>11. ModelMirrors'
  BY <1>8, <1>9, <1>10, MirrorNext
<1>12. ThreadInHand'
  BY <1>1, <1>2, <1>3 DEF ThreadInHand
<1>13. ServerTold'
  BY <1>2 DEF SlotsInv, ServerTold, life
<1>14. OnTheWay' /\ LinksEnd'
  BY <1>2, <1>5, KeepWay, KeepLinks DEF SlotsInv
<1>15. WaitersAreOpen'
  BY <1>2, <1>6 DEF SlotsInv, WaitersAreOpen
<1>16. StopReleasesAll'
  BY <1>2, <1>13, NotStopped
<1> QED BY <1>6, <1>8, <1>9, <1>11, <1>12, <1>13, <1>14, <1>15, <1>16 DEF SlotsInv

LEMMA ResetSucceedsSlots ==
  ASSUME SlotsInv, ResetSucceeds
  PROVE  SlotsInv'
<1>1. PICK c : c = Event.conn
  OBVIOUS
<1>2. /\ at = "resetting" /\ modelOpen' = [modelOpen EXCEPT ![slot[c]] = @ \union {gen[c]}]
      /\ resetPending' = resetPending \ {c}
      /\ Post(To(c, <<Answer("done", Event.id, gen[c])>>)) /\ EventDone
      /\ UNCHANGED <<life, conn, opening, connections, bySlot, generations, events, policy, pending,
                     refusing, client>>
  BY <1>1 DEF ResetSucceeds
<1>3. /\ Typed /\ OneHolderPerSlot /\ c \in Conns /\ Event.id \in Nat /\ cstate[c] = "OPEN"
      /\ todo # <<>>
  BY <1>1, <1>2, InHand DEF SlotsInv, ThreadInHand
<1>4. slot[c] \in Slots /\ c \in connections /\ bySlot[slot[c]] = c
  BY <1>2, <1>3 DEF SlotsInv, OnTheWay, OneHolderPerSlot
<1>5. gen[c] \in Nat /\ modelOpen \in [Slots -> SUBSET Nat]
  BY <1>3 DEF Typed, ServerTypeOK
<1>6. PICK m \in Messages : m = Answer("done", Event.id, gen[c])
  BY <1>3, <1>5, AnswerIs
<1>7. PICK M : Delivered(M, call)
  <2>1. <<m>> \in Seq(Messages) /\ Post(To(c, <<m>>))
    BY <1>2, <1>6, OneMessage
  <2> QED BY <1>3, <2>1, PostedTo
<1>8. /\ todo' \in Seq(Events) /\ Range(todo') \subseteq Range(todo)
      /\ at' \in {"loop", "events"} /\ (at' = "events" <=> todo' # <<>>)
  BY <1>2, <1>3, EventDoneIs
<1>9. /\ modelOpen' \in [Slots -> SUBSET Nat]
      /\ modelOpen'[slot[c]] = modelOpen[slot[c]] \union {gen[c]}
      /\ \A s \in Slots : s # slot[c] => modelOpen'[s] = modelOpen[s]
  BY <1>2, <1>4, <1>5
<1>10. Typed'
  BY <1>2, <1>3, <1>7, <1>8, <1>9
     DEF Typed, ServerTypeOK, Delivered, Calls, life, conn, policy, client
<1>11. OneHolderPerSlot'
  BY <1>2, <1>3, KeepHolders DEF conn
<1>12. Mirrored'
  <2>1. Mirrored
    BY MirrorSays DEF SlotsInv
  <2>2. \A d : (Resetting(d) <=> d = c) /\ ~Resetting(d)'
    BY <1>1, <1>2, <1>8 DEF Resetting
  <2>3. ASSUME NEW s \in Slots
        PROVE  modelOpen'[s] = IF bySlot'[s] = NoConn THEN {} ELSE {gen'[bySlot'[s]]}
    <3>1. bySlot' = bySlot /\ gen' = gen
      BY <1>2 DEF conn
    <3>2. modelOpen[s] = IF bySlot[s] = NoConn \/ bySlot[s] = c THEN {} ELSE {gen[bySlot[s]]}
      BY <2>1, <2>2 DEF Mirrored
    <3>3. CASE s = slot[c]
      BY <1>3, <1>4, <1>9, <3>1, <3>2, <3>3, ConnsAssumption
    <3>4. CASE s # slot[c]
      <4>1. bySlot[s] # c
        BY <1>3, <1>4, <3>4, ConnsAssumption DEF OneHolderPerSlot
      <4> QED BY <1>9, <3>1, <3>2, <3>4, <4>1
    <3> QED BY <3>3, <3>4
  <2> QED BY <2>2, <2>3 DEF Mirrored
<1>13. ModelMirrors'
  BY <1>10, <1>11, <1>12, MirrorNext
<1>14. ThreadInHand'
  BY <1>8 DEF ThreadInHand
<1>15. ServerTold'
  BY <1>2, <1>8 DEF SlotsInv, ServerTold, life
<1>16. OnTheWay' /\ LinksEnd'
  <2>1. OnTheWay'
    BY <1>2, <1>8 DEF SlotsInv, OnTheWay, conn
  <2>2. LinksEnd'
    BY <1>2, <1>7, KeepLinks DEF SlotsInv, conn
  <2> QED BY <2>1, <2>2
<1>17. WaitersAreOpen' /\ BusyIsHeld'
  BY <1>2, KeepBusy DEF SlotsInv, WaitersAreOpen, policy
<1>18. StopReleasesAll'
  BY <1>8, <1>15, NotStopped
<1> QED BY <1>10, <1>11, <1>13, <1>14, <1>15, <1>16, <1>17, <1>18 DEF SlotsInv

\* What a refused reset posts: its failure and the end of the link.
LEMMA ResetFailsPosts ==
  ASSUME SlotsInv, ResetFails
  PROVE  \E M : /\ M \in [Conns -> Seq(Messages)] /\ Delivered(M, call)
                /\ Flush \in Range(M[Event.conn])
                /\ \A d \in Conns :
                     /\ Once(M[d])
                     /\ \A i \in RequestIds : Mentions(M[d], i) => d = Event.conn /\ i = Event.id
                     /\ \A m \in Range(M[d]) : m.kind \in {"reply", "flush"}
<1>1. Typed /\ Event.conn \in Conns /\ Event.id \in Nat /\ 0 \notin RequestIds
  BY InHand DEF SlotsInv, ResetFails, RequestIds
<1>2. PICK c \in Conns : c = Event.conn
  BY <1>1
<1>3. PICK f : f = Failed(Event.id)
  OBVIOUS
<1>4. f \in Messages /\ f.kind = "reply" /\ f.id = Event.id
  BY <1>1, <1>3, FailedIs
<1>5. /\ <<f, Flush>> \in Seq(Messages) /\ Range(<<f, Flush>>) = {f, Flush} /\ Once(<<f, Flush>>)
      /\ \A i \in RequestIds : Mentions(<<f, Flush>>, i) => i = f.id
  BY <1>1, <1>4, FlushIs, TwoMessages
<1>6. PICK ms \in Seq(Messages) : ms = <<f, Flush>>
  BY <1>5
<1>7. Post(To(c, ms))
  BY <1>2, <1>3, <1>6 DEF ResetFails
<1>8. PICK M : /\ M \in [Conns -> Seq(Messages)] /\ Delivered(M, call)
               /\ M[c] = ms /\ \A d \in Conns : d # c => M[d] = <<>>
  BY <1>1, <1>7, PostedTo
<1>9. \A d \in Conns :
        /\ Once(M[d])
        /\ \A i \in RequestIds : Mentions(M[d], i) => d = Event.conn /\ i = Event.id
        /\ \A m \in Range(M[d]) : m.kind \in {"reply", "flush"}
  BY <1>2, <1>4, <1>5, <1>6, <1>8, NoMessage, FlushIs
<1> QED BY <1>2, <1>5, <1>6, <1>8, <1>9

LEMMA ResetFailsSlots ==
  ASSUME SlotsInv, ResetFails
  PROVE  SlotsInv'
<1>1. PICK c : c = Event.conn
  OBVIOUS
<1>2. /\ at = "resetting" /\ Drop({c}) /\ pending' = DropPending({c})
      /\ resetPending' = resetPending \ {c} /\ connections' = connections \ {c}
      /\ bySlot' = [s \in Slots |-> IF bySlot[s] \in {c} THEN NoConn ELSE bySlot[s]]
      /\ cstate' = [cstate EXCEPT ![c] = "CLOSED"] /\ EventDone
      /\ UNCHANGED <<life, slot, gen, reading, opening, generations, events, refusing, modelOpen,
                     client>>
  BY <1>1 DEF ResetFails, Forget
<1>3. /\ Typed /\ OneHolderPerSlot /\ BusyIsHeld /\ c \in Conns /\ cstate[c] = "OPEN"
      /\ todo # <<>>
  BY <1>1, <1>2, InHand DEF SlotsInv, ThreadInHand
<1>4. slot[c] \in Slots /\ c \in connections /\ bySlot[slot[c]] = c
  BY <1>2, <1>3 DEF SlotsInv, OnTheWay, OneHolderPerSlot
<1>5. PICK M : Delivered(M, call) /\ Flush \in Range(M[c])
  BY <1>1, ResetFailsPosts
<1>6. /\ BusyIsHeld' /\ waiting' \in Seq(Requests) /\ busy' \subseteq Conns
      /\ pending' \subseteq Pendings
      /\ \A w \in Range(waiting') : w \in Range(waiting) /\ w.conn # c
  BY <1>2, <1>3, DropBusy
<1>7. /\ todo' \in Seq(Events) /\ Range(todo') \subseteq Range(todo)
      /\ at' \in {"loop", "events"} /\ (at' = "events" <=> todo' # <<>>)
  BY <1>2, <1>3, EventDoneIs
<1>8. /\ cstate'[c] = "CLOSED" /\ \A d \in Conns : d # c => cstate'[d] = cstate[d]
      /\ cstate' \in [Conns -> ConnectionStates]
  BY <1>2, <1>3 DEF Typed, ServerTypeOK, ConnectionStates
<1>9. /\ bySlot \in [Slots -> Conns \union {NoConn}]
      /\ bySlot' \in [Slots -> Conns \union {NoConn}]
      /\ \A s \in Slots : bySlot'[s] = IF bySlot[s] = c THEN NoConn ELSE bySlot[s]
  BY <1>2, <1>3 DEF Typed, ServerTypeOK
<1>10. Typed'
  BY <1>2, <1>3, <1>5, <1>6, <1>7, <1>8, <1>9
     DEF Typed, ServerTypeOK, Delivered, Calls, life, client
<1>11. OneHolderPerSlot'
  <2>1. connections' = {d \in Conns : cstate'[d] = "OPEN"}
    BY <1>2, <1>3, <1>8 DEF OneHolderPerSlot
  <2>2. ASSUME NEW d \in connections' PROVE bySlot'[slot'[d]] = d
    <3>1. d \in connections /\ d # c /\ d \in Conns
      BY <1>2, <1>3 DEF Typed, ServerTypeOK
    <3>2. bySlot[slot[d]] = d /\ slot[d] \in Slots
      BY <1>3, <3>1 DEF OneHolderPerSlot, SlotsInv, OnTheWay
    <3> QED BY <1>2, <1>9, <3>1, <3>2
  <2>3. ASSUME NEW s \in Slots, bySlot'[s] # NoConn
        PROVE  bySlot'[s] \in connections' /\ slot'[bySlot'[s]] = s
    BY <1>2, <1>3, <1>9, <2>3 DEF OneHolderPerSlot
  <2> QED BY <2>1, <2>2, <2>3 DEF OneHolderPerSlot
<1>12. Mirrored'
  <2>1. Mirrored
    BY MirrorSays DEF SlotsInv
  <2>2. \A d : (Resetting(d) <=> d = c) /\ ~Resetting(d)'
    BY <1>1, <1>2, <1>7 DEF Resetting
  <2>3. ASSUME NEW s \in Slots
        PROVE  modelOpen'[s] = IF bySlot'[s] = NoConn THEN {} ELSE {gen'[bySlot'[s]]}
    <3>1. modelOpen[s] = IF bySlot[s] = NoConn \/ bySlot[s] = c THEN {} ELSE {gen[bySlot[s]]}
      BY <2>1, <2>2 DEF Mirrored
    <3>2. modelOpen' = modelOpen /\ gen' = gen
      BY <1>2
    <3> QED BY <1>9, <3>1, <3>2
  <2> QED BY <2>2, <2>3 DEF Mirrored
<1>13. ModelMirrors'
  BY <1>10, <1>11, <1>12, MirrorNext
<1>14. ThreadInHand'
  BY <1>7 DEF ThreadInHand
<1>15. ServerTold'
  BY <1>2, <1>7 DEF SlotsInv, ServerTold, life
<1>16. OnTheWay'
  <2>1. \A e \in Range(events) \union Range(todo) : e.conn \in Conns
    BY <1>3, EventsAre
  <2>2. slot' = slot /\ events' = events /\ opening' = opening
    BY <1>2
  <2>3. \A d \in Conns : cstate'[d] # "CLOSED" => cstate[d] = cstate'[d]
    BY <1>8
  <2> QED BY <1>7, <2>1, <2>2, <2>3 DEF SlotsInv, OnTheWay
<1>17. LinksEnd'
  <2>1. \A d \in Conns : up'[d] => up[d] /\ (Closes(d) => Closes(d)')
    BY <1>5 DEF Delivered, Closes
  <2>2. up'[c] => Closes(c)'
    BY <1>3, <1>5, FlushIs DEF Delivered, Closes
  <2> QED BY <1>8, <2>1, <2>2 DEF SlotsInv, LinksEnd
<1>18. WaitersAreOpen'
  BY <1>2, <1>6 DEF SlotsInv, WaitersAreOpen
<1>19. StopReleasesAll'
  BY <1>7, <1>15, NotStopped
<1> QED BY <1>6, <1>10, <1>11, <1>13, <1>14, <1>15, <1>16, <1>17, <1>18, <1>19 DEF SlotsInv

-------------------------------------------------------------------------------
(* All of it answered at the end.                                          *)

\* Failures and the end of the link.
LEMMA ThenFlush ==
  ASSUME NEW s \in Seq(Messages), Once(s), NEW t, t = <<Flush>> \/ t = <<>>
  PROVE  /\ s \o t \in Seq(Messages) /\ Once(s \o t)
         /\ \A i : i # 0 /\ Mentions(s \o t, i) => Mentions(s, i)
         /\ Range(s \o t) = Range(s) \union Range(t)
<1>1. t \in Seq(Messages) /\ \A k \in DOMAIN t : t[k] = Flush
  <2>1. CASE t = <<Flush>>
    BY <2>1, FlushIs
  <2>2. CASE t = <<>>
    BY <2>2
  <2> QED BY <2>1, <2>2
<1>2. PICK u : u = s \o t
  OBVIOUS
<1>3. \A k \in DOMAIN u : \/ k \in DOMAIN s /\ u[k] = s[k]
                          \/ k - Len(s) \in DOMAIN t /\ u[k] = t[k - Len(s)]
  BY <1>1, <1>2
<1>4. \A k \in DOMAIN u : (k \in DOMAIN s /\ u[k] = s[k]) \/ u[k].id = 0
  BY <1>1, <1>3, FlushIs
<1>5. Once(u)
  BY <1>4 DEF Once
<1>6. \A i : i # 0 /\ Mentions(u, i) => Mentions(s, i)
  BY <1>4 DEF Mentions
<1>7. u \in Seq(Messages)
  BY <1>1, <1>2
<1> QED BY <1>1, <1>2, <1>5, <1>6, <1>7, RangeOfConcat

\* What _answer_in_flight posts: a failure for requests that wait for an answer,
\* and the end of the links it closes.
LEMMA InFlightPosts ==
  ASSUME SlotsInv, ResetsInOrder, NEW R, NEW ends,
         \A r \in R : \/ r \in pending /\ Awaited(r)
                      \/ r \in Resets(events)
                      \/ r \in Range(waiting),
         Post([c \in Conns |-> Failures(c, R) \o IF c \in ends THEN <<Flush>> ELSE <<>>])
  PROVE  \E M : /\ M \in [Conns -> Seq(Messages)] /\ Delivered(M, call)
                /\ \A c \in Conns :
                     /\ c \in ends => Flush \in Range(M[c])
                     /\ Once(M[c])
                     /\ \A i \in RequestIds : Mentions(M[c], i) => OwedStep(c, i) \/ OwedReset(c, i)
                     /\ \A m \in Range(M[c]) : m.kind \in {"reply", "flush"}
<1>1. Typed /\ 0 \notin RequestIds /\ \A w \in Range(waiting) : w \in Requests
  BY BusySays DEF SlotsInv, RequestIds
<1>2. \A r \in R : r.id \in RequestIds
  <2>1. \A p \in pending : p.id \in RequestIds
    BY <1>1 DEF Typed, ServerTypeOK, Pendings
  <2>2. \A w \in Range(waiting) : w.id \in RequestIds
    BY <1>1, RequestIs
  <2>3. \A e \in Resets(events) : e.id \in RequestIds
    BY DEF ResetsInOrder
  <2> QED BY <2>1, <2>2, <2>3
<1>3. PICK M : M = [c \in Conns |-> Failures(c, R) \o IF c \in ends THEN <<Flush>> ELSE <<>>]
  OBVIOUS
<1>4. ASSUME NEW c \in Conns
      PROVE  /\ M[c] \in Seq(Messages) /\ Once(M[c])
             /\ c \in ends => Flush \in Range(M[c])
             /\ \A i \in RequestIds : Mentions(M[c], i) => OwedStep(c, i) \/ OwedReset(c, i)
             /\ \A m \in Range(M[c]) : m.kind \in {"reply", "flush"}
  <2>1. PICK s : s = Failures(c, R)
    OBVIOUS
  <2>2. PICK t : t = IF c \in ends THEN <<Flush>> ELSE <<>>
    OBVIOUS
  <2>3. /\ s \in Seq(Messages) /\ Once(s)
        /\ \A k \in DOMAIN s : s[k].kind = "reply"
        /\ \A i : Mentions(s, i) => \E r \in R : r.conn = c /\ r.id = i
    BY <1>2, <2>1, FailuresAre
  <2>4. M[c] = s \o t
    BY <1>3, <2>1, <2>2
  <2>5. t = <<Flush>> \/ t = <<>>
    BY <2>2
  <2>6. /\ s \o t \in Seq(Messages) /\ Once(s \o t)
        /\ \A i : i # 0 /\ Mentions(s \o t, i) => Mentions(s, i)
        /\ Range(s \o t) = Range(s) \union Range(t)
    BY <2>3, <2>5, ThenFlush
  <2>7. c \in ends => Flush \in Range(t)
    BY <2>2, FlushIs, OneMessage
  <2>8. \A m \in Range(t) : m.kind = "flush"
    BY <2>5, FlushIs, OneMessage, NoMessage
  <2>9. \A m \in Range(s) : m.kind = "reply"
    BY <2>3 DEF Range
  <2>10. ASSUME NEW i \in RequestIds, Mentions(M[c], i) PROVE OwedStep(c, i) \/ OwedReset(c, i)
    <3>1. PICK r \in R : r.conn = c /\ r.id = i
      BY <1>1, <2>3, <2>4, <2>6, <2>10
    <3>2. CASE r \in pending /\ Awaited(r)
      BY <3>1, <3>2 DEF OwedStep
    <3>3. CASE r \in Resets(events)
      BY <3>1, <3>3 DEF OwedReset
    <3>4. CASE r \in Range(waiting)
      BY <3>1, <3>4 DEF OwedStep
    <3> QED BY <3>2, <3>3, <3>4
  <2> QED BY <2>4, <2>6, <2>7, <2>8, <2>9, <2>10
<1>5. M \in [Conns -> Seq(Messages)]
  BY <1>3, <1>4
<1>6. Delivered(M, call)
  BY <1>1, <1>3, <1>5, PostNow
<1> QED BY <1>4, <1>5, <1>6

\* What _answer_in_flight and the leaving of X do: those leaving by their own
\* event, those closed before they opened, those that left, and the messages.
InFlight(X, leaving, unopened, left, M) ==
  /\ leaving \subseteq Conns
  /\ left = {c \in leaving \union X : cstate[c] \notin {"CLOSING", "CLOSED"}}
  /\ unopened = {c \in opening : cstate[c] \in {"CONNECTING", "OPENING"}} \ leaving
  /\ events' = <<>> /\ pending' = {} /\ opening' = {} /\ waiting' = <<>> /\ busy' = {}
  /\ resetPending' \subseteq resetPending /\ generations' = generations
  /\ connections' = connections \ left
  /\ bySlot' = [s \in Slots |-> IF bySlot[s] \in left THEN NoConn ELSE bySlot[s]]
  /\ modelOpen' = ClosedFor({c \in left : cstate[c] = "OPEN"})
  /\ cstate' = [c \in Conns |-> IF c \in left THEN "CLOSED"
                                ELSE IF c \in unopened THEN "CLOSING" ELSE cstate[c]]
  /\ Delivered(M, call)
  /\ \A c \in Conns :
       /\ c \in left \union unopened => Flush \in Range(M[c])
       /\ Once(M[c])
       /\ \A i \in RequestIds : Mentions(M[c], i) => OwedStep(c, i) \/ OwedReset(c, i)
       /\ \A m \in Range(M[c]) : m.kind \in {"reply", "flush"}

LEMMA InFlightIs ==
  ASSUME SlotsInv, ResetsInOrder, NEW X, X \subseteq Conns, AnswerInFlight(X)
  PROVE  \E leaving, unopened, left, M : InFlight(X, leaving, unopened, left, M)
<1> DEFINE leaving  == {e.conn : e \in {e \in Range(events) : e.kind = "leave"}}
<1> DEFINE failed   == {p \in pending : Awaited(p)}
                         \union {e \in Range(events) : e.kind = "reset"} \union Unanswered(leaving)
<1> DEFINE unopened == Unopened(leaving)
<1> DEFINE left     == {c \in leaving \union X : cstate[c] \notin {"CLOSING", "CLOSED"}}
<1> DEFINE ends     == leaving \union X \union unopened
<1>1. /\ events' = <<>> /\ pending' = {} /\ opening' = {}
      /\ waiting' = Without(waiting, WaitingOf(connections))
      /\ busy' = busy \ (connections \union {p.conn : p \in {p \in pending : ~p.detached}})
      /\ resetPending' \subseteq resetPending /\ generations' = generations
      /\ connections' = connections \ left
      /\ bySlot' = [s \in Slots |-> IF bySlot[s] \in left THEN NoConn ELSE bySlot[s]]
      /\ modelOpen' = ClosedFor({c \in left : cstate[c] = "OPEN"})
      /\ cstate' = [c \in Conns |-> IF c \in left THEN "CLOSED"
                                    ELSE IF c \in unopened THEN "CLOSING" ELSE cstate[c]]
      /\ Post([c \in Conns |-> Failures(c, failed)
                 \o IF c \in ends THEN <<Flush>> ELSE <<>>])
  BY DEF AnswerInFlight
<1>2. Typed /\ BusyIsHeld /\ WaitersAreOpen
  BY DEF SlotsInv
<1>3. leaving \subseteq Conns
  BY <1>2, EventsAre
<1>4. \A r \in failed : \/ r \in pending /\ Awaited(r)
                        \/ r \in Resets(events)
                        \/ r \in Range(waiting)
  BY DEF Unanswered, WaitingOf, Resets
<1>5. unopened = {c \in opening : cstate[c] \in {"CONNECTING", "OPENING"}} \ leaving
  BY DEF Unopened
<1>6. left \subseteq ends /\ unopened \subseteq ends
  OBVIOUS
<1>7. left = {c \in leaving \union X : cstate[c] \notin {"CLOSING", "CLOSED"}}
  OBVIOUS
<1>8. waiting' = <<>>
  <2>1. waiting \in Seq(Requests) /\ DistinctConns(waiting)
    BY <1>2, BusySays DEF Typed, ServerTypeOK
  <2>2. waiting' \in Seq(Requests) /\ Range(waiting') = Range(waiting) \ WaitingOf(connections)
    BY <1>1, <2>1, WithoutDistinct
  <2>3. Range(waiting') = {}
    BY <1>2, <2>2 DEF WaitersAreOpen, WaitingOf
  <2>4. \A k \in DOMAIN waiting' : waiting'[k] \in Range(waiting')
    BY DEF Range
  <2>5. DOMAIN waiting' = {}
    BY <2>3, <2>4
  <2> QED BY <2>2, <2>5
<1>9. busy' = {}
  BY <1>1, <1>2, BusySays DEF WaitersAreOpen
<1> HIDE DEF leaving, failed, unopened, left, ends
<1>10. PICK M : /\ M \in [Conns -> Seq(Messages)] /\ Delivered(M, call)
                /\ \A c \in Conns :
                     /\ c \in ends => Flush \in Range(M[c])
                     /\ Once(M[c])
                     /\ \A i \in RequestIds : Mentions(M[c], i) => OwedStep(c, i) \/ OwedReset(c, i)
                     /\ \A m \in Range(M[c]) : m.kind \in {"reply", "flush"}
  BY <1>1, <1>4, InFlightPosts
<1>11. \A c \in Conns : c \in left \union unopened => Flush \in Range(M[c])
  BY <1>6, <1>10
<1>12. PICK l, u, f : l = leaving /\ u = unopened /\ f = left
  OBVIOUS
<1>13. /\ l \subseteq Conns
       /\ f = {c \in l \union X : cstate[c] \notin {"CLOSING", "CLOSED"}}
       /\ u = {c \in opening : cstate[c] \in {"CONNECTING", "OPENING"}} \ l
       /\ connections' = connections \ f
       /\ bySlot' = [s \in Slots |-> IF bySlot[s] \in f THEN NoConn ELSE bySlot[s]]
       /\ modelOpen' = ClosedFor({c \in f : cstate[c] = "OPEN"})
       /\ cstate' = [c \in Conns |-> IF c \in f THEN "CLOSED"
                                      ELSE IF c \in u THEN "CLOSING" ELSE cstate[c]]
       /\ \A c \in Conns : c \in f \union u => Flush \in Range(M[c])
  BY <1>1, <1>3, <1>5, <1>7, <1>11, <1>12
<1>14. InFlight(X, l, u, f, M)
  BY <1>1, <1>8, <1>9, <1>10, <1>13 DEF InFlight
<1> QED BY <1>14

LEMMA InFlightSlots ==
  ASSUME SlotsInv, ResetsInOrder, NEW X, X \in {{}, connections}, AnswerInFlight(X),
         at \in {"loop", "ended"}, at' = "ended", ServerTold',
         server' \in {"serving", "draining", "stopped"}, drain' \in {"idle", "joining", "done"},
         stop' \in {"idle", "joining", "done"}, drainLate' \in BOOLEAN,
         stop' = "done" => stop = "done" \/ X = connections,
         UNCHANGED <<slot, gen, reading, todo, refusing, client>>
  PROVE  SlotsInv'
<1>1. Typed /\ OneHolderPerSlot /\ connections \subseteq Conns /\ X \subseteq Conns /\ todo = <<>>
  BY DEF SlotsInv, ThreadInHand, Typed, ServerTypeOK
<1>2. PICK leaving, unopened, left, M : InFlight(X, leaving, unopened, left, M)
  BY <1>1, InFlightIs
<1>3. /\ left = {c \in leaving \union X : cstate[c] \notin {"CLOSING", "CLOSED"}}
      /\ unopened = {c \in opening : cstate[c] \in {"CONNECTING", "OPENING"}} \ leaving
      /\ events' = <<>> /\ pending' = {} /\ opening' = {} /\ waiting' = <<>> /\ busy' = {}
      /\ resetPending' \subseteq resetPending /\ generations' = generations
      /\ connections' = connections \ left
      /\ bySlot' = [s \in Slots |-> IF bySlot[s] \in left THEN NoConn ELSE bySlot[s]]
      /\ modelOpen' = ClosedFor({c \in left : cstate[c] = "OPEN"})
      /\ Delivered(M, call) /\ left \subseteq Conns
  BY <1>1, <1>2 DEF InFlight
<1>4. cstate' = [c \in Conns |-> IF c \in left THEN "CLOSED"
                                 ELSE IF c \in unopened THEN "CLOSING" ELSE cstate[c]]
  BY <1>2 DEF InFlight
<1>5. \A c \in Conns : c \in left \union unopened => Flush \in Range(M[c])
  BY <1>2 DEF InFlight
<1>6. Typed'
  <2>1. modelOpen' \in [Slots -> SUBSET Nat] /\ bySlot' \in [Slots -> Conns \union {NoConn}]
    BY <1>1, <1>3 DEF Typed, ServerTypeOK, ClosedFor
  <2>2. cstate' \in [Conns -> ConnectionStates]
    BY <1>1, <1>4 DEF Typed, ServerTypeOK, ConnectionStates
  <2> QED BY <1>1, <1>3, <2>1, <2>2
      DEF Typed, ServerTypeOK, Delivered, Calls, client
<1>7. \A c \in Conns :
        /\ cstate'[c] = "OPEN" <=> cstate[c] = "OPEN" /\ c \notin left
        /\ cstate'[c] # cstate[c] => c \in left \union unopened /\ cstate[c] # "CLOSED"
        /\ cstate'[c] \in {"none", "CONNECTING", "OPENING"} =>
             cstate'[c] = cstate[c] /\ c \notin left \union unopened
  <2>1. \A c \in Conns : c \in left \union unopened => cstate[c] # "CLOSED"
    BY <1>3
  <2>2. \A c \in Conns : c \in unopened => cstate[c] # "OPEN"
    BY <1>3
  <2>3. ASSUME NEW c \in Conns
        PROVE  /\ cstate'[c] = "OPEN" <=> cstate[c] = "OPEN" /\ c \notin left
               /\ cstate'[c] # cstate[c] => c \in left \union unopened /\ cstate[c] # "CLOSED"
               /\ cstate'[c] \in {"none", "CONNECTING", "OPENING"} =>
                    cstate'[c] = cstate[c] /\ c \notin left \union unopened
    <3>1. CASE c \in left
      BY <1>4, <2>1, <3>1
    <3>2. CASE c \notin left /\ c \in unopened
      BY <1>4, <2>1, <2>2, <3>2
    <3>3. CASE c \notin left /\ c \notin unopened
      BY <1>4, <3>3
    <3> QED BY <3>1, <3>2, <3>3
  <2> QED BY <2>3
<1>8. OneHolderPerSlot' /\ ModelMirrors'
  BY <1>1, <1>3, <1>6, <1>7, LeftCore
<1>9. ThreadInHand'
  BY <1>1 DEF ThreadInHand
<1>10. OnTheWay'
  <2>1. \A c \in Conns : cstate'[c] \notin {"CONNECTING", "OPENING"}
    BY <1>3, <1>7 DEF SlotsInv, OnTheWay
  <2>2. Range(events') \union Range(todo') = {}
    BY <1>1, <1>3 DEF Range
  <2> QED BY <1>7, <2>1, <2>2 DEF SlotsInv, OnTheWay
<1>11. LinksEnd'
  <2>1. \A c \in Conns : up'[c] => up[c] /\ (Closes(c) => Closes(c)')
    BY <1>3 DEF Delivered, Closes
  <2>2. \A c \in Conns : up'[c] /\ cstate'[c] # cstate[c] => Closes(c)'
    BY <1>3, <1>5, <1>7, FlushIs DEF Delivered, Closes
  <2> QED BY <1>7, <2>1, <2>2 DEF SlotsInv, LinksEnd
<1>12. WaitersAreOpen' /\ BusyIsHeld'
  <2>1. Range(waiting') = {} /\ DOMAIN waiting' = {}
    BY <1>3 DEF Range
  <2> QED BY <1>3, <2>1 DEF WaitersAreOpen, BusyIsHeld
<1>13. StopReleasesAll'
  <2>1. SUFFICES ASSUME stop' = "done"
                 PROVE  connections' = {}
    <3>1. connections' = {} => \A s \in Slots : modelOpen'[s] = {}
      BY <1>8 DEF ModelMirrors
    <3>2. ASSUME connections' = {}, NEW c \in Conns, up'[c]
          PROVE  Closes(c)'
      <4>1. cstate'[c] # "OPEN" /\ cstate'[c] \notin {"CONNECTING", "OPENING"}
        BY <1>3, <1>8, <1>10, <3>2 DEF OneHolderPerSlot, OnTheWay
      <4>2. cstate'[c] \in ConnectionStates /\ cstate'[c] # "none"
        BY <1>6, <1>11, <3>2 DEF Typed, ServerTypeOK, LinksEnd
      <4>3. cstate'[c] \in {"CLOSING", "CLOSED"}
        BY <4>1, <4>2 DEF ConnectionStates
      <4> QED BY <1>11, <3>2, <4>3 DEF LinksEnd
    <3> QED BY <1>3, <3>1, <3>2 DEF StopReleasesAll, Closes
  <2>2. CASE stop = "done"
    BY <1>3, <2>2 DEF SlotsInv, StopReleasesAll
  <2>3. CASE X = connections
    BY <1>1, <1>3, <2>3 DEF OneHolderPerSlot
  <2> QED BY <2>1, <2>2, <2>3
<1> QED BY <1>6, <1>8, <1>9, <1>10, <1>11, <1>12, <1>13 DEF SlotsInv

\* The three that answer all of it: a fault of the step loop, a drain's end and a
\* stop's.
EndsAll == StepLoopFails \/ DrainEnds \/ StopEnds

LEMMA EndsAllIs ==
  ASSUME SlotsInv, EndsAll
  PROVE  \E X : /\ X \in {{}, connections} /\ AnswerInFlight(X)
                /\ at \in {"loop", "ended"} /\ at' = "ended" /\ ServerTold'
                /\ server' \in {"serving", "draining", "stopped"}
                /\ drain' \in {"idle", "joining", "done"} /\ stop' \in {"idle", "joining", "done"}
                /\ drainLate' \in BOOLEAN /\ (stop' = "done" => stop = "done" \/ X = connections)
                /\ UNCHANGED <<slot, gen, reading, todo, refusing, client>>
<1>1. /\ server \in {"serving", "draining", "stopped"} /\ drainLate \in BOOLEAN
      /\ drain \in {"idle", "joining", "done"} /\ stop \in {"idle", "joining", "done"}
  BY DEF SlotsInv, Typed, ServerTypeOK
<1>2. CASE StepLoopFails
  <2>1. /\ AnswerInFlight({}) /\ at = "loop" /\ at' = "ended" /\ server' = "draining"
        /\ server # "stopped"
        /\ UNCHANGED <<drain, stop, drainLate, slot, gen, reading, todo, refusing, client>>
    BY <1>2 DEF StepLoopFails, Turn
  <2>2. ServerTold'
    BY <2>1 DEF SlotsInv, ServerTold
  <2> QED BY <1>1, <2>1, <2>2
<1>3. CASE DrainEnds
  <2>1. /\ AnswerInFlight({}) /\ at = "ended" /\ at' = "ended" /\ drain' = "done"
        /\ drain = "joining"
        /\ UNCHANGED <<server, stop, drainLate, slot, gen, reading, todo, refusing, client>>
    BY <1>3 DEF DrainEnds, thread
  <2>2. ServerTold'
    BY <2>1 DEF SlotsInv, ServerTold
  <2> QED BY <1>1, <2>1, <2>2
<1>4. CASE StopEnds
  <2>1. /\ AnswerInFlight(connections) /\ at = "ended" /\ at' = "ended" /\ stop' = "done"
        /\ stop = "joining"
        /\ UNCHANGED <<server, drain, drainLate, slot, gen, reading, todo, refusing, client>>
    BY <1>4 DEF StopEnds, thread
  <2>2. ServerTold'
    BY <2>1 DEF SlotsInv, ServerTold
  <2> QED BY <1>1, <2>1, <2>2
<1> QED BY <1>2, <1>3, <1>4 DEF EndsAll

LEMMA EndsAllSlots ==
  ASSUME SlotsInv, ResetsInOrder, EndsAll
  PROVE  SlotsInv'
<1>1. PICK X :  /\ X \in {{}, connections} /\ AnswerInFlight(X)
                /\ at \in {"loop", "ended"} /\ at' = "ended" /\ ServerTold'
                /\ server' \in {"serving", "draining", "stopped"}
                /\ drain' \in {"idle", "joining", "done"} /\ stop' \in {"idle", "joining", "done"}
                /\ drainLate' \in BOOLEAN /\ (stop' = "done" => stop = "done" \/ X = connections)
                /\ UNCHANGED <<slot, gen, reading, todo, refusing, client>>
  BY EndsAllIs
<1> QED BY <1>1, InFlightSlots

-------------------------------------------------------------------------------
(* All steps.                                                              *)

LEMMA InitSlots == Init => SlotsInv
<1> SUFFICES ASSUME Init PROVE SlotsInv
  OBVIOUS
<1>1. /\ outbox = [c \in Conns |-> <<>>] /\ call = [c \in Conns |-> NoCall]
      /\ Range(<<>>) = {}
  BY NoMessage DEF Init, Nothing
<1>2. ServerTypeOK
  <2>1. NoCall \in [kind : {"none", "hello", "step", "reset"}, id : Nat]
    BY DEF NoCall
  <2>2. calls \in [Conns -> 0 .. MaxCalls]
    BY SizesAssumption DEF Init
  <2>3. \A c \in Conns : Len(outbox[c]) \in 0 .. OutboxSize
    BY <1>1, SizesAssumption
  <2>4. answers \in [Conns -> [RequestIds -> Nat]]
    BY DEF Init
  <2>5. call \in [Conns -> [kind : {"none", "hello", "step", "reset"}, id : Nat]]
    BY <1>1, <2>1
  <2>6. /\ events \in Seq(Events) /\ waiting \in Seq(Requests) /\ todo \in Seq(Events)
        /\ opening \subseteq Conns /\ connections \subseteq Conns /\ resetPending \subseteq Conns
        /\ busy \subseteq Conns /\ pending \subseteq Pendings
    BY DEF Init
  <2>7. /\ cstate \in [Conns -> ConnectionStates]
        /\ slot \in [Conns -> Slots \union {NoSlot}] /\ gen \in [Conns -> Nat]
        /\ reading \in [Conns -> BOOLEAN] /\ up \in [Conns -> BOOLEAN]
        /\ bySlot \in [Slots -> Conns \union {NoConn}] /\ generations \in [Slots -> Nat]
        /\ modelOpen \in [Slots -> SUBSET Nat]
        /\ ready \in [Conns -> BOOLEAN] /\ clientGen \in [Conns -> Nat]
    BY DEF Init, ConnectionStates
  <2>8. /\ server \in {"serving", "draining", "stopped"}
        /\ {drain, stop} \subseteq {"idle", "joining", "done"} /\ drainLate \in BOOLEAN
        /\ at \in {"loop", "events", "opening", "resetting", "running", "ended"}
        /\ refusing \in BOOLEAN
    BY DEF Init
  <2> QED BY <2>2, <2>3, <2>4, <2>5, <2>6, <2>7, <2>8 DEF ServerTypeOK
<1>3. Typed
  BY <1>1, <1>2 DEF Typed
<1>4. ThreadInHand /\ ServerTold /\ LinksEnd /\ WaitersAreOpen /\ StopReleasesAll
  BY <1>1 DEF Init, ThreadInHand, ServerTold, LinksEnd, WaitersAreOpen, StopReleasesAll
<1>5. OnTheWay
  BY <1>1 DEF Init, OnTheWay
<1>6. OneHolderPerSlot /\ ModelMirrors
  BY DEF Init, OneHolderPerSlot, ModelMirrors
<1>7. BusyIsHeld
  BY <1>1 DEF Init, BusyIsHeld
<1> QED BY <1>3, <1>4, <1>5, <1>6, <1>7 DEF SlotsInv

LEMMA StutterSlots ==
  ASSUME SlotsInv, UNCHANGED svars
  PROVE  SlotsInv'
<1>1. UNCHANGED <<life, conn, wires, holders, events, policy, pending, thread, modelOpen, client>>
  BY DEF svars
<1>2. Delivered(Nothing, call)
  BY <1>1, UnchangedLinks DEF SlotsInv
<1> QED BY <1>1, <1>2, LinksSlots
    DEF SlotsInv, Typed, ServerTypeOK, conn, holders, client

LEMMA NextSlots ==
  ASSUME SlotsInv, ResetsInOrder, [Next]_svars
  PROVE  SlotsInv'
<1>1. ASSUME NEW c \in Conns, Reader(c) PROVE SlotsInv'
  BY <1>1, HelloSlots, TurnedAwaySlots, CutSlots, ReaderSlots DEF Reader
<1>2. ASSUME NEW c \in Conns, Client(c) PROVE SlotsInv'
  BY <1>2, AcceptSlots, StepSlots, ResetSlots, GivesUpSlots, CutSlots, ReadSlots DEF Client
<1>3. ASSUME ModelCallEnds PROVE SlotsInv'
  BY <1>3, ReturnSlots, OpenSucceedsSlots, OpenFailsSlots, ResetSucceedsSlots, ResetFailsSlots
     DEF ModelCallEnds
<1>4. ASSUME StepThread PROVE SlotsInv'
  BY <1>4, TakenSlots, BatchSlots, LoopEndsSlots, OpenBeginsSlots, OpenSkippedSlots,
     LeaveAppliedSlots, ResetBeginsSlots, ResetSkippedSlots DEF StepThread
<1>5. ASSUME Timeouts PROVE SlotsInv'
  BY <1>5, ExpiresSlots, WaitingExpiresSlots DEF Timeouts
<1>6. ASSUME Lifecycle \/ StepLoopFails PROVE SlotsInv'
  BY <1>6, LifecycleSlots, EndsAllSlots DEF Lifecycle, EndsAll
<1>7. ASSUME NEW p \in pending, FutureDone(p) PROVE SlotsInv'
  BY <1>7, FutureSlots
<1>8. ASSUME UNCHANGED svars PROVE SlotsInv'
  BY <1>8, StutterSlots
<1> QED BY <1>1, <1>2, <1>3, <1>4, <1>5, <1>6, <1>7, <1>8 DEF Next

-------------------------------------------------------------------------------
(* Answers: what a step keeps of the requests' invariant.                  *)

LEMMA OrderKept ==
  ASSUME ResetsInOrder, UNCHANGED <<events, todo>>
  PROVE  ResetsInOrder' /\ \A c, i : OwedReset(c, i)' <=> OwedReset(c, i)
BY DEF ResetsInOrder, OwedReset, Resets, Rising

LEMMA OrderQueued ==
  ASSUME Typed, ResetsInOrder, NEW e \in Events, e.kind # "reset",
         events' = Append(events, e), todo' = todo
  PROVE  ResetsInOrder' /\ \A c, i : OwedReset(c, i)' <=> OwedReset(c, i)
<1>1. events \in Seq(Events)
  BY DEF Typed, ServerTypeOK
<1>2. Range(events') = Range(events) \union {e}
  BY <1>1, AppendIs
<1>3. Resets(events') = Resets(events) /\ Resets(todo') = Resets(todo)
  BY <1>2 DEF Resets
<1>4. /\ DOMAIN events' = 1 .. Len(events) + 1 /\ DOMAIN events = 1 .. Len(events)
      /\ Len(events) \in Nat
      /\ \A k \in DOMAIN events : events'[k] = events[k]
      /\ events'[Len(events) + 1] = e
  BY <1>1
<1>5. \A k \in DOMAIN events' : events'[k].kind = "reset" => k \in DOMAIN events /\ events'[k] = events[k]
  BY <1>4
<1>6. Rising(events') /\ Rising(todo')
  BY <1>5 DEF ResetsInOrder, Rising
<1> QED BY <1>3, <1>6 DEF ResetsInOrder, OwedReset

LEMMA OrderDone ==
  ASSUME Typed, ResetsInOrder, todo # <<>>, EventDone, events' = events
  PROVE  /\ ResetsInOrder' /\ \A c, i : OwedReset(c, i)' => OwedReset(c, i)
         /\ Event.kind = "reset" =>
              /\ Event.id \in RequestIds
              /\ \A c, i : c = Event.conn /\ i = Event.id => OwedReset(c, i) /\ ~OwedReset(c, i)'
              /\ \A c, i : c = Event.conn /\ OwedReset(c, i)' => Event.id < i
<1>1. todo \in Seq(Events) /\ Len(todo) > 0 /\ todo' = Tail(todo)
  BY DEF Typed, ServerTypeOK, EventDone
<1>2. /\ DOMAIN todo = 1 .. Len(todo) /\ Len(todo) \in Nat /\ Event = todo[1]
      /\ DOMAIN todo' = 1 .. Len(todo) - 1
      /\ \A k \in DOMAIN todo' : k + 1 \in DOMAIN todo /\ todo'[k] = todo[k + 1]
  BY <1>1 DEF Event
<1>3. Range(todo') \subseteq Range(todo) /\ Event \in Range(todo)
  BY <1>1, <1>2 DEF Range
<1>4. Resets(todo') \subseteq Resets(todo) /\ Resets(events') = Resets(events)
  BY <1>3 DEF Resets
<1>5. Rising(todo')
  <2>1. SUFFICES ASSUME NEW i \in DOMAIN todo', NEW j \in DOMAIN todo', i < j,
                        todo'[i].kind = "reset", todo'[j].kind = "reset",
                        todo'[i].conn = todo'[j].conn
                 PROVE  todo'[i].id < todo'[j].id
    BY DEF Rising
  <2>2. /\ i + 1 \in DOMAIN todo /\ j + 1 \in DOMAIN todo /\ i + 1 < j + 1
        /\ todo'[i] = todo[i + 1] /\ todo'[j] = todo[j + 1]
    BY <1>2, <2>1
  <2> QED BY <2>1, <2>2 DEF ResetsInOrder, Rising
<1>6. ResetsInOrder'
  BY <1>4, <1>5 DEF ResetsInOrder, Rising
<1>7. ASSUME Event.kind = "reset"
      PROVE  /\ Event.id \in RequestIds
             /\ \A c, i : c = Event.conn /\ i = Event.id => OwedReset(c, i) /\ ~OwedReset(c, i)'
             /\ \A c, i : c = Event.conn /\ OwedReset(c, i)' => Event.id < i
  <2>1. Event \in Resets(todo)
    BY <1>3, <1>7 DEF Resets
  <2>2. Event.id \in RequestIds /\ Event.id \in Nat
    BY <2>1 DEF ResetsInOrder, RequestIds
  <2>3. ASSUME NEW e \in Resets(todo'), e.conn = Event.conn PROVE e.id # Event.id /\ Event.id < e.id
    <3>1. PICK k \in DOMAIN todo' : e = todo'[k]
      BY DEF Resets, Range
    <3>2. k + 1 \in DOMAIN todo /\ 1 \in DOMAIN todo /\ e = todo[k + 1] /\ 1 < k + 1
      BY <1>2, <3>1
    <3>3. e.kind = "reset"
      BY DEF Resets
    <3>4. Event.id < e.id
      BY <1>2, <1>7, <2>3, <3>2, <3>3 DEF ResetsInOrder, Rising
    <3>5. e.id \in Nat
      BY <1>4 DEF ResetsInOrder, RequestIds
    <3> QED BY <2>2, <3>4, <3>5
  <2>4. ASSUME NEW e \in Resets(events), e.conn = Event.conn PROVE e.id # Event.id /\ Event.id < e.id
    <3>1. Event.id < e.id
      BY <2>1, <2>4 DEF ResetsInOrder
    <3>2. e.id \in Nat
      BY DEF ResetsInOrder, RequestIds
    <3> QED BY <2>2, <3>1, <3>2
  <2> QED BY <1>4, <2>1, <2>2, <2>3, <2>4 DEF OwedReset
<1> QED BY <1>4, <1>6, <1>7 DEF OwedReset

\* The events taken, or dropped with their answers.
LEMMA OrderTaken ==
  ASSUME ResetsInOrder, todo = <<>>, events' = <<>>, todo' \in {events, <<>>}
  PROVE  ResetsInOrder' /\ \A c, i : OwedReset(c, i)' => OwedReset(c, i) /\ todo' = events
<1>1. Resets(<<>>) = {} /\ Rising(<<>>)
  BY NoMessage DEF Resets, Rising
<1>2. CASE todo' = events
  BY <1>1, <1>2 DEF ResetsInOrder, OwedReset, Resets, Rising
<1>3. CASE todo' = <<>>
  BY <1>1, <1>3 DEF ResetsInOrder, OwedReset, Resets, Rising
<1> QED BY <1>2, <1>3

LEMMA StepsKept ==
  ASSUME UNCHANGED <<waiting, pending>>
  PROVE  \A c, i : OwedStep(c, i)' <=> OwedStep(c, i)
BY DEF OwedStep, Awaited

\* A step that owes nothing new and gives only answers it owed, once.
LEMMA AnswersNext ==
  ASSUME Typed, RequestsInv, NEW M, NEW W, Delivered(M, W), ResetsInOrder', calls' = calls,
         \A c \in Conns : \A i \in RequestIds :
           /\ OwedStep(c, i)' => OwedStep(c, i)
           /\ OwedReset(c, i)' => OwedReset(c, i)
           /\ Mentions(M[c], i) => /\ OwedStep(c, i) \/ OwedReset(c, i)
                                   /\ ~OwedStep(c, i)' /\ ~OwedReset(c, i)' /\ Once(M[c])
  PROVE  RequestsInv'
<1>1. ASSUME NEW c \in Conns, NEW i \in RequestIds
      PROVE  /\ answers[c][i] \in Nat /\ answers'[c][i] \in Nat /\ answers[c][i] <= 1
             /\ calls[c] \in Nat /\ i \in Nat
             /\ ~Mentions(M[c], i) => answers'[c][i] = answers[c][i]
             /\ Mentions(M[c], i) => answers[c][i] = 0 /\ i <= calls[c] /\ answers'[c][i] <= 1
  <2>1. answers[c][i] \in Nat /\ answers'[c][i] \in Nat /\ calls[c] \in Nat /\ i \in Nat
    <3>1. answers \in [Conns -> [RequestIds -> Nat]] /\ answers' \in [Conns -> [RequestIds -> Nat]]
      BY DEF Typed, ServerTypeOK, Delivered
    <3>2. calls[c] \in 0 .. MaxCalls /\ i \in 1 .. MaxCalls
      BY DEF Typed, ServerTypeOK, RequestIds
    <3>3. calls[c] \in Nat /\ i \in Nat
      BY <3>2
    <3> QED BY <3>1, <3>3
  <2>2. answers[c][i] <= 1
    BY DEF RequestsInv, AnsweredOnce
  <2>3. ~Mentions(M[c], i) => answers'[c][i] = answers[c][i]
    BY DEF Delivered
  <2>4. Mentions(M[c], i) => answers[c][i] = 0 /\ i <= calls[c]
    BY DEF RequestsInv, OwedAreNew
  <2>5. Mentions(M[c], i) => answers'[c][i] <= answers[c][i] + 1
    BY DEF Delivered
  <2> QED BY <2>1, <2>2, <2>3, <2>4, <2>5
<1>2. AnsweredOnce'
  BY <1>1 DEF AnsweredOnce
<1>3. ASSUME NEW c \in Conns, NEW i \in RequestIds
      PROVE  /\ OwedStep(c, i)' \/ OwedReset(c, i)' => i <= calls[c] /\ answers'[c][i] = 0
             /\ answers'[c][i] > 0 => i <= calls[c]
             /\ ~ (OwedStep(c, i)' /\ OwedReset(c, i)')
  <2>1. /\ OwedStep(c, i) \/ OwedReset(c, i) => i <= calls[c] /\ answers[c][i] = 0
        /\ answers[c][i] > 0 => i <= calls[c]
        /\ ~ (OwedStep(c, i) /\ OwedReset(c, i))
    BY DEF RequestsInv, OwedAreNew
  <2>2. CASE Mentions(M[c], i)
    BY <1>1, <2>1, <2>2
  <2>3. CASE ~Mentions(M[c], i)
    BY <1>1, <2>1, <2>3
  <2> QED BY <2>2, <2>3
<1>4. OwedAreNew'
  BY <1>3 DEF OwedAreNew
<1> QED BY <1>2, <1>4 DEF RequestsInv

\* A step that gives no answer.
LEMMA QuietRequests ==
  ASSUME RequestsInv, ResetsInOrder', calls' = calls,
         \A c \in Conns : \A i \in RequestIds :
           /\ OwedStep(c, i)' => OwedStep(c, i)
           /\ OwedReset(c, i)' => OwedReset(c, i)
           /\ answers'[c][i] = answers[c][i]
  PROVE  RequestsInv'
<1>1. AnsweredOnce'
  BY DEF RequestsInv, AnsweredOnce
<1>2. OwedAreNew'
  BY DEF RequestsInv, OwedAreNew
<1> QED BY <1>1, <1>2 DEF RequestsInv

\* A step that answers the steps of R, if any, and takes them from what is owed.
LEMMA StepsAnswered ==
  ASSUME SlotsInv, RequestsInv, ResetsInOrder', \A c, i : OwedReset(c, i)' => OwedReset(c, i),
         calls' = calls, NEW M, NEW W, Delivered(M, W), NEW R,
         \A r \in R : r \in Range(waiting) \/ (r \in pending /\ Awaited(r)),
         \A c \in Conns :
           /\ Once(M[c])
           /\ \A i \in RequestIds : Mentions(M[c], i) => \E r \in R : r.conn = c /\ r.id = i,
         \A w \in Range(waiting') : w \in Range(waiting) /\ w \notin R,
         \A q \in pending' : Awaited(q) =>
           \E p \in pending : Awaited(p) /\ p \notin R /\ p.conn = q.conn /\ p.id = q.id
  PROVE  RequestsInv'
<1>1. /\ \A v, x \in Range(waiting) : v.conn = x.conn => v = x
      /\ \A p, q \in pending : ~p.detached /\ ~q.detached /\ p.conn = q.conn => p = q
      /\ \A p \in pending, x \in Range(waiting) : ~p.detached => p.conn # x.conn
  BY BusySays DEF SlotsInv
<1>2. \A p : Awaited(p) => ~p.detached
  BY DEF Awaited
<1>3. \A c, i : OwedStep(c, i)' <=> \/ \E w \in Range(waiting') : w.conn = c /\ w.id = i
                                    \/ \E q \in pending' : q.conn = c /\ q.id = i /\ Awaited(q)
  BY DEF OwedStep, Awaited
<1>4. \A c, i : OwedStep(c, i) <=> \/ \E w \in Range(waiting) : w.conn = c /\ w.id = i
                                   \/ \E q \in pending : q.conn = c /\ q.id = i /\ Awaited(q)
  BY DEF OwedStep
<1>5. \A c, i : OwedStep(c, i)' => OwedStep(c, i)
  BY <1>3, <1>4
<1>6. ASSUME NEW c \in Conns, NEW i \in RequestIds, Mentions(M[c], i)
      PROVE  OwedStep(c, i) /\ ~OwedStep(c, i)' /\ ~OwedReset(c, i)'
  <2>1. PICK r \in R : r.conn = c /\ r.id = i
    BY <1>6
  <2>2. OwedStep(c, i)
    BY <1>4, <2>1
  <2>3. ~OwedReset(c, i)
    BY <2>2 DEF RequestsInv, OwedAreNew
  <2>4. ASSUME NEW w \in Range(waiting'), w.conn = c, w.id = i PROVE FALSE
    BY <1>1, <1>2, <2>1, <2>4
  <2>5. ASSUME NEW q \in pending', q.conn = c, q.id = i, Awaited(q) PROVE FALSE
    <3>1. PICK p \in pending : Awaited(p) /\ p \notin R /\ p.conn = c /\ p.id = i
      BY <2>5
    <3> QED BY <1>1, <1>2, <2>1, <3>1
  <2> QED BY <1>3, <2>2, <2>3, <2>4, <2>5
<1>7. Typed
  BY DEF SlotsInv
<1> QED BY <1>5, <1>6, <1>7, AnswersNext

\* A step that leaves the requests and the answers alone.
LEMMA NothingAnswered ==
  ASSUME RequestsInv, ResetsInOrder', \A c, i : OwedReset(c, i)' => OwedReset(c, i),
         UNCHANGED <<waiting, pending, calls>>,
         \A c \in Conns : \A i \in RequestIds : answers'[c][i] = answers[c][i]
  PROVE  RequestsInv'
<1>1. \A c, i : OwedStep(c, i)' <=> OwedStep(c, i)
  BY StepsKept
<1> QED BY <1>1, QuietRequests

LEMMA QueuedIs ==
  ASSUME NEW c \in Conns, NEW k \in {"open", "leave"}, Queue(k, c, 0)
  PROVE  \E e \in Events : e.kind # "reset" /\ events' = Append(events, e)
<1>1. [kind |-> k, conn |-> c, id |-> 0] \in Events
  BY DEF Events
<1> QED BY <1>1 DEF Queue

\* The readers, and the links that are cut.
LEMMA ReaderRequests ==
  ASSUME SlotsInv, RequestsInv, NEW c \in Conns, Reader(c) \/ ClientLeaves(c) \/ LinkEnds(c)
  PROVE  RequestsInv'
<1>1. Typed /\ ResetsInOrder /\ 0 \notin RequestIds
  BY DEF SlotsInv, RequestsInv, RequestIds
<1>2. UNCHANGED <<waiting, pending, calls, todo>>
  BY DEF Reader, Hello, HelloTurnedAway, HelloExpires, ReaderEnds, ReaderFails, ReaderLeaves,
         ClientLeaves, LinkEnds, policy, client, thread
<1>3. ResetsInOrder' /\ \A d, i : OwedReset(d, i)' => OwedReset(d, i)
  <2>1. CASE UNCHANGED events
    BY <1>1, <1>2, <2>1, OrderKept
  <2>2. CASE Queue("leave", c, 0) \/ Queue("open", c, 0)
    <3>1. PICK e \in Events : e.kind # "reset" /\ events' = Append(events, e)
      BY <2>2, QueuedIs
    <3> QED BY <1>1, <1>2, <3>1, OrderQueued
  <2> QED BY <2>1, <2>2 DEF Reader, Hello, HelloTurnedAway, HelloExpires, ReaderEnds, ReaderFails,
         ReaderLeaves, ClientLeaves, LinkEnds
<1>4. \A d \in Conns : \A i \in RequestIds : answers'[d][i] = answers[d][i]
  <2>1. CASE HelloTurnedAway(c)
    <3>1. PICK m \in Messages : m.id = 0 /\ Delivered(To(c, <<m>>), call)
      BY <1>1, <2>1, TurnedAwayPosts
    <3>2. PICK M : M = To(c, <<m>>)
      OBVIOUS
    <3>3. <<m>> \in Seq(Messages) /\ \A i \in RequestIds : ~Mentions(<<m>>, i)
      BY <1>1, <3>1, OneMessage
    <3>4. \A d \in Conns : M[d] = <<m>> \/ M[d] = <<>>
      BY <3>2, <3>3, ToIs
    <3>5. \A d \in Conns : \A i \in RequestIds : ~Mentions(M[d], i)
      BY <3>3, <3>4, NoMessage
    <3> QED BY <3>1, <3>2, <3>5 DEF Delivered
  <2>2. CASE ~HelloTurnedAway(c)
    <3>1. answers' = answers
      BY <2>2 DEF Reader, Hello, HelloExpires, ReaderEnds, ReaderFails, ReaderLeaves, ClientLeaves,
                  LinkEnds, Cut, wires
    <3> QED BY <3>1
  <2> QED BY <2>1, <2>2
<1> QED BY <1>2, <1>3, <1>4, NothingAnswered

\* The steps that touch neither requests nor events nor answers.
LEMMA IdleRequests ==
  ASSUME RequestsInv, UNCHANGED <<waiting, pending, calls, events, todo, answers>>
  PROVE  RequestsInv'
<1>1. ResetsInOrder' /\ \A c, i : OwedReset(c, i)' => OwedReset(c, i)
  BY OrderKept DEF RequestsInv
<1> QED BY <1>1, NothingAnswered

LEMMA UnaskedRequests ==
  ASSUME RequestsInv,
         \/ \E c \in Conns : Accept(c) \/ ClientReads(c)
         \/ StepLoopEnds \/ DrainStarts \/ DrainDeadline \/ StopStarts \/ UNCHANGED svars
  PROVE  RequestsInv'
<1>1. UNCHANGED <<waiting, pending, calls, events, todo, answers>>
  <2>1. CASE \E c \in Conns : Accept(c) \/ ClientReads(c)
    BY <2>1 DEF Accept, ClientReads, policy, client, thread
  <2>2. CASE StepLoopEnds \/ DrainStarts \/ DrainDeadline \/ StopStarts
    BY <2>2 DEF StepLoopEnds, DrainStarts, DrainDeadline, StopStarts, policy, client, thread, wires
  <2>3. CASE UNCHANGED svars
    BY <2>3 DEF svars, policy, client, thread, wires
  <2> QED BY <2>1, <2>2, <2>3
<1> QED BY <1>1, IdleRequests

LEMMA NothingPosted == \A c \in Conns : Once(Nothing[c]) /\ \A i : ~Mentions(Nothing[c], i)
BY NothingIs, NoMessage

\* A request given up: what is owed only shrinks.
LEMMA GivesUpRequests ==
  ASSUME SlotsInv, RequestsInv, NEW c \in Conns, ClientGivesUp(c)
  PROVE  RequestsInv'
<1>1. Typed /\ ResetsInOrder /\ waiting \in Seq(Requests) /\ pending \subseteq Pendings
  BY DEF SlotsInv, RequestsInv, Typed, ServerTypeOK
<1>2. UNCHANGED <<events, todo, calls>>
  BY DEF ClientGivesUp, thread, client
<1>3. ResetsInOrder' /\ \A d, i : OwedReset(d, i)' => OwedReset(d, i)
  BY <1>1, <1>2, OrderKept
<1>4. Delivered(Nothing, [call EXCEPT ![c] = NoCall])
  BY <1>1, GivesUpLinks
<1>5. /\ \A w \in Range(waiting') : w \in Range(waiting)
      /\ \A q \in pending' : Awaited(q) => q \in pending
  <2>1. CASE \E w \in Range(waiting) : /\ waiting' = Without(waiting, {w})
                                       /\ busy' = busy \ {w.conn} /\ pending' = pending
    BY <1>1, <2>1, WithoutDistinct
  <2>2. CASE /\ UNCHANGED <<waiting, busy>>
             /\ \E f : /\ pending' = {f[p] : p \in pending}
                       /\ \A p \in pending : f[p] = p \/ f[p] = [p EXCEPT !.answered = TRUE]
    <3>1. ASSUME NEW q \in pending', Awaited(q) PROVE q \in pending
      <4>0. PICK f : /\ pending' = {f[p] : p \in pending}
                     /\ \A p \in pending : f[p] = p \/ f[p] = [p EXCEPT !.answered = TRUE]
        BY <2>2
      <4>1. PICK p \in pending : q = p \/ q = [p EXCEPT !.answered = TRUE]
        BY <3>1, <4>0
      <4>2. p \in Pendings
        BY <1>1
      <4>3. [p EXCEPT !.answered = TRUE].answered = TRUE
        BY <4>2, PendingIs
      <4> QED BY <3>1, <4>1, <4>3 DEF Awaited
    <3> QED BY <2>2, <3>1
  <2> QED BY <1>1, <2>1, <2>2, GivesUpIs
<1>6. PICK R : R = {}
  OBVIOUS
<1>7. PICK M, W : M = Nothing /\ W = [call EXCEPT ![c] = NoCall]
  OBVIOUS
<1>8. Delivered(M, W) /\ \A d \in Conns : Once(M[d]) /\ \A i \in RequestIds : ~Mentions(M[d], i)
  BY <1>4, <1>7, NothingPosted
<1>9. \A q \in pending' : Awaited(q) =>
        \E p \in pending : Awaited(p) /\ p \notin R /\ p.conn = q.conn /\ p.id = q.id
  BY <1>5, <1>6
<1>10. \A w \in Range(waiting') : w \in Range(waiting) /\ w \notin R
  BY <1>5, <1>6
<1>11. /\ \A r \in R : r \in Range(waiting) \/ (r \in pending /\ Awaited(r))
       /\ \A d \in Conns :
            /\ Once(M[d])
            /\ \A i \in RequestIds : Mentions(M[d], i) => \E r \in R : r.conn = d /\ r.id = i
  BY <1>6, <1>8
<1> QED BY <1>2, <1>3, <1>8, <1>9, <1>10, <1>11, StepsAnswered

LEMMA OneFailure ==
  ASSUME NEW c \in Conns, NEW i \in RequestIds, NEW W, Delivered(To(c, <<Failed(i)>>), W)
  PROVE  \E M : /\ Delivered(M, W)
                /\ \A d \in Conns : /\ Once(M[d])
                                    /\ \A j : Mentions(M[d], j) => d = c /\ j = i
                                    /\ \A m \in Range(M[d]) : m.kind = "reply"
<1>1. i \in Nat
  BY DEF RequestIds
<1>2. PICK f \in Messages : f = Failed(i) /\ f.id = i /\ f.kind = "reply"
  BY <1>1, FailedIs
<1>3. /\ <<f>> \in Seq(Messages) /\ Once(<<f>>) /\ \A j : Mentions(<<f>>, j) => j = i
      /\ Range(<<f>>) = {f}
  BY <1>2, OneMessage
<1>4. PICK ms \in Seq(Messages) : ms = <<f>>
  BY <1>3
<1>5. PICK M : M = To(c, ms)
  OBVIOUS
<1>6. /\ M \in [Conns -> Seq(Messages)] /\ M[c] = ms
      /\ \A d \in Conns : d # c => M[d] = <<>>
  BY <1>5, ToIs
<1>7. \A d \in Conns : Once(M[d]) /\ \A j : Mentions(M[d], j) => d = c /\ j = i
  BY <1>3, <1>4, <1>6, NoMessage
<1>8. \A d \in Conns : \A m \in Range(M[d]) : m.kind = "reply"
  BY <1>2, <1>3, <1>4, <1>6, NoMessage
<1>9. Delivered(M, W)
  BY <1>2, <1>4, <1>5
<1> QED BY <1>7, <1>8, <1>9

LEMMA ExpiresRequests ==
  ASSUME SlotsInv, RequestsInv, NEW p \in pending, StepExpires(p)
  PROVE  RequestsInv'
<1>1. Typed /\ ResetsInOrder /\ p \in Pendings
  BY DEF SlotsInv, RequestsInv, Typed, ServerTypeOK
<1>2. /\ UNCHANGED <<events, todo, calls, waiting>> /\ Awaited(p)
      /\ pending' = (pending \ {p}) \union {[p EXCEPT !.answered = TRUE]}
  BY DEF StepExpires, thread, client, policy
<1>3. ResetsInOrder' /\ \A d, i : OwedReset(d, i)' => OwedReset(d, i)
  BY <1>1, <1>2, OrderKept
<1>4. p.conn \in Conns /\ p.id \in RequestIds /\ [p EXCEPT !.answered = TRUE].answered = TRUE
  BY <1>1, PendingIs
<1>5. Delivered(To(p.conn, <<Failed(p.id)>>), call)
  BY <1>1, ExpiresPosts
<1>6. PICK M : /\ Delivered(M, call)
               /\ \A d \in Conns : Once(M[d]) /\ \A j : Mentions(M[d], j) => d = p.conn /\ j = p.id
  BY <1>4, <1>5, OneFailure
<1>8. PICK R : R = {p}
  OBVIOUS
<1>9. \A q \in pending' : Awaited(q) => q \in pending /\ q # p
  BY <1>2, <1>4 DEF Awaited
<1>10. \A w \in Range(waiting) : w \notin R
  BY <1>2, <1>8, BusySays DEF SlotsInv, Awaited
<1> QED BY <1>2, <1>3, <1>6, <1>8, <1>9, <1>10, StepsAnswered

LEMMA WaitingExpiresRequests ==
  ASSUME SlotsInv, RequestsInv, NEW w \in Range(waiting), WaitingExpires(w)
  PROVE  RequestsInv'
<1>1. Typed /\ ResetsInOrder /\ waiting \in Seq(Requests) /\ w \in Requests
  BY DEF SlotsInv, RequestsInv, Typed, ServerTypeOK, Range
<1>2. UNCHANGED <<events, todo, calls, pending>> /\ waiting' = Without(waiting, {w})
  BY DEF WaitingExpires, thread, client
<1>3. ResetsInOrder' /\ \A d, i : OwedReset(d, i)' => OwedReset(d, i)
  BY <1>1, <1>2, OrderKept
<1>4. w.conn \in Conns /\ w.id \in RequestIds
  BY <1>1, RequestIs
<1>5. PICK M : /\ Delivered(M, call)
               /\ \A d \in Conns : Once(M[d]) /\ \A j : Mentions(M[d], j) => d = w.conn /\ j = w.id
  <2>1. CASE Delivered(Nothing, call)
    BY <2>1, NothingPosted
  <2>2. CASE Delivered(To(w.conn, <<Failed(w.id)>>), call)
    <3>1. PICK c \in Conns, i \in RequestIds : c = w.conn /\ i = w.id
      BY <1>4
    <3>2. Delivered(To(c, <<Failed(i)>>), call)
      BY <2>2, <3>1
    <3>3. PICK M :
            /\ Delivered(M, call)
            /\ \A d \in Conns : /\ Once(M[d])
                                /\ \A j : Mentions(M[d], j) => d = c /\ j = i
                                /\ \A m \in Range(M[d]) : m.kind = "reply"
      BY <3>2, OneFailure
    <3> QED BY <3>1, <3>3
  <2> QED BY <1>1, <2>1, <2>2, WaitingExpiresPosts
<1>6. PICK R : R = {w}
  OBVIOUS
<1>7. \A x \in Range(waiting') : x \in Range(waiting) /\ x \notin R
  BY <1>1, <1>2, <1>6, WithoutDistinct
<1>8. \A p \in pending : Awaited(p) => p \notin R
  BY <1>6, BusySays DEF SlotsInv, Awaited
<1> QED BY <1>2, <1>3, <1>5, <1>6, <1>7, <1>8, StepsAnswered

LEMMA BatchRequests ==
  ASSUME SlotsInv, RequestsInv, BatchTaken
  PROVE  RequestsInv'
<1>1. Typed /\ ResetsInOrder /\ WaitersAreOpen /\ BusyIsHeld
  BY DEF SlotsInv, RequestsInv
<1>2. UNCHANGED <<events, todo, calls, answers>>
  BY DEF BatchTaken, wires, client
<1>3. ResetsInOrder' /\ \A d, i : OwedReset(d, i)' => OwedReset(d, i)
  BY <1>1, <1>2, OrderKept
<1> DEFINE run(w) == [conn |-> w.conn, id |-> w.id, gen |-> gen[w.conn],
                      future |-> FALSE, answered |-> FALSE, detached |-> FALSE]
<1>4. PICK batch :
           /\ batch \subseteq Range(waiting) /\ Range(waiting) = batch \union Range(waiting')
           /\ pending' = pending \union {run(w) : w \in batch}
  BY <1>1, BatchIs
<1>5. \A w \in batch : run(w).conn = w.conn /\ run(w).id = w.id
  OBVIOUS
<1> HIDE DEF run
<1>6. \A q \in pending' : q \in pending \/ \E w \in batch : q = run(w)
  BY <1>4
<1>7. ASSUME NEW c, NEW i, OwedStep(c, i)' PROVE OwedStep(c, i)
  <2>1. CASE \E w \in Range(waiting') : w.conn = c /\ w.id = i
    BY <1>4, <2>1 DEF OwedStep
  <2>2. CASE \E q \in pending' : q.conn = c /\ q.id = i /\ Awaited(q)
    <3>1. PICK q \in pending' : q.conn = c /\ q.id = i /\ Awaited(q)
      BY <2>2
    <3>2. CASE q \in pending
      BY <3>1, <3>2 DEF OwedStep
    <3>3. CASE \E w \in batch : q = run(w)
      BY <1>4, <1>5, <3>1, <3>3 DEF OwedStep
    <3> QED BY <1>6, <3>2, <3>3
  <2> QED BY <1>7, <2>1, <2>2 DEF OwedStep, Awaited
<1> QED BY <1>2, <1>3, <1>7, QuietRequests

\* Results that go out.
LEMMA CompletedRequests ==
  ASSUME SlotsInv, RequestsInv, NEW S, S \subseteq pending, Complete(S),
         UNCHANGED <<events, todo, calls, waiting>>,
         \A q \in pending' : \E p \in pending \ S : q = p \/ q = [p EXCEPT !.future = TRUE]
  PROVE  RequestsInv'
<1>1. Typed /\ ResetsInOrder /\ pending \subseteq Pendings
  BY DEF SlotsInv, RequestsInv, Typed, ServerTypeOK
<1>2. ResetsInOrder' /\ \A d, i : OwedReset(d, i)' => OwedReset(d, i)
  BY <1>1, OrderKept
<1>3. PICK R : R = Due(S)
  OBVIOUS
<1>4. \A r \in R : r \in pending /\ r \in S /\ Awaited(r)
  BY <1>3 DEF Due
<1>5. \A r \in R : r.id \in RequestIds
  BY <1>1, <1>4, PendingIs
<1>6. PICK M : M = [c \in Conns |-> Failures(c, R)]
  OBVIOUS
<1>7. Delivered(M, call)
  BY <1>1, <1>3, <1>6, CompletePosts
<1>8. \A c \in Conns : /\ Once(M[c])
                       /\ \A i : Mentions(M[c], i) => \E r \in R : r.conn = c /\ r.id = i
  BY <1>5, <1>6, FailuresAre
<1>9. \A w \in Range(waiting) : w \notin R
  BY <1>4, BusySays DEF SlotsInv, Awaited
<1>10. ASSUME NEW q \in pending', Awaited(q)
       PROVE  \E p \in pending : Awaited(p) /\ p \notin R /\ p.conn = q.conn /\ p.id = q.id
  <2>1. PICK p \in pending \ S : q = p \/ q = [p EXCEPT !.future = TRUE]
    OBVIOUS
  <2>2. p \in Pendings /\ p \notin R
    BY <1>1, <1>4, <2>1
  <2>3. q.conn = p.conn /\ q.id = p.id /\ q.answered = p.answered /\ q.detached = p.detached
    BY <2>1, <2>2, PendingIs
  <2> QED BY <1>10, <2>1, <2>2, <2>3 DEF Awaited
<1>11. \A w \in Range(waiting') : w \in Range(waiting) /\ w \notin R
  BY <1>9
<1>12. /\ \A r \in R : r \in Range(waiting) \/ (r \in pending /\ Awaited(r))
       /\ \A c \in Conns :
            /\ Once(M[c])
            /\ \A i \in RequestIds : Mentions(M[c], i) => \E r \in R : r.conn = c /\ r.id = i
  BY <1>4, <1>8
<1>13. \A q \in pending' : Awaited(q) =>
         \E p \in pending : Awaited(p) /\ p \notin R /\ p.conn = q.conn /\ p.id = q.id
  BY <1>10
<1> QED BY <1>2, <1>7, <1>11, <1>12, <1>13, StepsAnswered

LEMMA ReturnRequests ==
  ASSUME SlotsInv, RequestsInv, NEW F, StepReturns(F)
  PROVE  RequestsInv'
<1>1. Typed /\ UNCHANGED <<events, todo, calls, waiting>>
  BY DEF SlotsInv, StepReturns, client
<1>2. PICK K, f :
           /\ K \subseteq pending
           /\ \A x \in K : f[x] = x \/ f[x] = [x EXCEPT !.future = TRUE]
           /\ \A q \in pending' : \E x \in K : q = f[x]
           /\ Complete(pending \ K)
  BY <1>1, ReturnIs
<1>3. PICK S : S = pending \ K
  OBVIOUS
<1>4. S \subseteq pending /\ Complete(S) /\ \A x \in K : x \in pending \ S
  BY <1>2, <1>3
<1> QED BY <1>1, <1>2, <1>4, CompletedRequests

LEMMA FutureRequests ==
  ASSUME SlotsInv, RequestsInv, NEW p \in pending, FutureDone(p)
  PROVE  RequestsInv'
<1>1. PICK S : S = {p}
  OBVIOUS
<1>2. /\ UNCHANGED <<events, todo, calls, waiting>> /\ S \subseteq pending /\ Complete(S)
      /\ pending' = pending \ S
  BY <1>1 DEF FutureDone, client, thread
<1> QED BY <1>2, CompletedRequests

LEMMA TakenRequests ==
  ASSUME SlotsInv, RequestsInv, EventsTaken
  PROVE  RequestsInv'
<1>1. /\ todo = <<>> /\ events' = <<>> /\ todo' = events /\ ResetsInOrder
      /\ UNCHANGED <<waiting, pending, calls, answers>>
  BY DEF EventsTaken, Turn, SlotsInv, ThreadInHand, RequestsInv, policy, client, wires
<1>2. ResetsInOrder' /\ \A d, i : OwedReset(d, i)' => OwedReset(d, i)
  BY <1>1, OrderTaken
<1> QED BY <1>1, <1>2, NothingAnswered

\* Sessions that leave are told nothing but the end.
LEMMA FlushesOnly ==
  ASSUME NEW L
  PROVE  \A c \in Conns : /\ Once(Flushes(L)[c]) /\ \A i \in RequestIds : ~Mentions(Flushes(L)[c], i)
                          /\ \A m \in Range(Flushes(L)[c]) : m.kind = "flush"
<1>1. 0 \notin RequestIds
  BY DEF RequestIds
<1>2. \A c \in Conns : Flushes(L)[c] = <<Flush>> \/ Flushes(L)[c] = <<>>
  BY DEF Flushes
<1>3. /\ Once(<<Flush>>) /\ \A i \in RequestIds : ~Mentions(<<Flush>>, i)
      /\ \A m \in Range(<<Flush>>) : m.kind = "flush"
  BY <1>1, FlushIs, OneMessage
<1> QED BY <1>2, <1>3, NoMessage

LEMMA DropOwed ==
  ASSUME Typed, NEW C, pending' = DropPending(C)
  PROVE  \A q \in pending' : Awaited(q) => q \in pending /\ q.conn \notin C
<1> SUFFICES ASSUME NEW q \in pending', Awaited(q)
             PROVE  q \in pending /\ q.conn \notin C
  OBVIOUS
<1>1. PICK p \in pending : q = IF p.conn \in C THEN [p EXCEPT !.detached = TRUE] ELSE p
  BY DEF DropPending
<1>2. p \in Pendings
  BY DEF Typed, ServerTypeOK
<1>3. [p EXCEPT !.detached = TRUE].detached = TRUE
  BY <1>2, PendingIs
<1> QED BY <1>1, <1>3 DEF Awaited

LEMMA LeaveRequests ==
  ASSUME SlotsInv, RequestsInv, NEW L, L \subseteq Conns, Leave(L), calls' = calls,
         ResetsInOrder', \A c, i : OwedReset(c, i)' => OwedReset(c, i)
  PROVE  RequestsInv'
<1>1. PICK left : Drop(left) /\ pending' = DropPending(left) /\ Delivered(Flushes(L), call)
  BY LeaveIs
<1>2. Typed /\ BusyIsHeld /\ pending \subseteq Pendings
  BY DEF SlotsInv, Typed, ServerTypeOK
<1>3. /\ \A w \in Range(waiting') : w \in Range(waiting) /\ w.conn \notin left
      /\ \A q \in pending' : \/ q \in pending /\ q.conn \notin left
                             \/ \E p \in pending : /\ p.conn \in left
                                                   /\ q = [p EXCEPT !.detached = TRUE]
  BY <1>1, <1>2, DropBusy
<1>4. \A q \in pending' : Awaited(q) => q \in pending
  BY <1>1, <1>2, DropOwed
<1>5. PICK R, M : R = {} /\ M = Flushes(L)
  OBVIOUS
<1>6. Delivered(M, call)
  BY <1>1, <1>5
<1>7. /\ \A r \in R : r \in Range(waiting) \/ (r \in pending /\ Awaited(r))
      /\ \A c \in Conns :
           /\ Once(M[c])
           /\ \A i \in RequestIds : Mentions(M[c], i) => \E r \in R : r.conn = c /\ r.id = i
  BY <1>5, FlushesOnly
<1>8. \A w \in Range(waiting') : w \in Range(waiting) /\ w \notin R
  BY <1>3, <1>5
<1>9. \A q \in pending' : Awaited(q) =>
        \E p \in pending : Awaited(p) /\ p \notin R /\ p.conn = q.conn /\ p.id = q.id
  BY <1>4, <1>5
<1> QED BY <1>6, <1>7, <1>8, <1>9, StepsAnswered

LEMMA LeavingRequests ==
  ASSUME SlotsInv, RequestsInv, OpenBegins \/ LeaveApplied
  PROVE  RequestsInv'
<1>1. Typed /\ ResetsInOrder
  BY DEF SlotsInv, RequestsInv
<1>2. CASE OpenBegins
  <2>1. UNCHANGED <<events, todo, calls>> /\ Leave(Held(Event.conn))
    BY <1>2 DEF OpenBegins, client
  <2>2. PICK L : L = Held(Event.conn)
    OBVIOUS
  <2>3. L \subseteq Conns /\ Leave(L)
    BY <2>1, <2>2 DEF Held
  <2>4. ResetsInOrder' /\ \A d, i : OwedReset(d, i)' => OwedReset(d, i)
    BY <1>1, <2>1, OrderKept
  <2> QED BY <2>1, <2>3, <2>4, LeaveRequests
<1>3. CASE LeaveApplied
  <2>1. /\ events' = events /\ calls' = calls /\ EventDone /\ Leave({Event.conn})
        /\ todo # <<>> /\ Event.conn \in Conns
    BY <1>3, InHand DEF LeaveApplied, Applies, client
  <2>2. PICK L : L = {Event.conn}
    OBVIOUS
  <2>3. L \subseteq Conns /\ Leave(L)
    BY <2>1, <2>2
  <2>4. ResetsInOrder' /\ \A d, i : OwedReset(d, i)' => OwedReset(d, i)
    BY <1>1, <2>1, OrderDone
  <2> QED BY <2>1, <2>3, <2>4, LeaveRequests
<1> QED BY <1>2, <1>3

\* The ends of an open answer no request.
LEMMA OpenRequests ==
  ASSUME SlotsInv, RequestsInv, OpenSucceeds \/ OpenFails \/ OpenSkipped
  PROVE  RequestsInv'
<1>1. Typed /\ ResetsInOrder /\ 0 \notin RequestIds
  BY DEF SlotsInv, RequestsInv, RequestIds
<1>2. /\ UNCHANGED <<waiting, pending, calls, events>> /\ EventDone
      /\ at \in {"events", "opening"}
  BY DEF OpenSucceeds, OpenFails, OpenSkipped, Applies, policy, client
<1>3. todo # <<>> /\ Event.conn \in Conns
  BY <1>2, InHand
<1>4. ResetsInOrder' /\ \A d, i : OwedReset(d, i)' => OwedReset(d, i)
  BY <1>1, <1>2, <1>3, OrderDone
<1>5. \A d \in Conns : \A i \in RequestIds : answers'[d][i] = answers[d][i]
  <2>1. CASE OpenSkipped
    BY <2>1 DEF OpenSkipped, wires
  <2>2. CASE OpenFails
    BY <2>2, OpenFailsPosts DEF Delivered
  <2>3. CASE OpenSucceeds
    <3>1. PICK c \in Conns : c = Event.conn
      BY <1>3
    <3>2. gen[c] \in Nat
      BY <1>1 DEF Typed, ServerTypeOK
    <3>3. PICK m \in Messages : m = Answer("welcome", 0, gen[c]) /\ m.id = 0
      BY <3>2, AnswerIs
    <3>4. PICK ms \in Seq(Messages) : ms = <<m>> /\ \A i \in RequestIds : ~Mentions(ms, i)
      <4>1. <<m>> \in Seq(Messages) /\ \A i \in RequestIds : ~Mentions(<<m>>, i)
        BY <1>1, <3>3, OneMessage
      <4> QED BY <4>1
    <3>5. Post(To(c, ms))
      BY <2>3, <3>1, <3>3, <3>4 DEF OpenSucceeds
    <3>6. PICK M : /\ M \in [Conns -> Seq(Messages)] /\ Delivered(M, call)
                   /\ M[c] = ms /\ \A d \in Conns : d # c => M[d] = <<>>
      BY <1>1, <3>5, PostedTo
    <3>7. \A d \in Conns : \A i \in RequestIds : ~Mentions(M[d], i)
      BY <3>4, <3>6, NoMessage
    <3> QED BY <3>6, <3>7 DEF Delivered
  <2> QED BY <2>1, <2>2, <2>3
<1> QED BY <1>2, <1>4, <1>5, NothingAnswered

LEMMA ResetBeginsRequests ==
  ASSUME SlotsInv, RequestsInv, ResetBegins
  PROVE  RequestsInv'
<1>1. PICK c : c = Event.conn
  OBVIOUS
<1>2. /\ Drop({c}) /\ pending' = DropPending({c}) /\ UNCHANGED <<events, todo, calls>>
  BY <1>1 DEF ResetBegins, client
<1>3. Typed /\ ResetsInOrder /\ BusyIsHeld /\ pending \subseteq Pendings
  BY DEF SlotsInv, RequestsInv, Typed, ServerTypeOK
<1>4. ResetsInOrder' /\ \A d, i : OwedReset(d, i)' => OwedReset(d, i)
  BY <1>2, <1>3, OrderKept
<1>5. PICK R : /\ \A r \in R : r \in WaitingOf({c}) \/
                      (r \in pending /\ r.conn = c /\ r.future /\ Awaited(r))
               /\ \A r \in R : r.id \in RequestIds
               /\ Delivered([d \in Conns |-> Failures(d, R)], call)
  BY <1>1, ResetBeginsPosts
<1>6. PICK M : M = [d \in Conns |-> Failures(d, R)]
  OBVIOUS
<1>7. Delivered(M, call)
  BY <1>5, <1>6
<1>8. \A d \in Conns :
        /\ Once(M[d])
        /\ \A i \in RequestIds : Mentions(M[d], i) => \E r \in R : r.conn = d /\ r.id = i
  BY <1>5, <1>6, FailuresAre
<1>9. \A r \in R : r.conn = c /\ (r \in Range(waiting) \/ (r \in pending /\ Awaited(r)))
  BY <1>5 DEF WaitingOf
<1>10. PICK C : C = {c}
  OBVIOUS
<1>11. /\ \A w \in Range(waiting') : w \in Range(waiting) /\ w.conn \notin C
       /\ \A q \in pending' : \/ q \in pending /\ q.conn \notin C
                              \/ \E p \in pending : /\ p.conn \in C
                                                    /\ q = [p EXCEPT !.detached = TRUE]
  <2>1. Drop(C) /\ pending' = DropPending(C)
    BY <1>2, <1>10
  <2> QED BY <1>3, <2>1, DropBusy
<1>12. \A q \in pending' : Awaited(q) =>
         \E p \in pending : Awaited(p) /\ p \notin R /\ p.conn = q.conn /\ p.id = q.id
  <2>1. \A q \in pending' : Awaited(q) => q \in pending /\ q.conn \notin C
    BY <1>2, <1>3, <1>10, DropOwed
  <2> QED BY <1>9, <1>10, <2>1
<1>13. \A w \in Range(waiting') : w \in Range(waiting) /\ w \notin R
  BY <1>9, <1>10, <1>11
<1>14. \A r \in R : r \in Range(waiting) \/ (r \in pending /\ Awaited(r))
  BY <1>9
<1>15. calls' = calls
  BY <1>2
<1> QED BY <1>4, <1>7, <1>8, <1>12, <1>13, <1>14, <1>15, StepsAnswered

\* A reset finished: its answer, and none of another request.
LEMMA ResetAnswered ==
  ASSUME SlotsInv, RequestsInv, todo # <<>>, EventDone, Event.kind = "reset",
         events' = events, calls' = calls, NEW M, NEW W, Delivered(M, W),
         \A c \in Conns :
           /\ Once(M[c])
           /\ \A i \in RequestIds : Mentions(M[c], i) => c = Event.conn /\ i = Event.id,
         \A c, i : OwedStep(c, i)' => OwedStep(c, i)
  PROVE  RequestsInv'
<1>1. Typed /\ ResetsInOrder
  BY DEF SlotsInv, RequestsInv
<1>2. /\ ResetsInOrder' /\ \A c, i : OwedReset(c, i)' => OwedReset(c, i)
      /\ \A c, i : c = Event.conn /\ i = Event.id => OwedReset(c, i) /\ ~OwedReset(c, i)'
  BY <1>1, OrderDone
<1>3. ASSUME NEW c \in Conns, NEW i \in RequestIds, Mentions(M[c], i)
      PROVE  OwedReset(c, i) /\ ~OwedStep(c, i)' /\ ~OwedReset(c, i)'
  <2>1. c = Event.conn /\ i = Event.id
    BY <1>3
  <2>2. OwedReset(c, i) /\ ~OwedReset(c, i)'
    BY <1>2, <2>1
  <2>3. ~OwedStep(c, i)
    BY <2>2 DEF RequestsInv, OwedAreNew
  <2> QED BY <2>2, <2>3
<1>4. \A c \in Conns : \A i \in RequestIds :
        /\ OwedStep(c, i)' => OwedStep(c, i)
        /\ OwedReset(c, i)' => OwedReset(c, i)
        /\ Mentions(M[c], i) => /\ OwedStep(c, i) \/ OwedReset(c, i)
                                /\ ~OwedStep(c, i)' /\ ~OwedReset(c, i)' /\ Once(M[c])
  BY <1>2, <1>3
<1> QED BY <1>1, <1>2, <1>4, AnswersNext

LEMMA ResetEndsRequests ==
  ASSUME SlotsInv, RequestsInv, ResetSucceeds \/ ResetFails \/ ResetSkipped
  PROVE  RequestsInv'
<1>1. /\ EventDone /\ events' = events /\ calls' = calls /\ at \in {"events", "resetting"}
      /\ Event.kind = "reset"
  BY DEF ResetSucceeds, ResetFails, ResetSkipped, Applies, client, SlotsInv, ThreadInHand
<1>2. Typed /\ todo # <<>> /\ Event.conn \in Conns /\ Event.id \in Nat
  BY <1>1, InHand DEF SlotsInv
<1>3. CASE ResetSkipped
  <2>1. UNCHANGED <<waiting, pending>>
    BY <1>3 DEF ResetSkipped, policy
  <2>2. PICK M : /\ Delivered(M, call)
                 /\ \A d \in Conns : /\ Once(M[d])
                                     /\ \A i : Mentions(M[d], i) => d = Event.conn /\ i = Event.id
    BY <1>3, ResetSkippedPosts
  <2> QED BY <1>1, <1>2, <2>1, <2>2, StepsKept, ResetAnswered
<1>4. CASE ResetFails
  <2>1. PICK M : /\ Delivered(M, call)
                 /\ \A d \in Conns :
                      /\ Once(M[d])
                      /\ \A i \in RequestIds : Mentions(M[d], i) => d = Event.conn /\ i = Event.id
    BY <1>4, ResetFailsPosts
  <2>2. PICK C : C = {Event.conn}
    OBVIOUS
  <2>3. Drop(C) /\ pending' = DropPending(C)
    BY <1>4, <2>2 DEF ResetFails, Forget
  <2>4. /\ \A w \in Range(waiting') : w \in Range(waiting)
        /\ \A q \in pending' : Awaited(q) => q \in pending
    BY <1>2, <2>3, DropBusy, DropOwed DEF SlotsInv
  <2>5. \A c, i : OwedStep(c, i)' => OwedStep(c, i)
    BY <2>4 DEF OwedStep, Awaited
  <2> QED BY <1>1, <1>2, <2>1, <2>5, ResetAnswered
<1>5. CASE ResetSucceeds
  <2>1. UNCHANGED <<waiting, pending>>
    BY <1>5 DEF ResetSucceeds, policy
  <2>2. PICK c \in Conns : c = Event.conn
    BY <1>2
  <2>3. gen[c] \in Nat
    BY <1>2 DEF Typed, ServerTypeOK
  <2>4. PICK m \in Messages : m = Answer("done", Event.id, gen[c]) /\ m.id = Event.id
    BY <1>2, <2>3, AnswerIs
  <2>5. <<m>> \in Seq(Messages) /\ Once(<<m>>) /\ \A i : Mentions(<<m>>, i) => i = m.id
    BY OneMessage
  <2>6. PICK ms \in Seq(Messages) : ms = <<m>>
    BY <2>5
  <2>7. Post(To(c, ms))
    BY <1>5, <2>2, <2>4, <2>6 DEF ResetSucceeds
  <2>8. PICK M : /\ M \in [Conns -> Seq(Messages)] /\ Delivered(M, call)
                 /\ M[c] = ms /\ \A d \in Conns : d # c => M[d] = <<>>
    BY <1>2, <2>7, PostedTo
  <2>9. \A d \in Conns : /\ Once(M[d])
                         /\ \A i \in RequestIds : Mentions(M[d], i) => d = Event.conn /\ i = Event.id
    BY <2>2, <2>4, <2>5, <2>6, <2>8, NoMessage
  <2> QED BY <1>1, <1>2, <2>1, <2>8, <2>9, StepsKept, ResetAnswered
<1> QED BY <1>3, <1>4, <1>5

LEMMA EndsAllRequests ==
  ASSUME SlotsInv, RequestsInv, EndsAll
  PROVE  RequestsInv'
<1>1. PICK X :  /\ X \in {{}, connections} /\ AnswerInFlight(X)
                /\ at \in {"loop", "ended"}
                /\ UNCHANGED <<slot, gen, reading, todo, refusing, client>>
  BY EndsAllIs
<1>2. Typed /\ ResetsInOrder /\ X \subseteq Conns /\ todo = <<>> /\ calls' = calls
  BY <1>1 DEF SlotsInv, RequestsInv, Typed, ServerTypeOK, ThreadInHand, client
<1>3. PICK leaving, unopened, left, M : InFlight(X, leaving, unopened, left, M)
  BY <1>1, <1>2, InFlightIs
<1>4. /\ Delivered(M, call) /\ events' = <<>> /\ waiting' = <<>> /\ pending' = {} /\ todo' = <<>>
      /\ \A c \in Conns :
           /\ Once(M[c])
           /\ \A i \in RequestIds : Mentions(M[c], i) => OwedStep(c, i) \/ OwedReset(c, i)
  BY <1>1, <1>2, <1>3 DEF InFlight
<1>5. Range(<<>>) = {} /\ Resets(<<>>) = {}
  BY NoMessage DEF Resets
<1>6. \A c, i : ~OwedStep(c, i)' /\ ~OwedReset(c, i)'
  BY <1>4, <1>5 DEF OwedStep, OwedReset
<1>7. ResetsInOrder'
  BY <1>4, <1>5 DEF ResetsInOrder, Rising
<1>8. \A c \in Conns : \A i \in RequestIds :
        /\ OwedStep(c, i)' => OwedStep(c, i)
        /\ OwedReset(c, i)' => OwedReset(c, i)
        /\ Mentions(M[c], i) => /\ OwedStep(c, i) \/ OwedReset(c, i)
                                /\ ~OwedStep(c, i)' /\ ~OwedReset(c, i)' /\ Once(M[c])
  BY <1>4, <1>6
<1> QED BY <1>2, <1>4, <1>7, <1>8, AnswersNext

\* A request made: queued, or refused at once.
LEMMA AskedNext ==
  ASSUME Typed, RequestsInv, NEW c \in Conns, NEW id \in RequestIds, id = calls[c] + 1,
         \A d \in Conns : calls'[d] = IF d = c THEN id ELSE calls[d],
         NEW M, NEW W, Delivered(M, W), ResetsInOrder',
         \A d \in Conns : \A i \in RequestIds :
           /\ OwedStep(d, i)' => OwedStep(d, i) \/ (d = c /\ i = id)
           /\ OwedReset(d, i)' => OwedReset(d, i) \/ (d = c /\ i = id)
           /\ Mentions(M[d], i) => d = c /\ i = id /\ Once(M[d]),
         ~(OwedStep(c, id)' /\ OwedReset(c, id)'),
         Mentions(M[c], id) => ~OwedStep(c, id)' /\ ~OwedReset(c, id)'
  PROVE  RequestsInv'
<1>1. ASSUME NEW d \in Conns, NEW i \in RequestIds
      PROVE  /\ answers[d][i] \in Nat /\ answers'[d][i] \in Nat /\ calls[d] \in Nat /\ i \in Nat
             /\ answers[d][i] <= 1
             /\ OwedStep(d, i) \/ OwedReset(d, i) => i <= calls[d] /\ answers[d][i] = 0
             /\ answers[d][i] > 0 => i <= calls[d]
             /\ ~ (OwedStep(d, i) /\ OwedReset(d, i))
             /\ ~Mentions(M[d], i) => answers'[d][i] = answers[d][i]
             /\ Mentions(M[d], i) => answers'[d][i] <= answers[d][i] + 1
  <2>1. answers \in [Conns -> [RequestIds -> Nat]] /\ answers' \in [Conns -> [RequestIds -> Nat]]
    BY DEF Typed, ServerTypeOK, Delivered
  <2>2. calls[d] \in 0 .. MaxCalls /\ i \in 1 .. MaxCalls
    BY DEF Typed, ServerTypeOK, RequestIds
  <2>3. calls[d] \in Nat /\ i \in Nat
    BY <2>2
  <2>4. /\ ~Mentions(M[d], i) => answers'[d][i] = answers[d][i]
        /\ Mentions(M[d], i) => answers'[d][i] <= answers[d][i] + 1
    BY DEF Delivered
  <2>5. /\ answers[d][i] <= 1
        /\ OwedStep(d, i) \/ OwedReset(d, i) => i <= calls[d] /\ answers[d][i] = 0
        /\ answers[d][i] > 0 => i <= calls[d]
        /\ ~ (OwedStep(d, i) /\ OwedReset(d, i))
    BY DEF RequestsInv, AnsweredOnce, OwedAreNew
  <2> QED BY <2>1, <2>3, <2>4, <2>5
<1>2. answers[c][id] = 0 /\ ~OwedStep(c, id) /\ ~OwedReset(c, id)
  BY <1>1
<1>3. ASSUME NEW d \in Conns, NEW i \in RequestIds
      PROVE  /\ OwedStep(d, i)' \/ OwedReset(d, i)' => i <= calls'[d] /\ answers'[d][i] = 0
             /\ answers'[d][i] > 0 => i <= calls'[d]
             /\ ~ (OwedStep(d, i)' /\ OwedReset(d, i)')
             /\ answers'[d][i] <= 1
  <2>1. CASE d = c /\ i = id
    BY <1>1, <1>2, <2>1
  <2>2. CASE ~(d = c /\ i = id)
    <3>1. /\ answers'[d][i] = answers[d][i] /\ calls[d] <= calls'[d] /\ calls'[d] \in Nat
          /\ OwedStep(d, i)' => OwedStep(d, i)
          /\ OwedReset(d, i)' => OwedReset(d, i)
      BY <1>1, <2>2
    <3> QED BY <1>1, <3>1
  <2> QED BY <2>1, <2>2
<1>4. OwedAreNew' /\ AnsweredOnce'
  BY <1>3 DEF OwedAreNew, AnsweredOnce
<1> QED BY <1>4 DEF RequestsInv

LEMMA StepRequests ==
  ASSUME SlotsInv, RequestsInv, NEW c \in Conns, ClientStep(c)
  PROVE  RequestsInv'
<1>1. Typed /\ ResetsInOrder /\ waiting \in Seq(Requests)
  BY DEF SlotsInv, RequestsInv, Typed, ServerTypeOK
<1>2. /\ Idle(c) /\ calls' = [calls EXCEPT ![c] = calls[c] + 1] /\ UNCHANGED <<events, todo, pending>>
  BY DEF ClientStep, thread
<1>3. PICK id \in RequestIds : id = calls[c] + 1
  BY <1>1, <1>2, AsksIs
<1>4. \A d \in Conns : calls'[d] = IF d = c THEN id ELSE calls[d]
  BY <1>1, <1>2, <1>3, AsksIs
<1>5. ResetsInOrder' /\ \A d, i : OwedReset(d, i)' <=> OwedReset(d, i)
  BY <1>1, <1>2, OrderKept
<1>6. ~OwedReset(c, id) /\ ~OwedStep(c, id)
  <2>1. calls[c] \in Nat
    BY <1>1, <1>2, AsksIs
  <2>2. ~(id <= calls[c])
    BY <1>3, <2>1
  <2> QED BY <2>2 DEF RequestsInv, OwedAreNew
<1>7. CASE /\ Delivered(Nothing, Asks(c, "step"))
           /\ waiting' = Append(waiting, [conn |-> c, id |-> calls[c] + 1])
  <2>0. /\ [conn |-> c, id |-> id] \in Requests
        /\ [conn |-> c, id |-> id].conn = c /\ [conn |-> c, id |-> id].id = id
    BY DEF Requests
  <2>1. PICK w \in Requests : w = [conn |-> c, id |-> id] /\ w.conn = c /\ w.id = id
    BY ONLY <2>0
  <2>2. waiting' = Append(waiting, w)
    BY <1>3, <1>7, <2>1
  <2>3. Range(waiting') = Range(waiting) \union {w}
    BY <1>1, <2>2, AppendIs
  <2>4. \A d, i : OwedStep(d, i)' => OwedStep(d, i) \/ (d = c /\ i = id)
    BY <1>2, <2>1, <2>3 DEF OwedStep, Awaited
  <2>5. PICK M, W : Delivered(M, W) /\ \A d \in Conns : \A i : ~Mentions(M[d], i)
    <3>1. PICK M : M = Nothing
      OBVIOUS
    <3>2. PICK W : W = Asks(c, "step")
      OBVIOUS
    <3>3. Delivered(M, W) /\ \A d \in Conns : \A i : ~Mentions(M[d], i)
      BY <1>7, <3>1, <3>2, NothingPosted
    <3> QED BY <3>3
  <2>6. \A d \in Conns : \A i \in RequestIds :
          /\ OwedStep(d, i)' => OwedStep(d, i) \/ (d = c /\ i = id)
          /\ OwedReset(d, i)' => OwedReset(d, i) \/ (d = c /\ i = id)
          /\ Mentions(M[d], i) => d = c /\ i = id /\ Once(M[d])
    BY <1>5, <2>4, <2>5
  <2>7. /\ ~(OwedStep(c, id)' /\ OwedReset(c, id)')
        /\ Mentions(M[c], id) => ~OwedStep(c, id)' /\ ~OwedReset(c, id)'
    BY <1>5, <1>6, <2>5
  <2> QED BY <1>1, <1>3, <1>4, <1>5, <2>5, <2>6, <2>7, AskedNext
<1>8. CASE /\ Delivered(To(c, <<Failed(calls[c] + 1)>>), Asks(c, "step"))
           /\ UNCHANGED <<waiting, busy>>
  <2>1. \A d, i : OwedStep(d, i)' <=> OwedStep(d, i)
    BY <1>2, <1>8, StepsKept
  <2>2. PICK W : W = Asks(c, "step")
    OBVIOUS
  <2>3. Delivered(To(c, <<Failed(id)>>), W)
    BY <1>3, <1>8, <2>2
  <2>4. PICK M : /\ Delivered(M, W)
                 /\ \A d \in Conns : /\ Once(M[d])
                                     /\ \A j : Mentions(M[d], j) => d = c /\ j = id
                                     /\ \A m \in Range(M[d]) : m.kind = "reply"
    <3>1. id \in Nat
      BY DEF RequestIds
    <3>2. PICK f \in Messages : f = Failed(id) /\ f.id = id /\ f.kind = "reply"
      BY <3>1, FailedIs
    <3>3. /\ <<f>> \in Seq(Messages) /\ Once(<<f>>) /\ \A j : Mentions(<<f>>, j) => j = id
          /\ Range(<<f>>) = {f}
      BY <3>2, OneMessage
    <3>4. PICK ms \in Seq(Messages) : ms = <<f>>
      BY <3>3
    <3>5. PICK M : M = To(c, ms)
      OBVIOUS
    <3>6. Delivered(M, W)
      BY <2>3, <3>2, <3>4, <3>5
    <3>7. Once(ms) /\ (\A j : Mentions(ms, j) => j = id) /\ \A m \in Range(ms) : m.kind = "reply"
      BY <3>2, <3>3, <3>4
    <3>8. \A d \in Conns : /\ Once(M[d])
                           /\ \A j : Mentions(M[d], j) => d = c /\ j = id
                           /\ \A m \in Range(M[d]) : m.kind = "reply"
      <4>1. M[c] = ms /\ \A d \in Conns : d # c => M[d] = <<>>
        BY <3>5, ToIs
      <4> QED BY <3>7, <4>1, NoMessage
    <3> QED BY <3>6, <3>8
  <2>5. \A d \in Conns : \A i \in RequestIds :
          /\ OwedStep(d, i)' => OwedStep(d, i) \/ (d = c /\ i = id)
          /\ OwedReset(d, i)' => OwedReset(d, i) \/ (d = c /\ i = id)
          /\ Mentions(M[d], i) => d = c /\ i = id /\ Once(M[d])
    BY <1>5, <2>1, <2>4
  <2>6. /\ ~(OwedStep(c, id)' /\ OwedReset(c, id)')
        /\ Mentions(M[c], id) => ~OwedStep(c, id)' /\ ~OwedReset(c, id)'
    BY <1>5, <1>6, <2>1
  <2> QED BY <1>1, <1>3, <1>4, <1>5, <2>4, <2>5, <2>6, AskedNext
<1> QED BY <1>1, <1>7, <1>8, StepPosts

\* A reset queued behind the others of its connection.
LEMMA ResetQueued ==
  ASSUME Typed, RequestsInv, NEW c \in Conns, NEW id \in RequestIds, id = calls[c] + 1,
         Queue("reset", c, id), todo' = todo
  PROVE  /\ ResetsInOrder'
         /\ \A d, i : OwedReset(d, i)' => OwedReset(d, i) \/ (d = c /\ i = id)
<1>1. ResetsInOrder /\ events \in Seq(Events) /\ todo \in Seq(Events) /\ id \in Nat
  BY DEF RequestsInv, Typed, ServerTypeOK, RequestIds
<1>2. PICK e \in Events : e = [kind |-> "reset", conn |-> c, id |-> id]
  BY <1>1 DEF Events
<1>3. e.kind = "reset" /\ e.conn = c /\ e.id = id /\ events' = Append(events, e)
  BY <1>2 DEF Queue
<1>4. Range(events') = Range(events) \union {e}
  BY <1>1, <1>3, AppendIs
<1>5. Resets(events') = Resets(events) \union {e} /\ Resets(todo') = Resets(todo)
  BY <1>3, <1>4 DEF Resets
<1>6. ASSUME NEW f \in Resets(events) \union Resets(todo), f.conn = c
      PROVE  f.id < id
  <2>1. f.id \in RequestIds /\ OwedReset(c, f.id)
    BY <1>1, <1>6 DEF ResetsInOrder, OwedReset
  <2>2. f.id <= calls[c]
    BY <2>1 DEF RequestsInv, OwedAreNew
  <2>3. f.id \in Nat /\ calls[c] \in Nat
    <3>1. calls[c] \in 0 .. MaxCalls
      BY DEF Typed, ServerTypeOK
    <3> QED BY <2>1, <3>1 DEF RequestIds
  <2> QED BY <2>2, <2>3
<1>7. /\ DOMAIN events' = 1 .. Len(events) + 1 /\ DOMAIN events = 1 .. Len(events)
      /\ Len(events) \in Nat
      /\ \A k \in DOMAIN events : events'[k] = events[k]
      /\ events'[Len(events) + 1] = e
  BY <1>1, <1>3
<1>8. Rising(events')
  <2>1. SUFFICES ASSUME NEW i \in DOMAIN events', NEW j \in DOMAIN events', i < j,
                        events'[i].kind = "reset", events'[j].kind = "reset",
                        events'[i].conn = events'[j].conn
                 PROVE  events'[i].id < events'[j].id
    BY DEF Rising
  <2>2. i \in DOMAIN events /\ events'[i] = events[i]
    BY <1>7, <2>1
  <2>3. CASE j \in DOMAIN events
    BY <1>1, <1>7, <2>1, <2>2, <2>3 DEF ResetsInOrder, Rising
  <2>4. CASE j = Len(events) + 1
    <3>1. events[i] \in Resets(events) /\ events[i].conn = c
      BY <1>3, <1>7, <2>1, <2>2, <2>4 DEF Resets, Range
    <3>2. events[i].id < id
      BY <1>6, <3>1
    <3> QED BY <1>3, <1>7, <2>2, <2>4, <3>2
  <2> QED BY <1>7, <2>3, <2>4
<1>9. Rising(todo')
  BY <1>1 DEF ResetsInOrder, Rising
<1>10. \A f \in Resets(events') \union Resets(todo') : f.id \in RequestIds
  BY <1>1, <1>3, <1>5 DEF ResetsInOrder
<1>11. \A f \in Resets(todo'), g \in Resets(events') : f.conn = g.conn => f.id < g.id
  BY <1>1, <1>3, <1>5, <1>6 DEF ResetsInOrder
<1> QED BY <1>3, <1>5, <1>8, <1>9, <1>10, <1>11 DEF ResetsInOrder, OwedReset

LEMMA ResetRequests ==
  ASSUME SlotsInv, RequestsInv, NEW c \in Conns, ClientReset(c)
  PROVE  RequestsInv'
<1>1. Typed /\ ResetsInOrder
  BY DEF SlotsInv, RequestsInv
<1>2. /\ Idle(c) /\ calls' = [calls EXCEPT ![c] = calls[c] + 1]
      /\ UNCHANGED <<todo, waiting, pending>>
  BY DEF ClientReset, thread, policy
<1>3. PICK id \in RequestIds : id = calls[c] + 1
  BY <1>1, <1>2, AsksIs
<1>4. \A d \in Conns : calls'[d] = IF d = c THEN id ELSE calls[d]
  BY <1>1, <1>2, <1>3, AsksIs
<1>5. \A d, i : OwedStep(d, i)' <=> OwedStep(d, i)
  BY <1>2, StepsKept
<1>6. ~OwedReset(c, id) /\ ~OwedStep(c, id)
  <2>1. calls[c] \in Nat
    BY <1>1, <1>2, AsksIs
  <2>2. ~(id <= calls[c])
    BY <1>3, <2>1
  <2> QED BY <2>2 DEF RequestsInv, OwedAreNew
<1>7. CASE /\ Delivered(Nothing, Asks(c, "reset"))
           /\ Queue("reset", c, calls[c] + 1)
  <2>1. /\ ResetsInOrder'
        /\ \A d, i : OwedReset(d, i)' => OwedReset(d, i) \/ (d = c /\ i = id)
    BY <1>1, <1>2, <1>3, <1>7, ResetQueued
  <2>2. PICK M, W : Delivered(M, W) /\ \A d \in Conns : \A i : ~Mentions(M[d], i)
    <3>1. PICK M : M = Nothing
      OBVIOUS
    <3>2. PICK W : W = Asks(c, "reset")
      OBVIOUS
    <3>3. Delivered(M, W) /\ \A d \in Conns : \A i : ~Mentions(M[d], i)
      BY <1>7, <3>1, <3>2, NothingPosted
    <3> QED BY <3>3
  <2>3. \A d \in Conns : \A i \in RequestIds :
          /\ OwedStep(d, i)' => OwedStep(d, i) \/ (d = c /\ i = id)
          /\ OwedReset(d, i)' => OwedReset(d, i) \/ (d = c /\ i = id)
          /\ Mentions(M[d], i) => d = c /\ i = id /\ Once(M[d])
    BY <1>5, <2>1, <2>2
  <2>4. /\ ~(OwedStep(c, id)' /\ OwedReset(c, id)')
        /\ Mentions(M[c], id) => ~OwedStep(c, id)' /\ ~OwedReset(c, id)'
    BY <1>5, <1>6, <2>2
  <2> QED BY <1>1, <1>3, <1>4, <2>1, <2>2, <2>3, <2>4, AskedNext
<1>8. CASE /\ Delivered(To(c, <<Failed(calls[c] + 1)>>), Asks(c, "reset"))
           /\ UNCHANGED <<resetPending, events>>
  <2>1. ResetsInOrder' /\ \A d, i : OwedReset(d, i)' <=> OwedReset(d, i)
    BY <1>1, <1>2, <1>8, OrderKept
  <2>2. PICK W : W = Asks(c, "reset")
    OBVIOUS
  <2>3. Delivered(To(c, <<Failed(id)>>), W)
    BY <1>3, <1>8, <2>2
  <2>4. PICK M : /\ Delivered(M, W)
                 /\ \A d \in Conns : /\ Once(M[d])
                                     /\ \A j : Mentions(M[d], j) => d = c /\ j = id
                                     /\ \A m \in Range(M[d]) : m.kind = "reply"
    <3>1. id \in Nat
      BY DEF RequestIds
    <3>2. PICK f \in Messages : f = Failed(id) /\ f.id = id /\ f.kind = "reply"
      BY <3>1, FailedIs
    <3>3. /\ <<f>> \in Seq(Messages) /\ Once(<<f>>) /\ \A j : Mentions(<<f>>, j) => j = id
          /\ Range(<<f>>) = {f}
      BY <3>2, OneMessage
    <3>4. PICK ms \in Seq(Messages) : ms = <<f>>
      BY <3>3
    <3>5. PICK M : M = To(c, ms)
      OBVIOUS
    <3>6. Delivered(M, W)
      BY <2>3, <3>2, <3>4, <3>5
    <3>7. Once(ms) /\ (\A j : Mentions(ms, j) => j = id) /\ \A m \in Range(ms) : m.kind = "reply"
      BY <3>2, <3>3, <3>4
    <3>8. \A d \in Conns : /\ Once(M[d])
                           /\ \A j : Mentions(M[d], j) => d = c /\ j = id
                           /\ \A m \in Range(M[d]) : m.kind = "reply"
      <4>1. M[c] = ms /\ \A d \in Conns : d # c => M[d] = <<>>
        BY <3>5, ToIs
      <4> QED BY <3>7, <4>1, NoMessage
    <3> QED BY <3>6, <3>8
  <2>5. \A d \in Conns : \A i \in RequestIds :
          /\ OwedStep(d, i)' => OwedStep(d, i) \/ (d = c /\ i = id)
          /\ OwedReset(d, i)' => OwedReset(d, i) \/ (d = c /\ i = id)
          /\ Mentions(M[d], i) => d = c /\ i = id /\ Once(M[d])
    BY <1>5, <2>1, <2>4
  <2>6. /\ ~(OwedStep(c, id)' /\ OwedReset(c, id)')
        /\ Mentions(M[c], id) => ~OwedStep(c, id)' /\ ~OwedReset(c, id)'
    BY <1>5, <1>6, <2>1
  <2> QED BY <1>1, <1>3, <1>4, <2>1, <2>4, <2>5, <2>6, AskedNext
<1> QED BY <1>1, <1>7, <1>8, ResetPosts

-------------------------------------------------------------------------------
(* Generations: what a step keeps of the clients' invariant.               *)

LEMMA NoResetIs ==
  ASSUME NEW c
  PROVE  /\ NoReset(c) <=> \A i : ~OwedReset(c, i)
         /\ NoReset(c)' <=> \A i : ~OwedReset(c, i)'
BY DEF NoReset, OwedReset

LEMMA QuietPosted ==
  ASSUME NEW M, NEW W, Delivered(M, W), W = call,
         \A c \in Conns : \A m \in Range(M[c]) : m.kind \notin {"welcome", "done"}
  PROVE  QuietLinks
BY DEF Delivered, QuietLinks, QuietLink

\* A step after which a client knows what it knew.
LEMMA QuietClient ==
  ASSUME SlotsInv, ClientsInv, NEW c \in Conns, QuietLink(c),
         ready'[c] = ready[c], clientGen'[c] = clientGen[c], calls'[c] = calls[c],
         cstate'[c] \in {"none", "CONNECTING", "OPENING"} =>
           cstate[c] \in {"none", "CONNECTING", "OPENING"},
         c \in connections' => c \in connections,
         gen'[c] = gen[c] \/ ~NoReset(c) \/ cstate[c] = "OPENING",
         \A i : OwedReset(c, i)' => OwedReset(c, i)
  PROVE  ClientOK(c)'
<1>1. NoCall.kind = "none"
  BY DEF NoCall
<1>2. NoReset(c) => NoReset(c)'
  BY NoResetIs
<1>3. c \in connections => cstate[c] = "OPEN"
  BY DEF SlotsInv, OneHolderPerSlot
<1>4. call'[c] = call[c] \/ call'[c] = NoCall
  BY DEF QuietLink
<1>5. Follows(c) /\ DoneIsLast(c) /\ ReadyIsCurrent(c)
  BY DEF ClientsInv, ClientOK
<1>6. Follows(c)'
  <2>1. call'[c].kind = "step" => ~OwedReset(c, calls[c])'
    <3>1. PICK i : i = calls[c] /\ i = calls'[c]
      OBVIOUS
    <3>2. OwedReset(c, i)' => OwedReset(c, i)
      OBVIOUS
    <3> QED BY <1>1, <1>4, <1>5, <3>1, <3>2 DEF Follows
  <2>2. cstate'[c] \in {"none", "CONNECTING", "OPENING"} =>
          /\ ~ready'[c]
          /\ \A m \in Range(outbox'[c]) : m.kind \notin {"welcome", "done"}
    BY <1>5 DEF Follows, QuietLink
  <2>3. /\ call'[c].kind = "hello" => ~ready'[c] /\ call'[c].id = 0
        /\ call'[c].kind \in {"step", "reset"} => call'[c].id = calls'[c] /\ calls'[c] > 0
    BY <1>1, <1>4, <1>5 DEF Follows
  <2> QED BY <2>1, <2>2, <2>3 DEF Follows
<1>7. ASSUME NEW m \in Range(outbox'[c])
      PROVE  /\ m.kind = "welcome" => m.id = 0
             /\ m.kind = "done" =>
                  /\ m.id \in 1 .. calls'[c]
                  /\ m.id = calls'[c] => call'[c].kind # "step" /\ m.gen = gen'[c] /\ NoReset(c)'
  <2>1. m.kind \in {"welcome", "done"} => m \in Range(outbox[c])
    BY DEF QuietLink
  <2>2. m.kind = "welcome" => m.id = 0
    BY <1>5, <2>1 DEF DoneIsLast
  <2>3. ASSUME m.kind = "done"
        PROVE  /\ m.id \in 1 .. calls[c] /\ cstate[c] # "OPENING"
               /\ m.id = calls[c] => call[c].kind # "step" /\ m.gen = gen[c] /\ NoReset(c)
    <3>1. m \in Range(outbox[c])
      BY <2>1, <2>3
    <3> QED BY <1>5, <2>3, <3>1 DEF DoneIsLast, Follows
  <2>4. ASSUME m.kind = "done", m.id = calls[c]
        PROVE  call'[c].kind # "step" /\ m.gen = gen'[c] /\ NoReset(c)'
    BY <1>1, <1>2, <1>4, <2>3, <2>4
  <2> QED BY <2>2, <2>3, <2>4
<1>8. DoneIsLast(c)'
  BY <1>7 DEF DoneIsLast
<1>9. ASSUME c \in connections', up'[c], ready'[c]
      PROVE  clientGen'[c] = gen'[c] /\ NoReset(c)'
  <2>1. c \in connections /\ cstate[c] = "OPEN" /\ ready[c] /\ up[c]
    BY <1>3, <1>9 DEF QuietLink
  <2>2. clientGen[c] = gen[c] /\ NoReset(c)
    BY <1>5, <2>1 DEF ReadyIsCurrent
  <2> QED BY <1>2, <2>1, <2>2
<1>10. ReadyIsCurrent(c)'
  BY <1>9 DEF ReadyIsCurrent
<1> QED BY <1>6, <1>8, <1>10 DEF ClientOK

LEMMA QuietClients ==
  ASSUME SlotsInv, ClientsInv, QuietLinks, UNCHANGED <<ready, clientGen, calls>>,
         \A c \in Conns : cstate'[c] \in {"none", "CONNECTING", "OPENING"} =>
                           cstate[c] \in {"none", "CONNECTING", "OPENING"},
         connections' \subseteq connections,
         \A c \in Conns : gen'[c] = gen[c] \/ ~NoReset(c) \/ cstate[c] = "OPENING",
         \A c, i : OwedReset(c, i)' => OwedReset(c, i)
  PROVE  ClientsInv'
<1>1. ASSUME NEW c \in Conns PROVE ClientOK(c)'
  <2>1. QuietLink(c)
    BY DEF QuietLinks
  <2> QED BY <2>1, QuietClient
<1> QED BY <1>1 DEF ClientsInv

\* A step that tells only c's client anything new.
LEMMA OthersQuiet ==
  ASSUME SlotsInv, ClientsInv, NEW c \in Conns, ClientOK(c)',
         \A d \in Conns : d # c =>
           /\ QuietLink(d) /\ ready'[d] = ready[d] /\ clientGen'[d] = clientGen[d]
           /\ calls'[d] = calls[d] /\ cstate'[d] = cstate[d] /\ gen'[d] = gen[d]
           /\ d \in connections' => d \in connections
           /\ \A i : OwedReset(d, i)' => OwedReset(d, i)
  PROVE  ClientsInv'
<1>1. ASSUME NEW d \in Conns, d # c PROVE ClientOK(d)'
  BY <1>1, QuietClient
<1> QED BY <1>1 DEF ClientsInv

\* The links unchanged, or one of them cut.
LEMMA QuietWires ==
  ASSUME SlotsInv, UNCHANGED wires \/ \E c \in Conns : Cut(c)
  PROVE  QuietLinks
<1>1. /\ up \in [Conns -> BOOLEAN] /\ outbox \in [Conns -> Seq(Messages)]
      /\ DOMAIN call = Conns
  BY DEF SlotsInv, Typed, ServerTypeOK
<1>2. CASE UNCHANGED wires
  BY <1>2 DEF wires, QuietLinks, QuietLink
<1>3. ASSUME NEW c \in Conns, Cut(c) PROVE QuietLinks
  <2>1. \A d \in Conns : /\ up'[d] => up[d]
                         /\ outbox'[d] = outbox[d] \/ outbox'[d] = <<>>
                         /\ call'[d] = call[d] \/ call'[d] = NoCall
    BY <1>1, <1>3 DEF Cut
  <2> QED BY <2>1, NoMessage DEF QuietLinks, QuietLink
<1> QED BY <1>2, <1>3

\* A step that leaves connections, events and what the clients know alone.
LEMMA KeptClients ==
  ASSUME SlotsInv, ResetsInOrder, ClientsInv, QuietLinks,
         UNCHANGED <<cstate, gen, connections, events, todo, ready, clientGen, calls>>
  PROVE  ClientsInv'
<1>1. \A c, i : OwedReset(c, i)' => OwedReset(c, i)
  BY OrderKept
<1> QED BY <1>1, QuietClients

LEMMA ReaderClients ==
  ASSUME SlotsInv, ResetsInOrder, ClientsInv, NEW c \in Conns,
         Reader(c) \/ ClientLeaves(c) \/ LinkEnds(c)
  PROVE  ClientsInv'
<1>1. Typed /\ DOMAIN cstate = Conns
  BY DEF SlotsInv, Typed, ServerTypeOK
<1>2. UNCHANGED <<gen, connections, todo, ready, clientGen, calls>>
  BY DEF Reader, Hello, HelloTurnedAway, HelloExpires, ReaderEnds, ReaderFails, ReaderLeaves,
         ClientLeaves, LinkEnds, client, thread, conn, holders
<1>3. \A d, i : OwedReset(d, i)' => OwedReset(d, i)
  <2>1. CASE UNCHANGED events
    BY <1>2, <2>1, OrderKept
  <2>2. CASE Queue("leave", c, 0) \/ Queue("open", c, 0)
    <3>1. PICK e \in Events : e.kind # "reset" /\ events' = Append(events, e)
      BY <2>2, QueuedIs
    <3> QED BY <1>1, <1>2, <3>1, OrderQueued
  <2> QED BY <2>1, <2>2 DEF Reader, Hello, HelloTurnedAway, HelloExpires, ReaderEnds, ReaderFails,
         ReaderLeaves, ClientLeaves, LinkEnds
<1>4. \A d \in Conns : cstate'[d] \in {"none", "CONNECTING", "OPENING"} =>
                       cstate[d] \in {"none", "CONNECTING", "OPENING"}
  <2>1. CASE UNCHANGED cstate
    BY <2>1
  <2>2. CASE cstate[c] = "CONNECTING" /\ cstate' = [cstate EXCEPT ![c] = "OPENING"]
    BY <1>1, <2>2
  <2> QED BY <2>1, <2>2 DEF Reader, Hello, HelloTurnedAway, HelloExpires, ReaderEnds, ReaderFails,
         ReaderLeaves, ClientLeaves, LinkEnds, conn
<1>5. QuietLinks
  <2>1. CASE HelloTurnedAway(c)
    <3>1. PICK m \in Messages : /\ m.kind \in {"refused", "flush"} /\ m.id = 0
                                /\ Delivered(To(c, <<m>>), call)
      BY <1>1, <2>1, TurnedAwayPosts
    <3>2. PICK M : M = To(c, <<m>>)
      OBVIOUS
    <3>3. <<m>> \in Seq(Messages) /\ Range(<<m>>) = {m}
      BY OneMessage
    <3>4. \A d \in Conns : M[d] = <<m>> \/ M[d] = <<>>
      BY <3>2, <3>3, ToIs
    <3>5. \A d \in Conns : \A n \in Range(M[d]) : n.kind \notin {"welcome", "done"}
      BY <3>1, <3>3, <3>4, NoMessage
    <3>6. Delivered(M, call)
      BY <3>1, <3>2
    <3> QED BY <3>5, <3>6, QuietPosted
  <2>2. CASE ~HelloTurnedAway(c)
    <3>1. UNCHANGED wires \/ Cut(c)
      BY <2>2 DEF Reader, Hello, HelloExpires, ReaderEnds, ReaderFails, ReaderLeaves, ClientLeaves,
                  LinkEnds
    <3> QED BY <3>1, QuietWires
  <2> QED BY <2>1, <2>2
<1> QED BY <1>2, <1>3, <1>4, <1>5, QuietClients

LEMMA GivesUpClients ==
  ASSUME SlotsInv, ResetsInOrder, ClientsInv, NEW c \in Conns, ClientGivesUp(c)
  PROVE  ClientsInv'
<1>1. /\ UNCHANGED <<cstate, gen, connections, events, todo, ready, clientGen, calls, up, outbox>>
      /\ call' = [call EXCEPT ![c] = NoCall] /\ DOMAIN call = Conns
  BY DEF ClientGivesUp, conn, holders, thread, client, SlotsInv, Typed, ServerTypeOK
<1>2. QuietLinks
  BY <1>1 DEF QuietLinks, QuietLink
<1> QED BY <1>1, <1>2, KeptClients

\* Failures are no news of a generation.
LEMMA FailuresQuiet ==
  ASSUME SlotsInv, NEW R, \A r \in R : r.id \in RequestIds,
         Delivered([c \in Conns |-> Failures(c, R)], call)
  PROVE  QuietLinks
<1>1. PICK M : M = [c \in Conns |-> Failures(c, R)]
  OBVIOUS
<1>2. \A c \in Conns : \A k \in DOMAIN M[c] : M[c][k].kind = "reply"
  BY <1>1, FailuresAre
<1>3. \A c \in Conns : \A m \in Range(M[c]) : m.kind \notin {"welcome", "done"}
  BY <1>2 DEF Range
<1>4. Delivered(M, call)
  BY <1>1
<1> QED BY <1>3, <1>4, QuietPosted

LEMMA CompleteQuiet ==
  ASSUME SlotsInv, NEW S, S \subseteq pending, Complete(S)
  PROVE  QuietLinks
<1>1. Typed /\ pending \subseteq Pendings
  BY DEF SlotsInv, Typed, ServerTypeOK
<1>2. PICK R : R = Due(S)
  OBVIOUS
<1>3. \A r \in R : r.id \in RequestIds
  BY <1>1, <1>2, PendingIs DEF Due
<1>4. Delivered([c \in Conns |-> Failures(c, R)], call)
  BY <1>1, <1>2, CompletePosts
<1> QED BY <1>3, <1>4, FailuresQuiet

\* The step thread's work between events, and the futures it left.
LEMMA WorkClients ==
  ASSUME SlotsInv, ResetsInOrder, ClientsInv,
         \/ \E F \in SUBSET Conns : StepReturns(F)
         \/ \E p \in pending : FutureDone(p)
         \/ BatchTaken \/ StepLoopEnds \/ DrainStarts \/ DrainDeadline \/ StopStarts
         \/ UNCHANGED svars
  PROVE  ClientsInv'
<1>1. CASE \E F \in SUBSET Conns : StepReturns(F)
  <2>1. PICK F \in SUBSET Conns : StepReturns(F)
    BY <1>1
  <2>2. \E S : S \subseteq pending /\ Complete(S)
    BY <2>1 DEF StepReturns
  <2>3. QuietLinks
    BY <2>2, CompleteQuiet
  <2>4. UNCHANGED <<cstate, gen, connections, events, todo, ready, clientGen, calls>>
    BY <2>1 DEF StepReturns, conn, holders, client
  <2> QED BY <2>3, <2>4, KeptClients
<1>2. CASE \E p \in pending : FutureDone(p)
  <2>1. PICK p \in pending : FutureDone(p)
    BY <1>2
  <2>2. \E S : S \subseteq pending /\ Complete(S)
    BY <2>1 DEF FutureDone
  <2>3. QuietLinks
    BY <2>2, CompleteQuiet
  <2>4. UNCHANGED <<cstate, gen, connections, events, todo, ready, clientGen, calls>>
    BY <2>1 DEF FutureDone, conn, holders, client, thread
  <2> QED BY <2>3, <2>4, KeptClients
<1>3. CASE BatchTaken \/ StepLoopEnds \/ DrainStarts \/ DrainDeadline \/ StopStarts
  <2>1. /\ UNCHANGED <<cstate, gen, connections, events, todo, ready, clientGen, calls>>
        /\ UNCHANGED wires
    BY <1>3 DEF BatchTaken, StepLoopEnds, DrainStarts, DrainDeadline, StopStarts, conn, holders,
                client, thread
  <2> QED BY <2>1, QuietWires, KeptClients
<1>4. CASE UNCHANGED svars
  <2>1. /\ UNCHANGED <<cstate, gen, connections, events, todo, ready, clientGen, calls>>
        /\ UNCHANGED wires
    BY <1>4 DEF svars, conn, holders, client, thread
  <2> QED BY <2>1, QuietWires, KeptClients
<1> QED BY <1>1, <1>2, <1>3, <1>4

LEMMA TimeoutClients ==
  ASSUME SlotsInv, ResetsInOrder, ClientsInv, Timeouts
  PROVE  ClientsInv'
<1>1. Typed /\ waiting \in Seq(Requests) /\ pending \subseteq Pendings
  BY DEF SlotsInv, Typed, ServerTypeOK
<1>2. ASSUME NEW c \in Conns, NEW i \in RequestIds, Delivered(To(c, <<Failed(i)>>), call)
      PROVE  QuietLinks
  <2>1. i \in Nat
    BY DEF RequestIds
  <2>2. PICK f \in Messages : f = Failed(i) /\ f.kind = "reply"
    BY <2>1, FailedIs
  <2>3. <<f>> \in Seq(Messages) /\ Range(<<f>>) = {f}
    BY <2>2, OneMessage
  <2>4. PICK ms \in Seq(Messages) : ms = <<f>>
    BY <2>3
  <2>5. PICK M : M = To(c, ms)
    OBVIOUS
  <2>6. \A d \in Conns : M[d] = ms \/ M[d] = <<>>
    BY <2>5, ToIs
  <2>7. \A d \in Conns : \A m \in Range(M[d]) : m.kind \notin {"welcome", "done"}
    BY <2>2, <2>3, <2>4, <2>6, NoMessage
  <2>8. Delivered(M, call)
    BY <1>2, <2>2, <2>4, <2>5
  <2> QED BY <2>7, <2>8, QuietPosted
<1>3. CASE \E p \in pending : StepExpires(p)
  <2>1. PICK p \in pending : StepExpires(p)
    BY <1>3
  <2>2. p.conn \in Conns /\ p.id \in RequestIds
    BY <1>1, PendingIs
  <2>3. Delivered(To(p.conn, <<Failed(p.id)>>), call)
    BY <1>1, <2>1, ExpiresPosts
  <2>4. QuietLinks
    <3>1. PICK c \in Conns, i \in RequestIds : c = p.conn /\ i = p.id
      BY <2>2
    <3>2. Delivered(To(c, <<Failed(i)>>), call)
      BY <2>3, <3>1
    <3> QED BY <1>2, <3>2
  <2>5. UNCHANGED <<cstate, gen, connections, events, todo, ready, clientGen, calls>>
    BY <2>1 DEF StepExpires, conn, holders, client, thread
  <2> QED BY <2>4, <2>5, KeptClients
<1>4. CASE \E w \in Range(waiting) : WaitingExpires(w)
  <2>1. PICK w \in Range(waiting) : WaitingExpires(w)
    BY <1>4
  <2>2. w \in Requests
    BY <1>1 DEF Range
  <2>3. w.conn \in Conns /\ w.id \in RequestIds
    BY <2>2, RequestIs
  <2>4. QuietLinks
    <3>1. CASE Delivered(To(w.conn, <<Failed(w.id)>>), call)
      BY <1>2, <2>3, <3>1
    <3>2. CASE Delivered(Nothing, call)
      <4>1. PICK M : M = Nothing
        OBVIOUS
      <4>2. Delivered(M, call) /\ \A d \in Conns : M[d] = <<>>
        BY <3>2, <4>1, NothingIs
      <4>3. \A d \in Conns : \A m \in Range(M[d]) : m.kind \notin {"welcome", "done"}
        BY <4>2, NoMessage
      <4> QED BY <4>2, <4>3, QuietPosted
    <3> QED BY <1>1, <2>1, <3>1, <3>2, WaitingExpiresPosts
  <2>5. UNCHANGED <<cstate, gen, connections, events, todo, ready, clientGen, calls>>
    BY <2>1 DEF WaitingExpires, conn, holders, client, thread
  <2> QED BY <2>4, <2>5, KeptClients
<1> QED BY <1>3, <1>4 DEF Timeouts

\* The events taken, and those that end without news of a generation.
LEMMA TakenClients ==
  ASSUME SlotsInv, ResetsInOrder, ClientsInv, EventsTaken
  PROVE  ClientsInv'
<1>1. /\ todo = <<>> /\ events' = <<>> /\ todo' = events
      /\ UNCHANGED <<cstate, gen, connections, ready, clientGen, calls>> /\ UNCHANGED wires
  BY DEF EventsTaken, Turn, SlotsInv, ThreadInHand, conn, holders, client
<1>2. \A d, i : OwedReset(d, i)' => OwedReset(d, i)
  BY <1>1, OrderTaken
<1>3. QuietLinks
  BY <1>1, QuietWires
<1> QED BY <1>1, <1>2, <1>3, QuietClients

LEMMA LeaveQuiet ==
  ASSUME SlotsInv, NEW L, L \subseteq Conns, Leave(L)
  PROVE  /\ QuietLinks /\ connections' \subseteq connections
         /\ \A c \in Conns : cstate'[c] \in {"none", "CONNECTING", "OPENING"} =>
                             cstate[c] \in {"none", "CONNECTING", "OPENING"}
<1>1. PICK left : /\ connections' = connections \ left
                  /\ cstate' = [c \in Conns |-> IF c \in left THEN "CLOSED" ELSE cstate[c]]
                  /\ Delivered(Flushes(L), call)
  BY LeaveIs
<1>2. PICK M : M = Flushes(L)
  OBVIOUS
<1>3. Delivered(M, call) /\ \A c \in Conns : \A m \in Range(M[c]) : m.kind = "flush"
  BY <1>1, <1>2, FlushesOnly
<1>4. \A c \in Conns : \A m \in Range(M[c]) : m.kind \notin {"welcome", "done"}
  BY <1>3
<1>5. QuietLinks
  BY <1>3, <1>4, QuietPosted
<1>6. \A c \in Conns : cstate'[c] = "CLOSED" \/ cstate'[c] = cstate[c]
  BY <1>1
<1> QED BY <1>1, <1>5, <1>6

LEMMA LeavingClients ==
  ASSUME SlotsInv, ResetsInOrder, ClientsInv, OpenBegins \/ LeaveApplied
  PROVE  ClientsInv'
<1>1. Typed
  BY DEF SlotsInv
<1>2. CASE OpenBegins
  <2>1. /\ UNCHANGED <<events, todo, ready, clientGen, calls>> /\ Leave(Held(Event.conn))
        /\ NextGeneration(Event.conn) /\ at = "events" /\ cstate[Event.conn] = "OPENING"
    BY <1>2 DEF OpenBegins, Applies, client
  <2>2. PICK L : L = Held(Event.conn)
    OBVIOUS
  <2>3. L \subseteq Conns /\ Leave(L)
    BY <2>1, <2>2 DEF Held
  <2>4. \A d, i : OwedReset(d, i)' => OwedReset(d, i)
    BY <2>1, OrderKept
  <2>5. PICK c \in Conns : c = Event.conn
    BY <2>1, InHand
  <2>6. slot[c] \in Slots
    BY <2>1, <2>5 DEF SlotsInv, OnTheWay
  <2>7. \A d \in Conns : d # c => gen'[d] = gen[d]
    BY <1>1, <2>1, <2>5, <2>6, GenerationIs
  <2>8. \A d \in Conns : gen'[d] = gen[d] \/ ~NoReset(d) \/ cstate[d] = "OPENING"
    BY <2>1, <2>5, <2>7
  <2>9. /\ QuietLinks /\ connections' \subseteq connections
        /\ \A d \in Conns : cstate'[d] \in {"none", "CONNECTING", "OPENING"} =>
                            cstate[d] \in {"none", "CONNECTING", "OPENING"}
    BY <2>3, LeaveQuiet
  <2> QED BY <2>1, <2>4, <2>8, <2>9, QuietClients
<1>3. CASE LeaveApplied
  <2>1. /\ UNCHANGED <<events, gen, ready, clientGen, calls>> /\ EventDone /\ Leave({Event.conn})
        /\ todo # <<>> /\ Event.conn \in Conns
    BY <1>3, InHand DEF LeaveApplied, Applies, client
  <2>2. PICK L : L = {Event.conn}
    OBVIOUS
  <2>3. L \subseteq Conns /\ Leave(L)
    BY <2>1, <2>2
  <2>4. \A d, i : OwedReset(d, i)' => OwedReset(d, i)
    BY <1>1, <2>1, OrderDone
  <2>5. /\ QuietLinks /\ connections' \subseteq connections
        /\ \A d \in Conns : cstate'[d] \in {"none", "CONNECTING", "OPENING"} =>
                            cstate[d] \in {"none", "CONNECTING", "OPENING"}
    BY <2>3, LeaveQuiet
  <2> QED BY <2>1, <2>4, <2>5, QuietClients
<1> QED BY <1>2, <1>3

LEMMA EndedClients ==
  ASSUME SlotsInv, ResetsInOrder, ClientsInv,
         OpenFails \/ OpenSkipped \/ ResetFails \/ ResetSkipped
  PROVE  ClientsInv'
<1>1. /\ UNCHANGED <<events, gen, ready, clientGen, calls>> /\ EventDone
      /\ at \in {"events", "opening", "resetting"}
  BY DEF OpenFails, OpenSkipped, ResetFails, ResetSkipped, Applies, client, conn
<1>2. Typed /\ todo # <<>> /\ Event.conn \in Conns /\ DOMAIN cstate = Conns
  BY <1>1, InHand DEF SlotsInv, Typed, ServerTypeOK
<1>3. \A d, i : OwedReset(d, i)' => OwedReset(d, i)
  BY <1>1, <1>2, OrderDone
<1>4. connections' \subseteq connections
  BY DEF OpenFails, OpenSkipped, ResetFails, ResetSkipped, Forget
<1>5. \A d \in Conns : cstate'[d] \in {"none", "CONNECTING", "OPENING"} =>
                       cstate[d] \in {"none", "CONNECTING", "OPENING"}
  <2>1. \/ UNCHANGED cstate
        \/ cstate' = [cstate EXCEPT ![Event.conn] = "CLOSING"]
        \/ cstate' = [cstate EXCEPT ![Event.conn] = "CLOSED"]
    BY DEF OpenFails, OpenSkipped, ResetFails, ResetSkipped, conn
  <2>2. \A d \in Conns : cstate'[d] = cstate[d] \/ cstate'[d] = "CLOSING" \/ cstate'[d] = "CLOSED"
    BY <1>2, <2>1
  <2> QED BY <2>2
<1>6. QuietLinks
  <2>1. CASE OpenSkipped
    <3>1. UNCHANGED wires
      BY <2>1 DEF OpenSkipped
    <3> QED BY <3>1, QuietWires
  <2>2. CASE OpenFails
    <3>1. PICK M : /\ Delivered(M, call)
                   /\ \A d \in Conns : \A m \in Range(M[d]) : m.kind \in {"flush", "refused"}
      BY <2>2, OpenFailsPosts
    <3>2. \A d \in Conns : \A m \in Range(M[d]) : m.kind \notin {"welcome", "done"}
      BY <3>1
    <3> QED BY <3>1, <3>2, QuietPosted
  <2>3. CASE ResetFails
    <3>1. PICK M : /\ Delivered(M, call)
                   /\ \A d \in Conns : \A m \in Range(M[d]) : m.kind \in {"reply", "flush"}
      BY <2>3, ResetFailsPosts
    <3>2. \A d \in Conns : \A m \in Range(M[d]) : m.kind \notin {"welcome", "done"}
      BY <3>1
    <3> QED BY <3>1, <3>2, QuietPosted
  <2>4. CASE ResetSkipped
    <3>1. PICK M : /\ Delivered(M, call)
                   /\ \A d \in Conns : \A m \in Range(M[d]) : m.kind = "reply"
      BY <2>4, ResetSkippedPosts
    <3>2. \A d \in Conns : \A m \in Range(M[d]) : m.kind \notin {"welcome", "done"}
      BY <3>1
    <3> QED BY <3>1, <3>2, QuietPosted
  <2> QED BY <2>1, <2>2, <2>3, <2>4
<1> QED BY <1>1, <1>3, <1>4, <1>5, <1>6, QuietClients

\* A reset that begins has its event in hand: its client waits, or must reset.
LEMMA ResetBeginsClients ==
  ASSUME SlotsInv, ResetsInOrder, ClientsInv, ResetBegins
  PROVE  ClientsInv'
<1>1. /\ UNCHANGED <<events, todo, ready, clientGen, calls, cstate, connections>>
      /\ NextGeneration(Event.conn) /\ at = "events" /\ Event.kind = "reset"
      /\ cstate[Event.conn] = "OPEN"
  BY DEF ResetBegins, Applies, client
<1>2. Typed /\ Event \in Range(todo)
  BY <1>1, InHand DEF SlotsInv
<1>3. PICK c \in Conns : c = Event.conn
  BY <1>1, InHand
<1>4. slot[c] \in Slots
  BY <1>1, <1>3 DEF SlotsInv, OnTheWay
<1>5. \A d \in Conns : d # c => gen'[d] = gen[d]
  BY <1>1, <1>2, <1>3, <1>4, GenerationIs
<1>6. ~NoReset(c)
  BY <1>1, <1>2, <1>3 DEF NoReset, Resets
<1>7. \A d, i : OwedReset(d, i)' => OwedReset(d, i)
  BY <1>1, OrderKept
<1>8. QuietLinks
  <2>1. PICK R : /\ \A r \in R : r.id \in RequestIds
                 /\ Delivered([d \in Conns |-> Failures(d, R)], call)
    BY ResetBeginsPosts
  <2> QED BY <2>1, FailuresQuiet
<1> QED BY <1>1, <1>5, <1>6, <1>7, <1>8, QuietClients

LEMMA EndsAllClients ==
  ASSUME SlotsInv, ResetsInOrder, ClientsInv, EndsAll
  PROVE  ClientsInv'
<1>1. PICK X :  /\ X \in {{}, connections} /\ AnswerInFlight(X)
                /\ UNCHANGED <<slot, gen, reading, todo, refusing, client>>
  BY EndsAllIs
<1>2. X \subseteq Conns /\ UNCHANGED <<ready, clientGen, calls>>
  BY <1>1 DEF SlotsInv, Typed, ServerTypeOK, client
<1>3. PICK leaving, unopened, left, M : InFlight(X, leaving, unopened, left, M)
  BY <1>1, <1>2, InFlightIs
<1>4. /\ events' = <<>> /\ connections' = connections \ left /\ Delivered(M, call)
      /\ cstate' = [c \in Conns |-> IF c \in left THEN "CLOSED"
                                    ELSE IF c \in unopened THEN "CLOSING" ELSE cstate[c]]
      /\ \A c \in Conns : \A m \in Range(M[c]) : m.kind \in {"reply", "flush"}
  BY <1>3 DEF InFlight
<1>5. Range(<<>>) = {} /\ Resets(<<>>) = {}
  BY NoMessage DEF Resets
<1>6. \A c, i : OwedReset(c, i)' => OwedReset(c, i)
  BY <1>1, <1>4, <1>5 DEF OwedReset
<1>7. \A c \in Conns : \A m \in Range(M[c]) : m.kind \notin {"welcome", "done"}
  BY <1>4
<1>8. QuietLinks
  BY <1>4, <1>7, QuietPosted
<1>9. \A c \in Conns : cstate'[c] = "CLOSED" \/ cstate'[c] = "CLOSING" \/ cstate'[c] = cstate[c]
  BY <1>4
<1>10. \A c \in Conns : cstate'[c] \in {"none", "CONNECTING", "OPENING"} =>
                        cstate[c] \in {"none", "CONNECTING", "OPENING"}
  BY <1>9
<1> QED BY <1>1, <1>2, <1>4, <1>6, <1>8, <1>10, QuietClients

-------------------------------------------------------------------------------
(* Generations: the steps that tell a client something new.                *)

LEMMA AcceptClients ==
  ASSUME SlotsInv, ResetsInOrder, ClientsInv, NEW c \in Conns, Accept(c)
  PROVE  ClientsInv'
<1>1. /\ cstate[c] = "none" /\ cstate' = [cstate EXCEPT ![c] = "CONNECTING"]
      /\ up' = [up EXCEPT ![c] = TRUE] /\ call' = [call EXCEPT ![c] = [kind |-> "hello", id |-> 0]]
      /\ UNCHANGED <<gen, outbox, connections, events, todo, ready, clientGen, calls>>
  BY DEF Accept, thread, client
<1>2. DOMAIN cstate = Conns /\ DOMAIN up = Conns /\ DOMAIN call = Conns
  BY DEF SlotsInv, Typed, ServerTypeOK
<1>3. \A d, i : OwedReset(d, i)' => OwedReset(d, i)
  BY <1>1, OrderKept
<1>4. ~ready[c] /\ \A m \in Range(outbox[c]) : m.kind \notin {"welcome", "done"}
  BY <1>1 DEF ClientsInv, ClientOK, Follows
<1>5. call'[c].kind = "hello" /\ call'[c].id = 0
  BY <1>1, <1>2
<1>6. ClientOK(c)'
  BY <1>1, <1>4, <1>5 DEF ClientOK, Follows, DoneIsLast, ReadyIsCurrent
<1>7. \A d \in Conns : d # c => QuietLink(d) /\ cstate'[d] = cstate[d]
  BY <1>1, <1>2 DEF QuietLink
<1> QED BY <1>1, <1>3, <1>6, <1>7, OthersQuiet

\* An answer read is for the last call: a "done" the client moves on is the
\* end of its last reset, and a welcome finds it not ready.
LEMMA ReadClients ==
  ASSUME SlotsInv, ResetsInOrder, ClientsInv, NEW c \in Conns, ClientReads(c)
  PROVE  ClientsInv'
<1>1. PICK m : m = Head(outbox[c])
  OBVIOUS
<1>2. /\ up[c] /\ ready' = [ready EXCEPT ![c] = ready[c] \/ (Expected(c, m) /\ m.kind = "done")]
      /\ call' = IF Expected(c, m) THEN [call EXCEPT ![c] = NoCall] ELSE call
      /\ clientGen' = IF Expected(c, m) /\ m.kind \in {"welcome", "done"}
                      THEN [clientGen EXCEPT ![c] = m.gen] ELSE clientGen
      /\ UNCHANGED <<cstate, gen, up, connections, events, todo, calls>>
  BY <1>1 DEF ClientReads, conn, holders, thread
<1>3. /\ Typed /\ DOMAIN call = Conns /\ DOMAIN ready = Conns /\ DOMAIN clientGen = Conns
      /\ calls[c] \in Nat
  BY DEF SlotsInv, Typed, ServerTypeOK
<1>4. /\ \A d \in Conns : Range(outbox'[d]) \subseteq Range(outbox[d])
      /\ m \in Range(outbox[c]) /\ \A d \in Conns : call'[d] \in {call[d], NoCall}
  BY <1>1, <1>3, ReadIs
<1>5. \A d, i : OwedReset(d, i)' => OwedReset(d, i)
  BY <1>2, OrderKept
<1>6. \A d \in Conns : QuietLink(d)
  BY <1>2, <1>4 DEF QuietLink
<1>7. /\ ready'[c] <=> ready[c] \/ (Expected(c, m) /\ m.kind = "done")
      /\ clientGen'[c] = IF Expected(c, m) /\ m.kind \in {"welcome", "done"}
                         THEN m.gen ELSE clientGen[c]
      /\ \A d \in Conns : d # c => ready'[d] = ready[d] /\ clientGen'[d] = clientGen[d]
  BY <1>2, <1>3
<1>8. Follows(c) /\ DoneIsLast(c) /\ ReadyIsCurrent(c)
  BY DEF ClientsInv, ClientOK
<1>9. NoReset(c) => NoReset(c)'
  BY <1>5, NoResetIs
<1>10. call[c].kind \in {"none", "hello", "step", "reset"}
  BY DEF SlotsInv, Typed, ServerTypeOK
<1>11. CASE Expected(c, m) /\ m.kind = "done"
  <2>1. m.id \in 1 .. calls[c] /\ m.id = call[c].id /\ call[c].kind # "none"
    BY <1>4, <1>8, <1>11 DEF DoneIsLast, Expected
  <2>2. call[c].kind # "hello"
    BY <1>3, <1>8, <2>1 DEF Follows
  <2>3. call[c].kind \in {"step", "reset"}
    BY <1>10, <2>1, <2>2
  <2>4. m.id = calls[c]
    BY <1>8, <2>1, <2>3 DEF Follows
  <2>5. m.gen = gen[c] /\ NoReset(c) /\ cstate[c] \notin {"none", "CONNECTING", "OPENING"}
    BY <1>4, <1>8, <1>11, <2>4 DEF DoneIsLast, Follows
  <2>6. call'[c] = NoCall /\ NoCall.kind = "none"
    BY <1>2, <1>3, <1>11 DEF NoCall
  <2>7. Follows(c)'
    BY <1>2, <2>5, <2>6 DEF Follows
  <2>8. ReadyIsCurrent(c)'
    BY <1>2, <1>7, <1>9, <1>11, <2>5 DEF ReadyIsCurrent
  <2>9. ASSUME NEW n \in Range(outbox'[c])
        PROVE  /\ n.kind = "welcome" => n.id = 0
               /\ n.kind = "done" =>
                    /\ n.id \in 1 .. calls'[c]
                    /\ n.id = calls'[c] => call'[c].kind # "step" /\ n.gen = gen'[c] /\ NoReset(c)'
    <3>1. n \in Range(outbox[c])
      BY <1>4
    <3> QED BY <1>2, <1>8, <1>9, <2>6, <3>1 DEF DoneIsLast
  <2>10. DoneIsLast(c)'
    BY <2>9 DEF DoneIsLast
  <2>11. ClientOK(c)'
    BY <2>7, <2>8, <2>10 DEF ClientOK
  <2> QED BY <1>2, <1>5, <1>6, <1>7, <2>11, OthersQuiet
<1>12. CASE Expected(c, m) /\ m.kind = "welcome"
  <2>1. m.id = 0 /\ call[c].id = 0 /\ call[c].kind # "none"
    BY <1>4, <1>8, <1>12 DEF DoneIsLast, Expected
  <2>2. call[c].kind \notin {"step", "reset"}
    BY <1>3, <1>8, <2>1 DEF Follows
  <2>3. call[c].kind = "hello"
    BY <1>10, <2>1, <2>2
  <2>4. ~ready[c]
    BY <1>8, <2>3 DEF Follows
  <2>5. ~ready'[c]
    BY <1>7, <1>12, <2>4
  <2>6. call'[c] = NoCall /\ NoCall.kind = "none"
    BY <1>2, <1>3, <1>12 DEF NoCall
  <2>7. ReadyIsCurrent(c)'
    BY <2>5 DEF ReadyIsCurrent
  <2>8. Follows(c)'
    BY <1>2, <1>4, <1>8, <2>5, <2>6 DEF Follows
  <2>9. ASSUME NEW n \in Range(outbox'[c])
        PROVE  /\ n.kind = "welcome" => n.id = 0
               /\ n.kind = "done" =>
                    /\ n.id \in 1 .. calls'[c]
                    /\ n.id = calls'[c] => call'[c].kind # "step" /\ n.gen = gen'[c] /\ NoReset(c)'
    <3>1. n \in Range(outbox[c])
      BY <1>4
    <3> QED BY <1>2, <1>8, <1>9, <2>6, <3>1 DEF DoneIsLast
  <2>10. DoneIsLast(c)'
    BY <2>9 DEF DoneIsLast
  <2>11. ClientOK(c)'
    BY <2>7, <2>8, <2>10 DEF ClientOK
  <2> QED BY <1>2, <1>5, <1>6, <1>7, <2>11, OthersQuiet
<1>13. CASE ~(Expected(c, m) /\ m.kind \in {"welcome", "done"})
  <2>1. ready'[c] = ready[c] /\ clientGen'[c] = clientGen[c]
    <3>1. (ready'[c] <=> ready[c]) /\ ready[c] \in BOOLEAN /\ ready'[c] \in BOOLEAN
      BY <1>2, <1>3, <1>7, <1>13 DEF Typed, ServerTypeOK
    <3> QED BY <1>7, <1>13, <3>1
  <2>2. \A d \in Conns : ready'[d] = ready[d] /\ clientGen'[d] = clientGen[d]
    BY <1>7, <2>1
  <2>3. ASSUME NEW d \in Conns PROVE ClientOK(d)'
    BY <1>2, <1>5, <1>6, <2>2, QuietClient
  <2> QED BY <2>3 DEF ClientsInv
<1> QED BY <1>11, <1>12, <1>13

LEMMA OpenSucceedsClients ==
  ASSUME SlotsInv, ResetsInOrder, ClientsInv, OpenSucceeds
  PROVE  ClientsInv'
<1>1. PICK c : c = Event.conn
  OBVIOUS
<1>2. /\ at = "opening" /\ connections' = connections \union {c}
      /\ cstate' = [cstate EXCEPT ![c] = "OPEN"]
      /\ Post(To(c, <<Answer("welcome", 0, gen[c])>>)) /\ EventDone
      /\ UNCHANGED <<gen, events, ready, clientGen, calls>>
  BY <1>1 DEF OpenSucceeds, client
<1>3. /\ Typed /\ c \in Conns /\ cstate[c] = "OPENING" /\ todo # <<>> /\ DOMAIN cstate = Conns
      /\ gen[c] \in Nat
  BY <1>1, <1>2, InHand DEF SlotsInv, ThreadInHand, Typed, ServerTypeOK
<1>4. PICK m \in Messages : m = Answer("welcome", 0, gen[c]) /\ m.id = 0 /\ m.kind = "welcome"
  <2>1. PICK m \in Messages : m = Answer("welcome", 0, gen[c])
    BY <1>3, AnswerIs
  <2>2. m.id = 0 /\ m.kind = "welcome"
    BY <2>1 DEF Answer
  <2> QED BY <2>1, <2>2
<1>5. <<m>> \in Seq(Messages) /\ Range(<<m>>) = {m}
  BY OneMessage
<1>6. PICK ms \in Seq(Messages) : ms = <<m>>
  BY <1>5
<1>7. Post(To(c, ms))
  BY <1>2, <1>4, <1>6
<1>8. PICK M : /\ M \in [Conns -> Seq(Messages)] /\ Delivered(M, call)
               /\ M[c] = ms /\ \A d \in Conns : d # c => M[d] = <<>>
  BY <1>3, <1>7, PostedTo
<1>9. \A d, i : OwedReset(d, i)' => OwedReset(d, i)
  BY <1>2, <1>3, OrderDone
<1>10. Follows(c) /\ ~ready[c] /\ \A n \in Range(outbox[c]) : n.kind \notin {"welcome", "done"}
  BY <1>3 DEF ClientsInv, ClientOK, Follows
<1>11. \A n \in Range(outbox'[c]) : n \in Range(outbox[c]) \/ n = m
  <2>1. Range(outbox'[c]) \subseteq Range(outbox[c]) \union Range(M[c])
    BY <1>3, <1>8 DEF Delivered
  <2>2. Range(M[c]) = {m}
    BY <1>5, <1>6, <1>8
  <2> QED BY <2>1, <2>2
<1>12. call'[c] \in {call[c], NoCall} /\ NoCall.kind = "none" /\ cstate'[c] = "OPEN"
  BY <1>2, <1>3, <1>8 DEF Delivered, NoCall
<1>13. Follows(c)'
  <2>1. call'[c].kind = "step" => ~OwedReset(c, calls[c])'
    <3>1. PICK i : i = calls[c] /\ i = calls'[c]
      BY <1>2
    <3>2. OwedReset(c, i)' => OwedReset(c, i)
      BY <1>9
    <3> QED BY <1>10, <1>12, <3>1, <3>2 DEF Follows
  <2>2. /\ call'[c].kind = "hello" => ~ready'[c] /\ call'[c].id = 0
        /\ call'[c].kind \in {"step", "reset"} => call'[c].id = calls'[c] /\ calls'[c] > 0
    BY <1>2, <1>10, <1>12 DEF Follows
  <2> QED BY <1>2, <1>12, <2>1, <2>2 DEF Follows
<1>14. DoneIsLast(c)'
  BY <1>4, <1>10, <1>11 DEF DoneIsLast
<1>15. ReadyIsCurrent(c)'
  BY <1>2, <1>10 DEF ReadyIsCurrent
<1>16. ClientOK(c)'
  BY <1>13, <1>14, <1>15 DEF ClientOK
<1>17. \A d \in Conns : d # c => QuietLink(d)
  BY <1>8, NoMessage DEF QuietLink, Delivered
<1>18. \A d \in Conns : d # c =>
         /\ QuietLink(d) /\ ready'[d] = ready[d] /\ clientGen'[d] = clientGen[d]
         /\ calls'[d] = calls[d] /\ cstate'[d] = cstate[d] /\ gen'[d] = gen[d]
         /\ d \in connections' => d \in connections
         /\ \A i : OwedReset(d, i)' => OwedReset(d, i)
  BY <1>2, <1>3, <1>9, <1>17
<1> QED BY <1>3, <1>16, <1>18, OthersQuiet

\* The end of a reset tells the client the generation only if it is its last.
LEMMA ResetSucceedsClients ==
  ASSUME SlotsInv, RequestsInv, ClientsInv, ResetSucceeds
  PROVE  ClientsInv'
<1>1. PICK c : c = Event.conn
  OBVIOUS
<1>2. /\ at = "resetting" /\ Event.kind = "reset"
      /\ Post(To(c, <<Answer("done", Event.id, gen[c])>>)) /\ EventDone
      /\ UNCHANGED <<cstate, gen, connections, events, ready, clientGen, calls>>
  BY <1>1 DEF ResetSucceeds, client, conn, SlotsInv, ThreadInHand
<1>3. /\ Typed /\ ResetsInOrder /\ c \in Conns /\ cstate[c] = "OPEN" /\ todo # <<>>
      /\ gen[c] \in Nat /\ calls[c] \in Nat
  <2>1. /\ Typed /\ ResetsInOrder /\ c \in Conns /\ cstate[c] = "OPEN" /\ todo # <<>>
    BY <1>1, <1>2, InHand DEF SlotsInv, RequestsInv, ThreadInHand
  <2>2. gen[c] \in Nat /\ calls[c] \in 0 .. MaxCalls
    BY <2>1 DEF Typed, ServerTypeOK
  <2> QED BY <2>1, <2>2
<1>4. /\ \A d, i : OwedReset(d, i)' => OwedReset(d, i)
      /\ Event.id \in RequestIds
      /\ \A d, i : d = Event.conn /\ i = Event.id => OwedReset(d, i) /\ ~OwedReset(d, i)'
      /\ \A d, i : d = Event.conn /\ OwedReset(d, i)' => Event.id < i
  BY <1>2, <1>3, OrderDone
<1>5. PICK id \in RequestIds : id = Event.id
  BY <1>4
<1>6. /\ id \in Nat /\ 1 <= id /\ id <= calls[c] /\ OwedReset(c, id)
  <2>1. OwedReset(c, id)
    BY <1>1, <1>4, <1>5
  <2>2. id <= calls[c]
    BY <1>3, <2>1 DEF RequestsInv, OwedAreNew
  <2> QED BY <2>1, <2>2 DEF RequestIds
<1>7. id = calls[c] => NoReset(c)'
  <2>1. SUFFICES ASSUME id = calls[c], NEW i, OwedReset(c, i)' PROVE FALSE
    BY NoResetIs
  <2>2. id < i
    BY <1>1, <1>4, <1>5, <2>1
  <2>3. OwedReset(c, i)
    BY <1>4, <2>1
  <2>4. i \in RequestIds
    BY <1>3, <2>3 DEF ResetsInOrder, OwedReset
  <2>5. i <= calls[c]
    BY <1>3, <2>3, <2>4 DEF RequestsInv, OwedAreNew
  <2>6. i \in Nat
    BY <2>4 DEF RequestIds
  <2> QED BY <1>3, <2>1, <2>2, <2>5, <2>6
<1>8. PICK m \in Messages : m = Answer("done", id, gen[c])
  <2>1. Answer("done", id, gen[c]) \in Messages
    BY <1>3, <1>6, AnswerIs
  <2> QED BY <2>1
<1>9. m.id = id /\ m.kind = "done" /\ m.gen = gen[c]
  BY <1>8 DEF Answer
<1>10. <<m>> \in Seq(Messages) /\ Range(<<m>>) = {m}
  BY OneMessage
<1>11. PICK ms \in Seq(Messages) : ms = <<m>>
  BY <1>10
<1>12. Post(To(c, ms))
  BY <1>2, <1>5, <1>8, <1>11
<1>13. PICK M : /\ M \in [Conns -> Seq(Messages)] /\ Delivered(M, call)
                /\ M[c] = ms /\ \A d \in Conns : d # c => M[d] = <<>>
  BY <1>3, <1>12, PostedTo
<1>14. Follows(c) /\ DoneIsLast(c) /\ ReadyIsCurrent(c)
  BY <1>3 DEF ClientsInv, ClientOK
<1>15. \A n \in Range(outbox'[c]) : n \in Range(outbox[c]) \/ n = m
  <2>1. Range(outbox'[c]) \subseteq Range(outbox[c]) \union Range(M[c])
    BY <1>3, <1>13 DEF Delivered
  <2>2. Range(M[c]) = {m}
    BY <1>10, <1>11, <1>13
  <2> QED BY <2>1, <2>2
<1>16. /\ call'[c] \in {call[c], NoCall} /\ NoCall.kind = "none" /\ cstate'[c] = "OPEN"
       /\ up'[c] => up[c]
  BY <1>2, <1>3, <1>13 DEF Delivered, NoCall
<1>17. Follows(c)'
  <2>1. call'[c].kind = "step" => ~OwedReset(c, calls[c])'
    <3>1. PICK i : i = calls[c] /\ i = calls'[c]
      BY <1>2
    <3>2. OwedReset(c, i)' => OwedReset(c, i)
      BY <1>4
    <3> QED BY <1>14, <1>16, <3>1, <3>2 DEF Follows
  <2>2. /\ call'[c].kind = "hello" => ~ready'[c] /\ call'[c].id = 0
        /\ call'[c].kind \in {"step", "reset"} => call'[c].id = calls'[c] /\ calls'[c] > 0
    BY <1>2, <1>14, <1>16 DEF Follows
  <2> QED BY <1>2, <1>16, <2>1, <2>2 DEF Follows
<1>18. NoReset(c) => NoReset(c)'
  BY <1>4, NoResetIs
<1>19. ASSUME NEW n \in Range(outbox'[c])
       PROVE  /\ n.kind = "welcome" => n.id = 0
              /\ n.kind = "done" =>
                   /\ n.id \in 1 .. calls'[c]
                   /\ n.id = calls'[c] => call'[c].kind # "step" /\ n.gen = gen'[c] /\ NoReset(c)'
  <2>1. CASE n \in Range(outbox[c])
    BY <1>2, <1>14, <1>16, <1>18, <2>1 DEF DoneIsLast
  <2>2. CASE n = m
    <3>1. n.id \in 1 .. calls'[c] /\ n.kind = "done" /\ n.gen = gen'[c]
      BY <1>2, <1>3, <1>6, <1>9, <2>2
    <3>2. id = calls[c] => call[c].kind # "step"
      BY <1>6, <1>14 DEF Follows
    <3> QED BY <1>2, <1>7, <1>9, <1>16, <2>2, <3>1, <3>2
  <2> QED BY <1>15, <2>1, <2>2
<1>20. DoneIsLast(c)'
  BY <1>19 DEF DoneIsLast
<1>21. ReadyIsCurrent(c)'
  BY <1>2, <1>14, <1>16, <1>18 DEF ReadyIsCurrent
<1>22. ClientOK(c)'
  BY <1>17, <1>20, <1>21 DEF ClientOK
<1>23. \A d \in Conns : d # c => QuietLink(d)
  BY <1>13, NoMessage DEF QuietLink, Delivered
<1> QED BY <1>2, <1>3, <1>4, <1>22, <1>23, OthersQuiet

\* A call made: the client waits for it, and an older "done" is no longer the last.
LEMMA AskedClients ==
  ASSUME SlotsInv, RequestsInv, ClientsInv, NEW c \in Conns, NEW k \in {"step", "reset"},
         NEW id \in RequestIds, id = calls[c] + 1, NEW M, NEW W, Delivered(M, W), W = Asks(c, k),
         \A d \in Conns : \A m \in Range(M[d]) : m.kind \notin {"welcome", "done"},
         \A d \in Conns : calls'[d] = IF d = c THEN id ELSE calls[d],
         UNCHANGED <<cstate, gen, connections, clientGen>>,
         \A d \in Conns : d # c => ready'[d] = ready[d],
         k = "step" => ready'[c] = ready[c], k = "reset" => ~ready'[c],
         \A d, i : OwedReset(d, i)' => OwedReset(d, i) \/ (k = "reset" /\ d = c /\ i = id)
  PROVE  ClientsInv'
<1>1. /\ calls[c] \in Nat /\ id \in Nat /\ id > 0 /\ ~(id <= calls[c]) /\ DOMAIN call = Conns
      /\ \A j \in 1 .. calls[c] : j \in 1 .. id /\ j # id
  <2>1. calls[c] \in 0 .. MaxCalls /\ id \in Nat /\ DOMAIN call = Conns
    BY DEF SlotsInv, Typed, ServerTypeOK, RequestIds
  <2> QED BY <2>1
<1>2. ~OwedReset(c, id)
  BY <1>1 DEF RequestsInv, OwedAreNew
<1>3. /\ \A d \in Conns : d # c => W[d] = call[d]
      /\ W[c].kind = k /\ W[c].id = id
  BY <1>1 DEF Asks
<1>4. \A d \in Conns : /\ up'[d] => up[d]
                       /\ \A m \in Range(outbox'[d]) :
                            m.kind \in {"welcome", "done"} => m \in Range(outbox[d])
                       /\ call'[d] \in {W[d], NoCall}
  BY DEF Delivered
<1>5. Follows(c) /\ DoneIsLast(c) /\ ReadyIsCurrent(c) /\ NoCall.kind = "none"
  BY DEF ClientsInv, ClientOK, NoCall
<1>6. calls'[c] = id /\ (ready'[c] => ready[c] /\ k = "step")
  OBVIOUS
<1>7. (call'[c].kind = k /\ call'[c].id = id) \/ call'[c].kind = "none"
  BY <1>3, <1>4, <1>5
<1>8. k = "step" => ~OwedReset(c, calls[c])'
  <2>1. PICK i : i = id /\ i = calls'[c]
    BY <1>6
  <2>2. k = "step" => ~OwedReset(c, i)'
    BY <1>2, <2>1
  <2> QED BY <2>1, <2>2
<1>9. Follows(c)'
  <2>1. cstate'[c] \in {"none", "CONNECTING", "OPENING"} =>
          /\ ~ready'[c]
          /\ \A m \in Range(outbox'[c]) : m.kind \notin {"welcome", "done"}
    BY <1>4, <1>5, <1>6 DEF Follows
  <2>2. /\ call'[c].kind = "hello" => ~ready'[c] /\ call'[c].id = 0
        /\ call'[c].kind \in {"step", "reset"} => call'[c].id = calls'[c] /\ calls'[c] > 0
    BY <1>1, <1>6, <1>7
  <2>3. call'[c].kind = "step" => ~OwedReset(c, calls[c])'
    BY <1>7, <1>8
  <2> QED BY <2>1, <2>2, <2>3 DEF Follows
<1>10. DoneIsLast(c)'
  <2>1. \A m \in Range(outbox'[c]) : /\ m.kind = "welcome" => m.id = 0
                                     /\ m.kind = "done" => m.id \in 1 .. calls[c]
    BY <1>4, <1>5 DEF DoneIsLast
  <2>2. \A m \in Range(outbox'[c]) :
          /\ m.kind = "welcome" => m.id = 0
          /\ m.kind = "done" => m.id \in 1 .. calls'[c] /\ m.id # calls'[c]
    BY <1>1, <1>6, <2>1
  <2> QED BY <2>2 DEF DoneIsLast
<1>11. ASSUME c \in connections', up'[c], ready'[c]
       PROVE  clientGen'[c] = gen'[c] /\ NoReset(c)'
  <2>1. k = "step" /\ c \in connections /\ up[c] /\ ready[c]
    BY <1>4, <1>6, <1>11
  <2>2. clientGen[c] = gen[c] /\ NoReset(c)
    BY <1>5, <2>1 DEF ReadyIsCurrent
  <2>3. NoReset(c)'
    BY <2>1, <2>2, NoResetIs
  <2> QED BY <2>2, <2>3
<1>12. ClientOK(c)'
  BY <1>9, <1>10, <1>11 DEF ClientOK, ReadyIsCurrent
<1>13. \A d \in Conns : d # c => QuietLink(d)
  BY <1>3, <1>4 DEF QuietLink
<1>14. \A d \in Conns : d # c => calls'[d] = calls[d] /\ \A i : OwedReset(d, i)' => OwedReset(d, i)
  OBVIOUS
<1> QED BY <1>12, <1>13, <1>14, OthersQuiet

\* What a call is told at once is nothing, or that it failed.
LEMMA OneAskedQuiet ==
  ASSUME NEW c \in Conns, NEW id \in RequestIds, NEW W,
         Delivered(Nothing, W) \/ Delivered(To(c, <<Failed(id)>>), W)
  PROVE  \E M : /\ Delivered(M, W)
                /\ \A d \in Conns : \A m \in Range(M[d]) : m.kind \notin {"welcome", "done"}
<1>1. CASE Delivered(Nothing, W)
  <2>1. PICK M : M = Nothing
    OBVIOUS
  <2>2. Delivered(M, W) /\ \A d \in Conns : M[d] = <<>>
    BY <1>1, <2>1, NothingIs
  <2>3. \A d \in Conns : \A m \in Range(M[d]) : m.kind \notin {"welcome", "done"}
    BY <2>2, NoMessage
  <2> QED BY <2>2, <2>3
<1>2. CASE Delivered(To(c, <<Failed(id)>>), W)
  <2>1. id \in Nat
    BY DEF RequestIds
  <2>2. PICK f \in Messages : f = Failed(id) /\ f.kind = "reply"
    BY <2>1, FailedIs
  <2>3. <<f>> \in Seq(Messages) /\ Range(<<f>>) = {f}
    BY <2>2, OneMessage
  <2>4. PICK ms \in Seq(Messages) : ms = <<f>>
    BY <2>3
  <2>5. PICK M : M = To(c, ms)
    OBVIOUS
  <2>6. \A d \in Conns : M[d] = ms \/ M[d] = <<>>
    BY <2>5, ToIs
  <2>7. \A d \in Conns : \A m \in Range(M[d]) : m.kind \notin {"welcome", "done"}
    BY <2>2, <2>3, <2>4, <2>6, NoMessage
  <2>8. Delivered(M, W)
    BY <1>2, <2>2, <2>4, <2>5
  <2> QED BY <2>7, <2>8
<1> QED BY <1>1, <1>2

LEMMA StepAskedClients ==
  ASSUME SlotsInv, RequestsInv, ClientsInv, NEW c \in Conns, ClientStep(c)
  PROVE  ClientsInv'
<1>1. Typed /\ ResetsInOrder
  BY DEF SlotsInv, RequestsInv
<1>2. /\ Idle(c) /\ calls' = [calls EXCEPT ![c] = calls[c] + 1]
      /\ UNCHANGED <<events, todo, ready, clientGen, cstate, gen, connections>>
  BY DEF ClientStep, thread, conn, holders
<1>3. PICK id \in RequestIds : id = calls[c] + 1
  BY <1>1, <1>2, AsksIs
<1>4. \A d \in Conns : calls'[d] = IF d = c THEN id ELSE calls[d]
  BY <1>1, <1>2, <1>3, AsksIs
<1>5. \A d, i : OwedReset(d, i)' => OwedReset(d, i)
  BY <1>1, <1>2, OrderKept
<1>6. PICK W : W = Asks(c, "step")
  OBVIOUS
<1>7. PICK M : /\ Delivered(M, W)
               /\ \A d \in Conns : \A m \in Range(M[d]) : m.kind \notin {"welcome", "done"}
  <2>1. Delivered(Nothing, W) \/ Delivered(To(c, <<Failed(id)>>), W)
    BY <1>1, <1>3, <1>6, StepPosts
  <2> QED BY <2>1, OneAskedQuiet
<1>8. PICK k \in {"step", "reset"} : k = "step"
  OBVIOUS
<1>9. /\ W = Asks(c, k)
      /\ \A d \in Conns : d # c => ready'[d] = ready[d]
      /\ k = "step" => ready'[c] = ready[c]
      /\ k = "reset" => ~ready'[c]
      /\ \A d, i : OwedReset(d, i)' => OwedReset(d, i) \/ (k = "reset" /\ d = c /\ i = id)
  BY <1>2, <1>5, <1>6, <1>8
<1> QED BY <1>2, <1>3, <1>4, <1>7, <1>9, AskedClients

LEMMA ResetAskedClients ==
  ASSUME SlotsInv, RequestsInv, ClientsInv, NEW c \in Conns, ClientReset(c)
  PROVE  ClientsInv'
<1>1. Typed /\ ResetsInOrder /\ DOMAIN ready = Conns
  BY DEF SlotsInv, RequestsInv, Typed, ServerTypeOK
<1>2. /\ Idle(c) /\ calls' = [calls EXCEPT ![c] = calls[c] + 1]
      /\ ready' = [ready EXCEPT ![c] = FALSE]
      /\ UNCHANGED <<todo, clientGen, cstate, gen, connections>>
  BY DEF ClientReset, thread, conn
<1>3. PICK id \in RequestIds : id = calls[c] + 1
  BY <1>1, <1>2, AsksIs
<1>4. \A d \in Conns : calls'[d] = IF d = c THEN id ELSE calls[d]
  BY <1>1, <1>2, <1>3, AsksIs
<1>5. \A d, i : OwedReset(d, i)' => OwedReset(d, i) \/ (d = c /\ i = id)
  <2>1. CASE UNCHANGED events
    BY <1>1, <1>2, <2>1, OrderKept
  <2>2. CASE Queue("reset", c, calls[c] + 1)
    BY <1>1, <1>2, <1>3, <2>2, ResetQueued
  <2> QED BY <1>1, <2>1, <2>2, ResetPosts
<1>6. PICK W : W = Asks(c, "reset")
  OBVIOUS
<1>7. PICK M : /\ Delivered(M, W)
               /\ \A d \in Conns : \A m \in Range(M[d]) : m.kind \notin {"welcome", "done"}
  <2>1. Delivered(Nothing, W) \/ Delivered(To(c, <<Failed(id)>>), W)
    BY <1>1, <1>3, <1>6, ResetPosts
  <2> QED BY <2>1, OneAskedQuiet
<1>8. PICK k \in {"step", "reset"} : k = "reset"
  OBVIOUS
<1>9. /\ W = Asks(c, k)
      /\ \A d \in Conns : d # c => ready'[d] = ready[d]
      /\ k = "step" => ready'[c] = ready[c]
      /\ k = "reset" => ~ready'[c]
      /\ \A d, i : OwedReset(d, i)' => OwedReset(d, i) \/ (k = "reset" /\ d = c /\ i = id)
  BY <1>1, <1>2, <1>5, <1>6, <1>8
<1> QED BY <1>2, <1>3, <1>4, <1>7, <1>9, AskedClients

LEMMA InitClients == Init => ClientsInv
<1> SUFFICES ASSUME Init PROVE ClientsInv
  OBVIOUS
<1>1. outbox = [c \in Conns |-> <<>>] /\ Range(<<>>) = {} /\ NoCall.kind = "none"
  BY NoMessage DEF Init, Nothing, NoCall
<1> QED BY <1>1 DEF Init, ClientsInv, ClientOK, Follows, DoneIsLast, ReadyIsCurrent

LEMMA NextClients ==
  ASSUME SlotsInv, RequestsInv, ClientsInv, [Next]_svars
  PROVE  ClientsInv'
<1>0. ResetsInOrder
  BY DEF RequestsInv
<1>1. ASSUME NEW c \in Conns, Reader(c) PROVE ClientsInv'
  BY <1>0, <1>1, ReaderClients
<1>2. ASSUME NEW c \in Conns, Client(c) PROVE ClientsInv'
  BY <1>0, <1>2, AcceptClients, StepAskedClients, ResetAskedClients, GivesUpClients, ReaderClients,
     ReadClients DEF Client
<1>3. ASSUME ModelCallEnds PROVE ClientsInv'
  BY <1>0, <1>3, WorkClients, OpenSucceedsClients, EndedClients, ResetSucceedsClients
     DEF ModelCallEnds
<1>4. ASSUME StepThread PROVE ClientsInv'
  BY <1>0, <1>4, TakenClients, WorkClients, LeavingClients, EndedClients, ResetBeginsClients
     DEF StepThread
<1>5. ASSUME Timeouts PROVE ClientsInv'
  BY <1>0, <1>5, TimeoutClients
<1>6. ASSUME Lifecycle \/ StepLoopFails PROVE ClientsInv'
  BY <1>0, <1>6, WorkClients, EndsAllClients DEF Lifecycle, EndsAll
<1>7. ASSUME NEW p \in pending, FutureDone(p) PROVE ClientsInv'
  BY <1>0, <1>7, WorkClients
<1>8. ASSUME UNCHANGED svars PROVE ClientsInv'
  BY <1>0, <1>8, WorkClients
<1> QED BY <1>1, <1>2, <1>3, <1>4, <1>5, <1>6, <1>7, <1>8 DEF Next

-------------------------------------------------------------------------------
(* The theorems.                                                           *)

LEMMA InitRequests == Init => RequestsInv
<1> SUFFICES ASSUME Init PROVE RequestsInv
  OBVIOUS
<1>1. Range(<<>>) = {} /\ Resets(<<>>) = {}
  BY NoMessage DEF Resets
<1>2. \A c, i : ~OwedStep(c, i) /\ ~OwedReset(c, i)
  BY <1>1 DEF Init, OwedStep, OwedReset
<1>3. OwedAreNew /\ AnsweredOnce
  BY <1>2 DEF Init, OwedAreNew, AnsweredOnce
<1>4. ResetsInOrder
  BY <1>1 DEF Init, ResetsInOrder, Rising
<1> QED BY <1>3, <1>4 DEF RequestsInv

LEMMA NextRequests ==
  ASSUME SlotsInv, RequestsInv, [Next]_svars
  PROVE  RequestsInv'
<1>1. ASSUME NEW c \in Conns, Reader(c) PROVE RequestsInv'
  BY <1>1, ReaderRequests
<1>2. ASSUME NEW c \in Conns, Client(c) PROVE RequestsInv'
  BY <1>2, UnaskedRequests, StepRequests, ResetRequests, GivesUpRequests, ReaderRequests DEF Client
<1>3. ASSUME ModelCallEnds PROVE RequestsInv'
  BY <1>3, ReturnRequests, OpenRequests, ResetEndsRequests DEF ModelCallEnds
<1>4. ASSUME StepThread PROVE RequestsInv'
  BY <1>4, TakenRequests, BatchRequests, UnaskedRequests, LeavingRequests, OpenRequests,
     ResetBeginsRequests, ResetEndsRequests DEF StepThread
<1>5. ASSUME Timeouts PROVE RequestsInv'
  BY <1>5, ExpiresRequests, WaitingExpiresRequests DEF Timeouts
<1>6. ASSUME Lifecycle \/ StepLoopFails PROVE RequestsInv'
  BY <1>6, UnaskedRequests, EndsAllRequests DEF Lifecycle, EndsAll
<1>7. ASSUME NEW p \in pending, FutureDone(p) PROVE RequestsInv'
  BY <1>7, FutureRequests
<1>8. ASSUME UNCHANGED svars PROVE RequestsInv'
  BY <1>8, UnaskedRequests
<1> QED BY <1>1, <1>2, <1>3, <1>4, <1>5, <1>6, <1>7, <1>8 DEF Next

ServerInv == SlotsInv /\ RequestsInv /\ ClientsInv

\* What every state of the model server keeps, its step thread, its readers and
\* its clients interleaved in any way: the inductive invariant of the theorems
\* below.
THEOREM ServerInvariant == Spec => []ServerInv
<1>1. Init => ServerInv
  BY InitSlots, InitRequests, InitClients DEF ServerInv
<1>2. ServerInv /\ [Next]_svars => ServerInv'
  <2>1. RequestsInv => ResetsInOrder
    BY DEF RequestsInv
  <2> QED BY <2>1, NextSlots, NextRequests, NextClients DEF ServerInv
<1> QED BY <1>1, <1>2, PTL DEF Spec

\* The server, its readers and its step thread agree on who holds each slot: a
\* slot has one holder, the model has exactly the sessions the server holds, in
\* their generations, a session is busy exactly while a request of its own waits
\* or runs, and a stopped server left nothing (server_core.py, batching.py).
THEOREM SlotsSafe == Spec => []SlotsHold
<1>1. ServerInv => SlotsHold
  BY DEF ServerInv, SlotsInv, Typed, SlotsHold
<1> QED BY <1>1, ServerInvariant, PTL

\* However a request ends - with its result, its timeout, its cancel, a reset, a
\* drain, a stop or the loss of its connection - it is answered at most once
\* (server_core.py, batching.py).
THEOREM AnswersSafe == Spec => []AnsweredOnce
<1>1. ServerInv => AnsweredOnce
  BY DEF ServerInv, RequestsInv
<1> QED BY <1>1, ServerInvariant, PTL

\* A client that may step is in the generation its connection is in: no answer
\* of a reset it gave up on, nor of one it made before the last, lets it step
\* into an older one (client.py reset, _read; server_core.py _reset).
THEOREM GenerationSafe == Spec => []ClientKnowsGeneration
<1>1. ServerInv => ClientKnowsGeneration
  <2>1. SlotsInv => connections \subseteq Conns
    BY DEF SlotsInv, Typed, ServerTypeOK
  <2> QED BY <2>1 DEF ServerInv, ClientsInv, ClientOK, ReadyIsCurrent, ClientKnowsGeneration
<1> QED BY <1>1, ServerInvariant, PTL
===============================================================================
