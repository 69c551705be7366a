--------------------------- MODULE Pipeline_proofs ---------------------------
(***************************************************************************)
(* Proofs about Pipeline, for any sessions, forwarders, workers and        *)
(* messages, and any rate, capacity and width of integers.                 *)
(***************************************************************************)
EXTENDS Pipeline, FiniteSetTheorems, SequenceTheorems, TLAPS

-----------------------------------------------------------------------------
(* The inductive invariant.                                                *)

\* What can be sent to another node.
Sendable == {it \in Items : Envelope(it).dest \in Dests}

\* What a handler is about to answer came in on its own session, and is to be
\* answered.
HandlersOK ==
    \A s \in Sessions :
        /\ hdl[s].pc = "recv" => hdl[s].msg = NoMsg
        /\ hdl[s].pc = "ack" => hdl[s].msg \in Msgs
        /\ hdl[s].msg \in Msgs => /\ hdl[s].msg \in got
                                  /\ Answers(hdl[s].msg)
                                  /\ From[hdl[s].msg] = s

\* A worker has an item from Dequeue on, a bucket when it uses one.
WorkersOK ==
    \A w \in Workers :
        /\ wkr[w].pc \in {"dequeue", "gone"} => wkr[w].item = NoMsg
        /\ wkr[w].pc \notin {"dequeue", "gone", "dead"} => wkr[w].item \in Sendable
        /\ wkr[w].pc \in {"load", "store"} => WorkerOf[w] \in Pipes
        /\ wkr[w].pc = "allow" => wkr[w].tb \in 1..Len(buckets)

\* What a bucket holds and what it has given out were there when it was made, or
\* have come in since, up to its last refill.
BucketOK(b) ==
    /\ b \in Bucket
    /\ b.tokens >= 0
    /\ b.last <= now /\ b.made <= b.last
    /\ (b.tokens + b.spent) * Second <= capacity * Second + Rate * (b.last - b.made)

BucketsOK == \A i \in 1..Len(buckets) : BucketOK(buckets[i])

FlowsOK == flows \in [Forwarders -> [Classes -> [Dests -> Seq(Sendable)]]]

\* An item is nowhere, or in exactly one place.
IsAt(it, f, c, d, i) == i \in 1..Len(flows[f][c][d]) /\ flows[f][c][d][i] = it

Unqueued(it) == \A f \in Forwarders, c \in Classes, d \in Dests, i \in Nat : ~IsAt(it, f, c, d, i)

QueuedOnce(it) ==
    \E f \in Forwarders, c \in Classes, d \in Dests, i \in Nat :
        /\ IsAt(it, f, c, d, i)
        /\ \A g \in Forwarders, a \in Classes, e \in Dests, j \in Nat :
              IsAt(it, g, a, e, j) => g = f /\ a = c /\ e = d /\ j = i

Unheld(it) == \A w \in Workers : wkr[w].item # it

HeldOnce(it) == \E w \in Workers : wkr[w].item = it /\ \A v \in Workers : wkr[v].item = it => v = w

Somewhere(it) ==
    \/ QueuedOnce(it) /\ Unheld(it) /\ sent[it] = 0
    \/ Unqueued(it) /\ HeldOnce(it) /\ sent[it] = 0
    \/ Unqueued(it) /\ Unheld(it) /\ sent[it] = 1

Nowhere(it) == Unqueued(it) /\ Unheld(it) /\ sent[it] = 0

PlacesOK == \A it \in Items : IF Accepted(it) THEN Somewhere(it) ELSE Nowhere(it)

PInv == PTypeOK /\ HandlersOK /\ WorkersOK /\ BucketsOK /\ FlowsOK /\ PlacesOK

-----------------------------------------------------------------------------
(* The token bucket.                                                       *)

LEMMA ConstantsType ==
    /\ Rate \in Nat \ {0} /\ Second \in Nat \ {0} /\ MaxInt64 \in Nat
    /\ capacity \in Nat
  BY BucketAssumption DEF capacity

LEMMA DivBound == ASSUME NEW y \in Int, NEW n \in Nat \ {0} PROVE y \div n \in Int /\ (y \div n) * n <= y
  OBVIOUS

LEMMA ModBound == ASSUME NEW y \in Nat, NEW n \in Nat \ {0} PROVE y % n \in Nat /\ y % n <= y
  OBVIOUS

\* An overflow never makes a product larger.
LEMMA WrapBound == ASSUME NEW x \in Nat PROVE Wrap(x) \in Int /\ Wrap(x) <= x
  <1> DEFINE h == MaxInt64 + 1
  <1>1. h \in Nat \ {0} /\ 2 * h \in Nat \ {0} /\ x + h \in Nat
    BY ConstantsType
  <1>2. (x + h) % (2 * h) \in Nat /\ (x + h) % (2 * h) <= x + h
    BY <1>1, ModBound
  <1>3. x + MaxInt64 + 1 = x + h
    BY ConstantsType
  <1>4. Wrap(x) = ((x + h) % (2 * h)) - h
    BY <1>3 DEF Wrap
  <1> HIDE DEF h
  <1> QED
    BY <1>1, <1>2, <1>4

LEMMA BucketFields ==
    ASSUME NEW b \in Bucket
    PROVE  b.tokens \in Int /\ b.last \in Nat /\ b.made \in Nat /\ b.spent \in Nat
  BY DEF Bucket

\* What a refill adds has come in since the last one.
LEMMA RefillOK ==
    ASSUME NEW b, BucketOK(b), now \in Nat
    PROVE  BucketOK(Refill(b))
  <1> DEFINE add == Wrap(Rate * (now - b.last)) \div Second
             t   == IF b.tokens + add > capacity THEN capacity ELSE b.tokens + add
             r   == [b EXCEPT !.tokens = t, !.last = now]
  <1>1. /\ b \in Bucket /\ b.tokens >= 0 /\ b.last <= now /\ b.made <= b.last
        /\ (b.tokens + b.spent) * Second <= capacity * Second + Rate * (b.last - b.made)
    BY DEF BucketOK
  <1>2. b.tokens \in Int /\ b.last \in Nat /\ b.made \in Nat /\ b.spent \in Nat
    BY <1>1, BucketFields
  <1>3. Rate * (now - b.last) \in Nat
    <2>1. now - b.last \in Nat
      BY <1>1, <1>2
    <2> QED
      BY <2>1, ConstantsType
  <1>4. add \in Int /\ add * Second <= Rate * (now - b.last)
    <2> DEFINE x == Rate * (now - b.last)
               y == Wrap(x)
    <2>1. y \in Int /\ y <= x
      BY <1>3, WrapBound
    <2> HIDE DEF y
    <2>2. y \div Second \in Int /\ (y \div Second) * Second <= y
      BY <2>1, ConstantsType, DivBound
    <2>3. (y \div Second) * Second \in Int
      BY <2>2, ConstantsType
    <2>4. (y \div Second) * Second <= x
      BY <1>3, <2>1, <2>2, <2>3
    <2> QED
      BY <2>2, <2>4 DEF y
  <1>5. Refill(b) = IF add > 0 THEN r ELSE b
    BY DEF Refill
  <1> HIDE DEF add
  <1>6. ASSUME add > 0 PROVE BucketOK(r)
    <2>1. t \in Int /\ t >= 0 /\ t <= b.tokens + add
      BY <1>1, <1>2, <1>4, <1>6, ConstantsType
    <2> HIDE DEF t
    <2>2. r \in Bucket /\ r.tokens = t /\ r.last = now /\ r.made = b.made /\ r.spent = b.spent
      BY <1>1, <2>1 DEF Bucket
    <2> HIDE DEF r
    <2>3. (t + b.spent) * Second <= capacity * Second + Rate * (now - b.made)
      <3>1. (t + b.spent) * Second <= (b.tokens + b.spent) * Second + add * Second
        <4>1. t + b.spent <= b.tokens + b.spent + add
          BY <1>2, <1>4, <2>1
        <4>2. ASSUME NEW p \in Int, NEW q \in Int, p <= q PROVE p * Second <= q * Second
          BY <4>2, ConstantsType
        <4>3. (t + b.spent) * Second <= (b.tokens + b.spent + add) * Second
          BY <1>2, <1>4, <2>1, <4>1, <4>2
        <4>4. (b.tokens + b.spent + add) * Second = (b.tokens + b.spent) * Second + add * Second
          BY <1>2, <1>4, ConstantsType
        <4> QED
          BY <4>3, <4>4
      <3>2. Rate * (b.last - b.made) + Rate * (now - b.last) = Rate * (now - b.made)
        BY <1>2, ConstantsType
      <3>3. /\ (t + b.spent) * Second \in Int /\ (b.tokens + b.spent) * Second \in Int
            /\ add * Second \in Int /\ capacity * Second \in Int
            /\ Rate * (b.last - b.made) \in Int /\ Rate * (now - b.last) \in Int
            /\ Rate * (now - b.made) \in Int
        BY <1>2, <1>4, <2>1, ConstantsType
      <3> QED
        BY <1>1, <1>4, <3>1, <3>2, <3>3
    <2>4. r.last <= now /\ r.made <= r.last
      BY <1>1, <1>2, <2>2
    <2> QED
      BY <2>1, <2>2, <2>3, <2>4 DEF BucketOK
  <1> HIDE DEF r
  <1> QED
    BY <1>5, <1>6

\* Spending what is there moves it from one term of the sum to the other.
LEMMA SpendOK ==
    ASSUME NEW b, BucketOK(b), NEW n \in Nat, b.tokens >= n
    PROVE  BucketOK([b EXCEPT !.tokens = @ - n, !.spent = @ + n])
  <1> DEFINE r == [b EXCEPT !.tokens = @ - n, !.spent = @ + n]
  <1>1. /\ b \in Bucket /\ b.tokens >= 0 /\ b.last <= now /\ b.made <= b.last
        /\ (b.tokens + b.spent) * Second <= capacity * Second + Rate * (b.last - b.made)
    BY DEF BucketOK
  <1>2. b.tokens \in Int /\ b.last \in Nat /\ b.made \in Nat /\ b.spent \in Nat
    BY <1>1, BucketFields
  <1>3. b.tokens - n \in Int /\ b.spent + n \in Nat /\ b.tokens - n >= 0
    BY <1>2
  <1>4. r \in Bucket /\ r.tokens = b.tokens - n /\ r.last = b.last /\ r.made = b.made /\ r.spent = b.spent + n
    BY <1>1, <1>3 DEF Bucket
  <1>5. r.tokens + r.spent = b.tokens + b.spent
    BY <1>2, <1>4
  <1> QED
    BY <1>1, <1>3, <1>4, <1>5 DEF BucketOK

LEMMA NewBucketOK == ASSUME now \in Nat PROVE BucketOK(NewTokenBucket)
  <1> DEFINE b == NewTokenBucket
  <1>1. b \in Bucket /\ b.tokens = capacity /\ b.last = now /\ b.made = now /\ b.spent = 0
    BY ConstantsType DEF NewTokenBucket, Bucket
  <1>2. Rate * (now - now) = 0
    BY ConstantsType
  <1> QED
    BY <1>1, <1>2, ConstantsType DEF BucketOK

\* With BucketsOK a bucket conforms, for its last refill is in the past.
LEMMA BucketsConform == ASSUME now \in Nat, buckets \in Seq(Bucket), BucketsOK PROVE Conforms
  <1> SUFFICES ASSUME NEW i \in DOMAIN buckets
               PROVE  buckets[i].spent * Second <= capacity * Second + Rate * (now - buckets[i].made)
    BY DEF Conforms
  <1> DEFINE b == buckets[i]
  <1>1. BucketOK(b)
    BY DEF BucketsOK
  <1> HIDE DEF b
  <1>2. /\ b.tokens >= 0 /\ b.last <= now /\ b.made <= b.last
        /\ (b.tokens + b.spent) * Second <= capacity * Second + Rate * (b.last - b.made)
        /\ b.tokens \in Int /\ b.last \in Nat /\ b.made \in Nat /\ b.spent \in Nat
    BY <1>1, BucketFields DEF BucketOK
  <1>3. (b.tokens + b.spent) * Second = b.tokens * Second + b.spent * Second
    BY <1>2, ConstantsType
  <1>4. b.tokens * Second >= 0
    BY <1>2, ConstantsType
  <1>5. Rate * (b.last - b.made) <= Rate * (now - b.made)
    <2>1. ASSUME NEW p \in Int, NEW q \in Int, p <= q PROVE Rate * p <= Rate * q
      BY <2>1, ConstantsType
    <2>2. b.last - b.made \in Int /\ now - b.made \in Int /\ b.last - b.made <= now - b.made
      BY <1>2
    <2> QED
      BY <2>1, <2>2
  <1>6. /\ b.tokens * Second \in Int /\ b.spent * Second \in Int /\ capacity * Second \in Int
        /\ Rate * (b.last - b.made) \in Int /\ Rate * (now - b.made) \in Int
    <2>1. b.tokens \in Int /\ b.spent \in Int /\ b.last - b.made \in Int /\ now - b.made \in Int
      BY <1>2
    <2>2. \A x, y \in Int : x * y \in Int
      OBVIOUS
    <2> QED
      BY <2>1, <2>2, ConstantsType
  <1>7. b.spent * Second <= capacity * Second + Rate * (now - b.made)
    BY <1>2, <1>3, <1>4, <1>5, <1>6
  <1> QED
    BY <1>7 DEF b

-----------------------------------------------------------------------------
(* Items.                                                                  *)

LEMMA EnvelopeType ==
    ASSUME NEW it \in Items
    PROVE  Envelope(it) \in Message /\ Fwd(it) \in Forwarders /\ ClassOf(it) \in Classes
  <1>1. it[1] \in Msgs /\ From[it[1]] \in Sessions
    BY TopologyAssumption DEF Items
  <1>2. Fwd(it) \in Forwarders /\ PeerOf[From[it[1]]] \in Dests
    BY <1>1, TopologyAssumption DEF Fwd
  <1>3. StatusAck(it[1]) \in Message
    BY <1>2 DEF StatusAck, Message, Bodies
  <1>4. Envelope(it) \in Message
    BY <1>1, <1>3, MessageAssumption DEF Envelope
  <1>5. ASSUME NEW e \in Message PROVE classify(e) \in Classes /\ classifyLocal(e) \in Classes
    <2>1. e.body \in Bodies
      BY DEF Message
    <2> QED
      BY <2>1 DEF Bodies, Classes, classify, classifyLocal
  <1> QED
    BY <1>2, <1>4, <1>5 DEF ClassOf

LEMMA SendableType ==
    ASSUME NEW it \in Sendable
    PROVE  it \in Items /\ Envelope(it).dest \in Dests /\ Envelope(it).size \in Nat /\ it # NoMsg
  BY EnvelopeType, TopologyAssumption DEF Sendable, Message, Items

\* A flow is replaced.
LEMMA FlowsSet ==
    ASSUME NEW S, NEW fl \in [Forwarders -> [Classes -> [Dests -> S]]],
           NEW f \in Forwarders, NEW c \in Classes, NEW d \in Dests, NEW v \in S
    PROVE  LET new == [fl EXCEPT ![f][c][d] = v]
           IN  /\ new \in [Forwarders -> [Classes -> [Dests -> S]]]
               /\ new[f][c][d] = v
               /\ \A g \in Forwarders, a \in Classes, e \in Dests :
                     g # f \/ a # c \/ e # d => new[g][a][e] = fl[g][a][e]
  OBVIOUS

LEMMA SeqSendable == Seq(Sendable) \subseteq Seq(Items)
  <1> SUFFICES ASSUME NEW q \in Seq(Sendable) PROVE q \in Seq(Items)
    OBVIOUS
  <1>1. PICK n \in Nat : q \in [1..n -> Sendable]
    BY SeqDef
  <1>2. q \in [1..n -> Items]
    BY <1>1 DEF Sendable
  <1> QED
    BY <1>2, SeqDef

\* An item that is enqueued gets one place more, and the others keep theirs.
LEMMA EnqueuePlaces ==
    ASSUME FlowsOK, NEW it \in Sendable, Enqueue(it)
    PROVE  /\ FlowsOK'
           /\ Unqueued(it) => QueuedOnce(it)'
           /\ \A x \in Items \ {it} : /\ Unqueued(x) => Unqueued(x)'
                                      /\ QueuedOnce(x) => QueuedOnce(x)'
  <1>1. PICK f \in Forwarders, c \in Classes, d \in Dests :
           f = Fwd(it) /\ c = ClassOf(it) /\ d = Envelope(it).dest
    BY EnvelopeType, SendableType
  <1>2. PICK q \in Seq(Sendable) : q = flows[f][c][d]
    BY DEF FlowsOK
  <1>3. Append(q, it) \in Seq(Sendable)
    BY AppendProperties
  <1>4. flows' = [flows EXCEPT ![f][c][d] = Append(q, it)]
    BY <1>1, <1>2 DEF Enqueue
  <1>5. /\ FlowsOK'
        /\ flows'[f][c][d] = Append(q, it)
        /\ \A g \in Forwarders, a \in Classes, e \in Dests :
              g # f \/ a # c \/ e # d => flows'[g][a][e] = flows[g][a][e]
    BY <1>3, <1>4, FlowsSet DEF FlowsOK
  <1> DEFINE n == Len(q) + 1
  <1>6. /\ Len(q) \in Nat /\ Len(Append(q, it)) = n /\ Append(q, it)[n] = it
        /\ \A i \in 1..Len(q) : Append(q, it)[i] = q[i]
    OBVIOUS
  <1>7. ASSUME NEW x, NEW g \in Forwarders, NEW a \in Classes, NEW e \in Dests, NEW j \in Nat
        PROVE  IsAt(x, g, a, e, j)' <=> \/ IsAt(x, g, a, e, j)
                                        \/ x = it /\ g = f /\ a = c /\ e = d /\ j = n
    <2>1. CASE g # f \/ a # c \/ e # d
      <3>1. flows'[g][a][e] = flows[g][a][e]
        BY <1>5, <2>1
      <3> QED
        BY <2>1, <3>1 DEF IsAt
    <2>2. CASE g = f /\ a = c /\ e = d
      <3>1. IsAt(x, g, a, e, j) <=> j \in 1..Len(q) /\ q[j] = x
        BY <1>2, <2>2 DEF IsAt
      <3>2. IsAt(x, g, a, e, j)' <=> j \in 1..n /\ Append(q, it)[j] = x
        BY <1>5, <1>6, <2>2 DEF IsAt
      <3>3. j \in 1..n <=> j \in 1..Len(q) \/ j = n
        BY <1>6
      <3>4. j \in 1..Len(q) => j # n
        BY <1>6
      <3> QED
        BY <1>6, <2>2, <3>1, <3>2, <3>3, <3>4
    <2> QED
      BY <2>1, <2>2
  <1>8. n \in Nat
    BY <1>6
  <1> HIDE DEF n
  <1>9. ASSUME Unqueued(it) PROVE QueuedOnce(it)'
    <2>1. IsAt(it, f, c, d, n)'
      BY <1>7, <1>8
    <2>2. ASSUME NEW g \in Forwarders, NEW a \in Classes, NEW e \in Dests, NEW j \in Nat,
                 IsAt(it, g, a, e, j)'
          PROVE  g = f /\ a = c /\ e = d /\ j = n
      BY <1>7, <1>9, <2>2 DEF Unqueued
    <2> QED
      BY <1>8, <2>1, <2>2 DEF QueuedOnce
  <1>10. ASSUME NEW x \in Items \ {it}
         PROVE  (Unqueued(x) => Unqueued(x)') /\ (QueuedOnce(x) => QueuedOnce(x)')
    <2>1. \A g \in Forwarders, a \in Classes, e \in Dests, j \in Nat :
             IsAt(x, g, a, e, j)' <=> IsAt(x, g, a, e, j)
      BY <1>7
    <2> QED
      BY <2>1 DEF Unqueued, QueuedOnce
  <1> QED
    BY <1>5, <1>9, <1>10

\* Dequeue takes a place away from the item that it returns.
LEMMA TakePlaces ==
    ASSUME FlowsOK, NEW f \in Forwarders, NEW c \in Classes, NEW d \in Dests, flows[f][c][d] # <<>>,
           flows' = [flows EXCEPT ![f][c][d] = Tail(@)], NEW h, h = Head(flows[f][c][d])
    PROVE  /\ FlowsOK'
           /\ h \in Sendable
           /\ ~Unqueued(h)
           /\ QueuedOnce(h) => Unqueued(h)'
           /\ \A x \in Items \ {h} : /\ Unqueued(x) => Unqueued(x)'
                                     /\ QueuedOnce(x) => QueuedOnce(x)'
  <1> DEFINE At(g, a, e, j) == IF g = f /\ a = c /\ e = d THEN j + 1 ELSE j
  <1>1. PICK q \in Seq(Sendable) : q = flows[f][c][d] /\ q # <<>> /\ h = Head(q)
    BY DEF FlowsOK
  <1>2. /\ h \in Sendable /\ Tail(q) \in Seq(Sendable)
        /\ h = q[1] /\ Len(q) \in Nat /\ 1 <= Len(q) /\ Len(Tail(q)) = Len(q) - 1
        /\ \A i \in 1..(Len(q) - 1) : Tail(q)[i] = q[i + 1]
    BY <1>1
  <1>3. flows' = [flows EXCEPT ![f][c][d] = Tail(q)]
    BY <1>1
  <1>4. /\ FlowsOK'
        /\ flows'[f][c][d] = Tail(q)
        /\ \A g \in Forwarders, a \in Classes, e \in Dests :
              g # f \/ a # c \/ e # d => flows'[g][a][e] = flows[g][a][e]
    BY <1>2, <1>3, FlowsSet DEF FlowsOK
  <1>5. IsAt(h, f, c, d, 1)
    <2>1. 1 \in 1..Len(q)
      BY <1>2
    <2> QED
      BY <1>1, <1>2, <2>1 DEF IsAt
  <1>6. ASSUME NEW x, NEW g \in Forwarders, NEW a \in Classes, NEW e \in Dests, NEW j \in Nat
        PROVE  IsAt(x, g, a, e, j)' <=> j # 0 /\ IsAt(x, g, a, e, At(g, a, e, j))
    <2>1. CASE g # f \/ a # c \/ e # d
      <3>1. flows'[g][a][e] = flows[g][a][e] /\ At(g, a, e, j) = j
        BY <1>4, <2>1
      <3>2. IsAt(x, g, a, e, j) => j # 0
        BY DEF IsAt
      <3>3. IsAt(x, g, a, e, j)' <=> IsAt(x, g, a, e, j)
        BY <3>1 DEF IsAt
      <3> QED
        BY <3>1, <3>2, <3>3
    <2>2. CASE g = f /\ a = c /\ e = d
      <3>1. At(g, a, e, j) = j + 1
        BY <2>2
      <3>2. IsAt(x, g, a, e, j + 1) <=> j + 1 \in 1..Len(q) /\ q[j + 1] = x
        BY <1>1, <2>2 DEF IsAt
      <3>3. IsAt(x, g, a, e, j)' <=> j \in 1..(Len(q) - 1) /\ Tail(q)[j] = x
        BY <1>2, <1>4, <2>2 DEF IsAt
      <3>4. j \in 1..(Len(q) - 1) <=> j # 0 /\ j + 1 \in 1..Len(q)
        BY <1>2
      <3> QED
        BY <1>2, <3>1, <3>2, <3>3, <3>4
    <2> QED
      BY <2>1, <2>2
  <1>7. \A g \in Forwarders, a \in Classes, e \in Dests, j \in Nat : At(g, a, e, j) \in Nat
    OBVIOUS
  <1>8. ~Unqueued(h)
    BY <1>5 DEF Unqueued
  <1>9. ASSUME NEW x, Unqueued(x) PROVE Unqueued(x)'
    BY <1>6, <1>7, <1>9 DEF Unqueued
  <1>10. ASSUME QueuedOnce(h) PROVE Unqueued(h)'
    <2>1. ASSUME NEW g \in Forwarders, NEW a \in Classes, NEW e \in Dests, NEW j \in Nat,
                 IsAt(h, g, a, e, j)
          PROVE  g = f /\ a = c /\ e = d /\ j = 1
      BY <1>5, <1>10, <2>1 DEF QueuedOnce
    <2> SUFFICES ASSUME NEW g \in Forwarders, NEW a \in Classes, NEW e \in Dests, NEW j \in Nat,
                        IsAt(h, g, a, e, j)'
                 PROVE  FALSE
      BY DEF Unqueued
    <2>2. j # 0 /\ IsAt(h, g, a, e, At(g, a, e, j))
      BY <1>6
    <2>3. g = f /\ a = c /\ e = d /\ At(g, a, e, j) = 1
      BY <1>7, <2>1, <2>2
    <2> QED
      BY <2>2, <2>3
  <1>11. ASSUME NEW x \in Items, x # h, QueuedOnce(x) PROVE QueuedOnce(x)'
    <2>1. PICK g \in Forwarders, a \in Classes, e \in Dests, i \in Nat :
             /\ IsAt(x, g, a, e, i)
             /\ \A g2 \in Forwarders, a2 \in Classes, e2 \in Dests, j \in Nat :
                   IsAt(x, g2, a2, e2, j) => g2 = g /\ a2 = a /\ e2 = e /\ j = i
      BY <1>11 DEF QueuedOnce
    <2>2. i # 0
      BY <2>1 DEF IsAt
    <2>3. g = f /\ a = c /\ e = d => i # 1
      BY <1>1, <1>2, <1>11, <2>1 DEF IsAt
    <2> DEFINE k == IF g = f /\ a = c /\ e = d THEN i - 1 ELSE i
    <2>4. k \in Nat /\ k # 0 /\ At(g, a, e, k) = i
      BY <2>2, <2>3
    <2>5. IsAt(x, g, a, e, k)'
      BY <1>6, <2>1, <2>4
    <2>6. ASSUME NEW g2 \in Forwarders, NEW a2 \in Classes, NEW e2 \in Dests, NEW j \in Nat,
                 IsAt(x, g2, a2, e2, j)'
          PROVE  g2 = g /\ a2 = a /\ e2 = e /\ j = k
      <3>1. IsAt(x, g2, a2, e2, At(g2, a2, e2, j)) /\ At(g2, a2, e2, j) \in Nat
        BY <1>6, <1>7, <2>6
      <3>2. g2 = g /\ a2 = a /\ e2 = e /\ At(g2, a2, e2, j) = i
        BY <2>1, <3>1
      <3> QED
        BY <3>2
    <2> HIDE DEF k
    <2> QED
      BY <2>4, <2>5, <2>6 DEF QueuedOnce
  <1> QED
    BY <1>2, <1>4, <1>8, <1>9, <1>10, <1>11

-----------------------------------------------------------------------------
(* Places.                                                                 *)

\* A step that moves no item, and neither accepts one nor ends the answering of
\* one, leaves every item where it is.
LEMMA QuietPlaces ==
    ASSUME PlacesOK, UNCHANGED <<got, flows, sent>>,
           \A s \in Sessions : hdl'[s].msg = hdl[s].msg,
           \A w \in Workers : wkr'[w].item = wkr[w].item
    PROVE  PlacesOK'
  <1> SUFFICES ASSUME NEW it \in Items
               PROVE  IF Accepted(it)' THEN Somewhere(it)' ELSE Nowhere(it)'
    BY DEF PlacesOK
  <1>1. Accepted(it)' <=> Accepted(it)
    BY DEF Accepted
  <1>2. (Unqueued(it)' <=> Unqueued(it)) /\ (QueuedOnce(it)' <=> QueuedOnce(it))
    BY DEF Unqueued, QueuedOnce, IsAt
  <1>3. (Unheld(it)' <=> Unheld(it)) /\ (HeldOnce(it)' <=> HeldOnce(it))
    BY DEF Unheld, HeldOnce
  <1>4. IF Accepted(it) THEN Somewhere(it) ELSE Nowhere(it)
    BY DEF PlacesOK
  <1> QED
    BY <1>1, <1>2, <1>3, <1>4 DEF Somewhere, Nowhere

\* A handler enqueues an item that is nowhere yet.
LEMMA NewPlaces ==
    ASSUME PlacesOK, FlowsOK, NEW it \in Sendable, Enqueue(it), UNCHANGED <<wkr, sent>>,
           ~Accepted(it), Accepted(it)',
           \A x \in Items \ {it} : Accepted(x)' <=> Accepted(x)
    PROVE  FlowsOK' /\ PlacesOK'
  <1>1. /\ FlowsOK'
        /\ Unqueued(it) => QueuedOnce(it)'
        /\ \A x \in Items \ {it} : /\ Unqueued(x) => Unqueued(x)'
                                   /\ QueuedOnce(x) => QueuedOnce(x)'
    BY EnqueuePlaces
  <1>2. \A x \in Items : (Unheld(x)' <=> Unheld(x)) /\ (HeldOnce(x)' <=> HeldOnce(x))
    BY DEF Unheld, HeldOnce
  <1>3. it \in Items
    BY SendableType
  <1>4. Nowhere(it)
    BY <1>3 DEF PlacesOK
  <1>5. Somewhere(it)'
    BY <1>1, <1>2, <1>3, <1>4 DEF Nowhere, Somewhere
  <1>6. ASSUME NEW x \in Items \ {it} PROVE IF Accepted(x)' THEN Somewhere(x)' ELSE Nowhere(x)'
    <2>1. IF Accepted(x) THEN Somewhere(x) ELSE Nowhere(x)
      BY DEF PlacesOK
    <2>2. Accepted(x)' <=> Accepted(x)
      OBVIOUS
    <2> QED
      BY <1>1, <1>2, <2>1, <2>2 DEF Nowhere, Somewhere
  <1> QED
    BY <1>1, <1>5, <1>6 DEF PlacesOK

-----------------------------------------------------------------------------
(* Handlers.                                                               *)

LEMMA MsgType == ASSUME NEW m \in Msgs PROVE Msg[m] \in Message /\ m # NoMsg /\ From[m] \in Sessions
  BY MessageAssumption, TopologyAssumption

LEMMA ReceiveInv == ASSUME PInv, NEW s \in Sessions, Receive(s) PROVE PInv'
  <1>0. PTypeOK /\ HandlersOK /\ WorkersOK /\ BucketsOK /\ FlowsOK /\ PlacesOK
    BY DEF PInv
  <1>1. PICK m \in Msgs \ got :
          /\ From[m] = s
          /\ got' = got \cup {m}
          /\ IF Msg[m].proto /\ Msg[m].dest # NoDest THEN Enqueue(<<m, "fwd">>)
                                                     ELSE UNCHANGED flows
          /\ hdl' = [hdl EXCEPT ![s] = IF Answers(m) THEN [pc |-> "ack", msg |-> m] ELSE @]
    BY DEF Receive
  <1>2. hdl[s].pc = "recv" /\ hdl[s].msg = NoMsg
    BY <1>0 DEF Receive, HandlersOK
  <1>3. UNCHANGED <<wkr, shaper, buckets, now, fails, closed, sent>>
    BY DEF Receive
  <1>4. hdl \in [Sessions -> Handler] /\ got \in SUBSET Msgs
    BY <1>0 DEF PTypeOK
  <1>5. /\ hdl' \in [Sessions -> Handler] /\ got' \in SUBSET Msgs
        /\ hdl'[s] = IF Answers(m) THEN [pc |-> "ack", msg |-> m] ELSE hdl[s]
        /\ \A t \in Sessions \ {s} : hdl'[t] = hdl[t]
    BY <1>1, <1>4 DEF Handler
  <1>6. HandlersOK'
    <2> SUFFICES ASSUME NEW t \in Sessions
                 PROVE  /\ hdl'[t].pc = "recv" => hdl'[t].msg = NoMsg
                        /\ hdl'[t].pc = "ack" => hdl'[t].msg \in Msgs
                        /\ hdl'[t].msg \in Msgs => /\ hdl'[t].msg \in got'
                                                   /\ Answers(hdl'[t].msg)
                                                   /\ From[hdl'[t].msg] = t
      BY DEF HandlersOK, Answers
    <2>1. hdl'[t] = hdl[t] \/ (t = s /\ Answers(m) /\ hdl'[t] = [pc |-> "ack", msg |-> m])
      BY <1>5
    <2>2. CASE hdl'[t] = hdl[t]
      BY <1>0, <1>1, <2>2 DEF HandlersOK
    <2>3. CASE t = s /\ Answers(m) /\ hdl'[t] = [pc |-> "ack", msg |-> m]
      BY <1>1, <2>3
    <2> QED
      BY <2>1, <2>2, <2>3
  <1>7. \A t \in Sessions : hdl'[t].msg = hdl[t].msg \/ (t = s /\ Answers(m) /\ hdl'[t].msg = m)
    BY <1>5
  \* what was accepted stays so; of the new message the answer is not there yet
  <1>8. ASSUME NEW x \in Items PROVE
           /\ x[1] # m => (Accepted(x)' <=> Accepted(x))
           /\ x[1] = m => ~Accepted(x)
           /\ x[1] = m /\ x[2] = "ack" => ~Accepted(x)'
           /\ x[1] = m /\ x[2] = "fwd" => (Accepted(x)' <=> Msg[m].proto /\ Msg[m].dest # NoDest)
    <2>1. x[1] \in Msgs /\ x[2] \in {"fwd", "ack"}
      BY DEF Items
    <2>2. ASSUME x[1] # m PROVE Accepted(x)' <=> Accepted(x)
      <3>1. x[1] \in got' <=> x[1] \in got
        BY <1>1, <2>2
      <3>2. x[1] # NoMsg
        BY <2>1, MsgType
      <3>3. (\A t \in Sessions : hdl'[t].msg # x[1]) <=> (\A t \in Sessions : hdl[t].msg # x[1])
        BY <1>2, <1>7, <2>2, <3>2
      <3> QED
        BY <3>1, <3>3 DEF Accepted
    <2>3. x[1] = m => ~Accepted(x)
      BY DEF Accepted
    <2>4. ASSUME x[1] = m, x[2] = "ack" PROVE ~Accepted(x)'
      <3>1. Answers(m) => hdl'[s].msg = m
        BY <1>5
      <3> QED
        BY <2>4, <3>1 DEF Accepted, Answers
    <2>5. ASSUME x[1] = m, x[2] = "fwd" PROVE Accepted(x)' <=> Msg[m].proto /\ Msg[m].dest # NoDest
      BY <1>1, <2>5 DEF Accepted
    <2> QED
      BY <2>2, <2>3, <2>4, <2>5
  <1> DEFINE it == <<m, "fwd">>
  <1>9. it \in Items /\ it[1] = m /\ it[2] = "fwd" /\ \A x \in Items : x[1] = m /\ x # it => x[2] = "ack"
    BY DEF Items
  <1>10. FlowsOK' /\ PlacesOK'
    <2>1. CASE Msg[m].proto /\ Msg[m].dest # NoDest
      <3>1. it \in Sendable
        <4>1. Msg[m].dest \in Dests
          BY <2>1, MsgType DEF Message
        <4> QED
          BY <1>9, <4>1 DEF Sendable, Envelope
      <3>2. Enqueue(it)
        BY <1>1, <2>1
      <3>3. ~Accepted(it) /\ Accepted(it)'
        BY <1>8, <1>9, <2>1
      <3>4. \A x \in Items \ {it} : Accepted(x)' <=> Accepted(x)
        BY <1>8, <1>9
      <3> HIDE DEF it
      <3> QED
        BY <1>0, <1>3, <3>1, <3>2, <3>3, <3>4, NewPlaces
    <2>2. CASE ~(Msg[m].proto /\ Msg[m].dest # NoDest)
      <3>1. UNCHANGED <<flows, wkr, sent>>
        BY <1>1, <1>3, <2>2
      <3>2. \A x \in Items : Accepted(x)' <=> Accepted(x)
        BY <1>8, <1>9, <2>2
      <3>3. \A x \in Items : (Somewhere(x)' <=> Somewhere(x)) /\ (Nowhere(x)' <=> Nowhere(x))
        BY <3>1 DEF Somewhere, Nowhere, Unqueued, QueuedOnce, IsAt, Unheld, HeldOnce
      <3> QED
        BY <1>0, <3>1, <3>2, <3>3 DEF PlacesOK, FlowsOK
    <2> QED
      BY <2>1, <2>2
  <1>11. flows' \in [Forwarders -> [Classes -> [Dests -> Seq(Items)]]]
    BY <1>10, SeqSendable DEF FlowsOK
  <1>12. PTypeOK' /\ WorkersOK' /\ BucketsOK'
    BY <1>0, <1>3, <1>5, <1>11 DEF PTypeOK, WorkersOK, BucketsOK, BucketOK
  <1> QED
    BY <1>6, <1>10, <1>12 DEF PInv

LEMMA SendAckInv == ASSUME PInv, NEW s \in Sessions, SendAck(s) PROVE PInv'
  <1>0. PTypeOK /\ HandlersOK /\ WorkersOK /\ BucketsOK /\ FlowsOK /\ PlacesOK
    BY DEF PInv
  <1>1. PICK m \in Msgs : m = hdl[s].msg /\ m \in got /\ Answers(m) /\ From[m] = s
    BY <1>0 DEF SendAck, HandlersOK
  <1> DEFINE it == <<m, "ack">>
  <1>2. /\ Enqueue(it)
        /\ hdl' = [hdl EXCEPT ![s] = [pc |-> "recv", msg |-> NoMsg]]
        /\ UNCHANGED <<got, wkr, shaper, buckets, now, fails, closed, sent>>
    BY <1>1 DEF SendAck
  <1>3. /\ hdl' \in [Sessions -> Handler]
        /\ hdl'[s] = [pc |-> "recv", msg |-> NoMsg]
        /\ \A t \in Sessions \ {s} : hdl'[t] = hdl[t]
    BY <1>0, <1>2 DEF PTypeOK, Handler
  <1>4. HandlersOK'
    <2> SUFFICES ASSUME NEW t \in Sessions
                 PROVE  /\ hdl'[t].pc = "recv" => hdl'[t].msg = NoMsg
                        /\ hdl'[t].pc = "ack" => hdl'[t].msg \in Msgs
                        /\ hdl'[t].msg \in Msgs => /\ hdl'[t].msg \in got'
                                                   /\ Answers(hdl'[t].msg)
                                                   /\ From[hdl'[t].msg] = t
      BY DEF HandlersOK, Answers
    <2>1. CASE t # s
      BY <1>0, <1>2, <1>3, <2>1 DEF HandlersOK
    <2>2. CASE t = s
      BY <1>3, <2>2, MsgType
    <2> QED
      BY <2>1, <2>2
  <1>5. it \in Items /\ it[1] = m /\ it[2] = "ack" /\ \A x \in Items : x[1] = m /\ x # it => x[2] = "fwd"
    BY DEF Items
  <1>6. it \in Sendable
    <2>1. PeerOf[From[m]] \in Dests
      BY TopologyAssumption
    <2> QED
      BY <1>5, <2>1 DEF Sendable, Envelope, StatusAck
  <1>7. ~Accepted(it)
    BY <1>1, <1>5 DEF Accepted
  <1>8. Accepted(it)'
    <2>1. ASSUME NEW t \in Sessions PROVE hdl'[t].msg # m
      <3>1. CASE t = s
        BY <1>3, <3>1, MsgType
      <3>2. CASE t # s
        BY <1>0, <1>1, <1>3, <3>2 DEF HandlersOK
      <3> QED
        BY <3>1, <3>2
    <2> QED
      BY <1>1, <1>2, <1>5, <2>1 DEF Accepted, Answers
  <1>9. ASSUME NEW x \in Items \ {it} PROVE Accepted(x)' <=> Accepted(x)
    <2>0. x[1] \in Msgs /\ x[2] \in {"fwd", "ack"} /\ x[1] # NoMsg
      BY MsgType DEF Items
    <2>1. CASE x[2] = "fwd"
      BY <1>2, <2>1 DEF Accepted
    <2>2. CASE x[1] # m
      <3>1. (\A t \in Sessions : hdl'[t].msg # x[1]) <=> (\A t \in Sessions : hdl[t].msg # x[1])
        BY <1>1, <1>3, <2>0, <2>2
      <3> QED
        BY <1>2, <3>1 DEF Accepted
    <2> QED
      BY <1>5, <2>1, <2>2
  <1> HIDE DEF it
  <1>10. FlowsOK' /\ PlacesOK'
    BY <1>0, <1>2, <1>6, <1>7, <1>8, <1>9, NewPlaces
  <1>11. flows' \in [Forwarders -> [Classes -> [Dests -> Seq(Items)]]]
    BY <1>10, SeqSendable DEF FlowsOK
  <1>12. PTypeOK' /\ WorkersOK' /\ BucketsOK'
    BY <1>0, <1>2, <1>3, <1>11 DEF PTypeOK, WorkersOK, BucketsOK, BucketOK
  <1> QED
    BY <1>4, <1>10, <1>12 DEF PInv

\* Ending a handler or closing a forwarder moves nothing.
LEMMA EndInv ==
    ASSUME PInv, (\E s \in Sessions : HandlerEnds(s)) \/ (\E f \in Forwarders : ClosePipe(f))
    PROVE  PInv'
  <1>0. PTypeOK /\ HandlersOK /\ WorkersOK /\ BucketsOK /\ FlowsOK /\ PlacesOK
    BY DEF PInv
  <1>1. UNCHANGED <<got, flows, wkr, shaper, buckets, now, fails, sent>>
    BY DEF HandlerEnds, ClosePipe
  <1>2. closed' \in SUBSET Forwarders
    BY <1>0, TopologyAssumption DEF HandlerEnds, ClosePipe, PTypeOK
  <1>3. /\ hdl' \in [Sessions -> Handler]
        /\ \A t \in Sessions : /\ hdl'[t].msg = hdl[t].msg
                               /\ hdl'[t].pc = hdl[t].pc \/ hdl'[t].pc = "ended"
    <2>1. CASE \E f \in Forwarders : ClosePipe(f)
      BY <1>0, <2>1 DEF ClosePipe, PTypeOK
    <2>2. ASSUME NEW s \in Sessions, HandlerEnds(s)
          PROVE  /\ hdl' \in [Sessions -> Handler]
                 /\ \A t \in Sessions : /\ hdl'[t].msg = hdl[t].msg
                                        /\ hdl'[t].pc = hdl[t].pc \/ hdl'[t].pc = "ended"
      BY <1>0, <2>2 DEF HandlerEnds, PTypeOK, Handler
    <2> QED
      BY <2>1, <2>2
  <1>4. HandlersOK'
    BY <1>0, <1>1, <1>3 DEF HandlersOK, Answers
  <1>5. PlacesOK'
    BY <1>0, <1>1, <1>3, QuietPlaces
  <1>6. PTypeOK' /\ WorkersOK' /\ BucketsOK' /\ FlowsOK'
    BY <1>0, <1>1, <1>2, <1>3 DEF PTypeOK, WorkersOK, BucketsOK, BucketOK, FlowsOK
  <1> QED
    BY <1>4, <1>5, <1>6 DEF PInv

-----------------------------------------------------------------------------
(* Workers.                                                                *)

\* The part of WorkersOK about one worker, with n buckets made.
WorkerOK(w, v, n) ==
    /\ v.pc \in {"dequeue", "gone"} => v.item = NoMsg
    /\ v.pc \notin {"dequeue", "gone", "dead"} => v.item \in Sendable
    /\ v.pc \in {"load", "store"} => WorkerOf[w] \in Pipes
    /\ v.pc = "allow" => v.tb \in 1..n

LEMMA WorkerFields ==
    ASSUME PInv, NEW w \in Workers
    PROVE  /\ wkr[w] \in Worker /\ WorkerOK(w, wkr[w], Len(buckets))
           /\ wkr[w] = [pc |-> wkr[w].pc, item |-> wkr[w].item, tb |-> wkr[w].tb, until |-> wkr[w].until]
           /\ wkr[w].item \in Items \cup {NoMsg} /\ wkr[w].tb \in Nat \cup {NoBucket} /\ wkr[w].until \in Int
           /\ WorkerOf[w] \in Forwarders
  <1>1. wkr[w] \in Worker
    BY DEF PInv, PTypeOK
  <1>2. WorkerOK(w, wkr[w], Len(buckets))
    BY DEF PInv, WorkersOK, WorkerOK
  <1> QED
    BY <1>1, <1>2, TopologyAssumption DEF Worker

LEMMA DequeuingType ==
    /\ Dequeuing \in Worker /\ Dequeuing.item = NoMsg /\ Dequeuing.pc = "dequeue"
    /\ \A w, n : WorkerOK(w, Dequeuing, n)
  BY DEF Dequeuing, Worker, WorkerOK

\* A worker goes on with the item it has; buckets may be made or used.
LEMMA GoesOn ==
    ASSUME PInv, NEW w \in Workers, wkr' \in [Workers -> Worker],
           \A u \in Workers \ {w} : wkr'[u] = wkr[u],
           wkr'[w].item = wkr[w].item, WorkerOK(w, wkr'[w], Len(buckets')),
           UNCHANGED <<got, hdl, flows, now, closed, sent>>, fails' \in Nat,
           buckets' \in Seq(Bucket), Len(buckets) <= Len(buckets'), BucketsOK',
           shaper' \in [Pipes -> [Dests -> 1..Len(buckets') \cup {NoBucket}]]
    PROVE  PInv'
  <1>0. PTypeOK /\ HandlersOK /\ WorkersOK /\ BucketsOK /\ FlowsOK /\ PlacesOK
    BY DEF PInv
  <1>2. PlacesOK'
    BY <1>0, QuietPlaces
  <1>3. Len(buckets) \in Nat /\ Len(buckets') \in Nat
    BY <1>0 DEF PTypeOK
  <1>4. WorkersOK'
    <2> SUFFICES ASSUME NEW u \in Workers PROVE WorkerOK(u, wkr'[u], Len(buckets'))
      BY DEF WorkersOK, WorkerOK
    <2>1. CASE u = w
      BY <2>1
    <2>2. CASE u # w
      <3>1. WorkerOK(u, wkr[u], Len(buckets)) /\ wkr'[u] = wkr[u]
        BY <1>0, <2>2 DEF WorkersOK, WorkerOK
      <3>2. 1..Len(buckets) \subseteq 1..Len(buckets')
        BY <1>3
      <3> QED
        BY <3>1, <3>2 DEF WorkerOK
    <2> QED
      BY <2>1, <2>2
  <1>5. PTypeOK'
    BY <1>0 DEF PTypeOK
  <1> QED
    BY <1>0, <1>2, <1>4, <1>5 DEF PInv, HandlersOK, Answers, FlowsOK

LEMMA TakeItemInv == ASSUME PInv, NEW w \in Workers, TakeItem(w) PROVE PInv'
  <1>0. PTypeOK /\ HandlersOK /\ WorkersOK /\ BucketsOK /\ FlowsOK /\ PlacesOK
    BY DEF PInv
  <1>1. PICK f \in Forwarders : f = WorkerOf[w]
    BY WorkerFields
  <1>2. PICK c \in Classes, d \in Dests :
           /\ flows[f][c][d] # <<>>
           /\ flows' = [flows EXCEPT ![f][c][d] = Tail(@)]
           /\ wkr' = [wkr EXCEPT ![w].item = Head(flows[f][c][d]),
                                 ![w].pc = IF f \in Pipes THEN "load" ELSE "send"]
    BY <1>1 DEF TakeItem
  <1>3. PICK h : h = Head(flows[f][c][d])
    OBVIOUS
  <1>4. /\ FlowsOK' /\ h \in Sendable /\ ~Unqueued(h)
        /\ QueuedOnce(h) => Unqueued(h)'
        /\ \A x \in Items \ {h} : /\ Unqueued(x) => Unqueued(x)'
                                  /\ QueuedOnce(x) => QueuedOnce(x)'
    BY <1>0, <1>2, <1>3, TakePlaces
  <1>5. h \in Items /\ h # NoMsg
    BY <1>4, SendableType
  <1>6. /\ wkr[w] \in Worker /\ wkr[w].item = NoMsg
        /\ UNCHANGED <<got, hdl, shaper, buckets, now, fails, closed, sent>>
    BY WorkerFields DEF TakeItem, WorkerOK
  <1>7. /\ wkr' \in [Workers -> Worker]
        /\ wkr'[w].item = h /\ wkr'[w].pc = IF f \in Pipes THEN "load" ELSE "send"
        /\ \A u \in Workers \ {w} : wkr'[u] = wkr[u]
    BY <1>0, <1>2, <1>3, <1>5, <1>6 DEF PTypeOK, Worker
  <1>8. WorkersOK'
    <2> SUFFICES ASSUME NEW u \in Workers PROVE WorkerOK(u, wkr'[u], Len(buckets))
      BY <1>6 DEF WorkersOK, WorkerOK
    <2>1. CASE u = w
      BY <1>1, <1>4, <1>7, <2>1 DEF WorkerOK
    <2>2. CASE u # w
      BY <1>0, <1>7, <2>2 DEF WorkersOK, WorkerOK
    <2> QED
      BY <2>1, <2>2
  <1>9. \A x \in Items : Accepted(x)' <=> Accepted(x)
    BY <1>6 DEF Accepted
  <1>10. Somewhere(h)' /\ Accepted(h)
    <2>1. Accepted(h) /\ QueuedOnce(h) /\ Unheld(h) /\ sent[h] = 0
      BY <1>0, <1>4, <1>5 DEF PlacesOK, Somewhere, Nowhere
    <2>2. HeldOnce(h)'
      BY <1>7, <2>1 DEF Unheld, HeldOnce
    <2> QED
      BY <1>4, <1>6, <2>1, <2>2 DEF Somewhere
  <1>11. ASSUME NEW x \in Items \ {h} PROVE IF Accepted(x)' THEN Somewhere(x)' ELSE Nowhere(x)'
    <2>1. IF Accepted(x) THEN Somewhere(x) ELSE Nowhere(x)
      BY <1>0 DEF PlacesOK
    <2>2. x # NoMsg
      BY TopologyAssumption DEF Items
    <2>3. (Unheld(x) => Unheld(x)') /\ (HeldOnce(x) => HeldOnce(x)')
      <3>1. \A u \in Workers : wkr'[u].item = x <=> wkr[u].item = x
        BY <1>6, <1>7, <2>2
      <3> QED
        BY <3>1 DEF Unheld, HeldOnce
    <2> QED
      BY <1>4, <1>6, <1>9, <2>1, <2>3 DEF Somewhere, Nowhere
  <1>12. PlacesOK'
    BY <1>9, <1>10, <1>11, <1>5 DEF PlacesOK
  <1>13. flows' \in [Forwarders -> [Classes -> [Dests -> Seq(Items)]]]
    BY <1>4, SeqSendable DEF FlowsOK
  <1>14. PTypeOK' /\ HandlersOK' /\ BucketsOK'
    BY <1>0, <1>6, <1>7, <1>13 DEF PTypeOK, HandlersOK, Answers, BucketsOK, BucketOK
  <1> QED
    BY <1>4, <1>8, <1>12, <1>14 DEF PInv

\* A worker that lets go of its item was the only one to have it.
LEMMA LetsGo ==
    ASSUME PInv, NEW w \in Workers, NEW it \in Sendable, it = wkr[w].item,
           wkr' = [wkr EXCEPT ![w] = Dequeuing], UNCHANGED buckets
    PROVE  /\ it \in Items /\ Accepted(it) /\ Unqueued(it) /\ sent[it] = 0 /\ Unheld(it)'
           /\ \A x \in Items \ {it} : (Unheld(x) => Unheld(x)') /\ (HeldOnce(x) => HeldOnce(x)')
           /\ wkr' \in [Workers -> Worker] /\ WorkersOK'
  <1>0. PTypeOK /\ WorkersOK /\ PlacesOK
    BY DEF PInv
  <1>1. it \in Items /\ it # NoMsg
    BY SendableType
  <1>2. Accepted(it) /\ Unqueued(it) /\ HeldOnce(it) /\ sent[it] = 0
    <2>1. ~Unheld(it)
      BY DEF Unheld
    <2> QED
      BY <1>0, <1>1, <2>1 DEF PlacesOK, Somewhere, Nowhere
  <1>3. /\ wkr' \in [Workers -> Worker] /\ wkr'[w] = Dequeuing
        /\ \A u \in Workers \ {w} : wkr'[u] = wkr[u]
    BY <1>0, DequeuingType DEF PTypeOK
  <1>4. Unheld(it)'
    BY <1>1, <1>2, <1>3, DequeuingType DEF HeldOnce, Unheld
  <1>5. ASSUME NEW x \in Items \ {it} PROVE (Unheld(x) => Unheld(x)') /\ (HeldOnce(x) => HeldOnce(x)')
    <2>1. x # NoMsg
      BY TopologyAssumption DEF Items
    <2>2. \A u \in Workers : wkr'[u].item = x <=> wkr[u].item = x
      BY <1>3, <2>1, DequeuingType
    <2> QED
      BY <2>2 DEF Unheld, HeldOnce
  <1>6. WorkersOK'
    <2> SUFFICES ASSUME NEW u \in Workers PROVE WorkerOK(u, wkr'[u], Len(buckets))
      BY DEF WorkersOK, WorkerOK
    <2>1. CASE u = w
      BY <1>3, <2>1, DequeuingType
    <2>2. CASE u # w
      BY <1>0, <1>3, <2>2 DEF WorkersOK, WorkerOK
    <2> QED
      BY <2>1, <2>2
  <1> QED
    BY <1>1, <1>2, <1>3, <1>4, <1>5, <1>6

LEMMA SendOkInv == ASSUME PInv, NEW w \in Workers, SendOk(w) PROVE PInv'
  <1>0. PTypeOK /\ HandlersOK /\ WorkersOK /\ BucketsOK /\ FlowsOK /\ PlacesOK
    BY DEF PInv
  <1>1. PICK it \in Sendable : it = wkr[w].item
    BY <1>0 DEF SendOk, WorkersOK
  <1>2. /\ sent' = [sent EXCEPT ![it] = sent[it] + 1]
        /\ wkr' = [wkr EXCEPT ![w] = Dequeuing]
        /\ UNCHANGED <<got, hdl, flows, shaper, buckets, now, fails, closed>>
    BY <1>1 DEF SendOk
  <1>3. /\ it \in Items /\ Accepted(it) /\ Unqueued(it) /\ sent[it] = 0 /\ Unheld(it)'
        /\ \A x \in Items \ {it} : (Unheld(x) => Unheld(x)') /\ (HeldOnce(x) => HeldOnce(x)')
        /\ wkr' \in [Workers -> Worker] /\ WorkersOK'
    BY <1>1, <1>2, LetsGo
  <1>4. /\ sent' \in [Items -> Nat] /\ sent'[it] = 1
        /\ \A x \in Items \ {it} : sent'[x] = sent[x]
    BY <1>0, <1>2, <1>3 DEF PTypeOK
  <1>5. \A x \in Items : /\ Accepted(x)' <=> Accepted(x)
                         /\ Unqueued(x) => Unqueued(x)'
                         /\ QueuedOnce(x) => QueuedOnce(x)'
    BY <1>2 DEF Accepted, Unqueued, QueuedOnce, IsAt
  <1>6. Somewhere(it)'
    BY <1>3, <1>4, <1>5 DEF Somewhere
  <1>7. ASSUME NEW x \in Items \ {it} PROVE IF Accepted(x)' THEN Somewhere(x)' ELSE Nowhere(x)'
    <2>1. IF Accepted(x) THEN Somewhere(x) ELSE Nowhere(x)
      BY <1>0 DEF PlacesOK
    <2> QED
      BY <1>3, <1>4, <1>5, <2>1 DEF Somewhere, Nowhere
  <1>8. PlacesOK'
    BY <1>3, <1>5, <1>6, <1>7 DEF PlacesOK
  <1>9. PTypeOK' /\ HandlersOK' /\ BucketsOK' /\ FlowsOK'
    BY <1>0, <1>2, <1>3, <1>4 DEF PTypeOK, HandlersOK, Answers, BucketsOK, BucketOK, FlowsOK
  <1> QED
    BY <1>3, <1>8, <1>9 DEF PInv

LEMMA RetryInv == ASSUME PInv, NEW w \in Workers, Retry(w) PROVE PInv'
  <1>0. PTypeOK /\ HandlersOK /\ WorkersOK /\ BucketsOK /\ FlowsOK /\ PlacesOK
    BY DEF PInv
  <1>1. PICK it \in Sendable : it = wkr[w].item
    BY <1>0 DEF Retry, WorkersOK
  <1>2. /\ Enqueue(it)
        /\ wkr' = [wkr EXCEPT ![w] = Dequeuing]
        /\ UNCHANGED <<got, hdl, shaper, buckets, now, fails, closed, sent>>
    BY <1>1 DEF Retry
  <1>3. /\ it \in Items /\ Accepted(it) /\ Unqueued(it) /\ sent[it] = 0 /\ Unheld(it)'
        /\ \A x \in Items \ {it} : (Unheld(x) => Unheld(x)') /\ (HeldOnce(x) => HeldOnce(x)')
        /\ wkr' \in [Workers -> Worker] /\ WorkersOK'
    BY <1>1, <1>2, LetsGo
  <1>4. /\ FlowsOK' /\ QueuedOnce(it)'
        /\ \A x \in Items \ {it} : /\ Unqueued(x) => Unqueued(x)'
                                   /\ QueuedOnce(x) => QueuedOnce(x)'
    BY <1>0, <1>2, <1>3, EnqueuePlaces
  <1>5. \A x \in Items : Accepted(x)' <=> Accepted(x)
    BY <1>2 DEF Accepted
  <1>6. Somewhere(it)'
    BY <1>2, <1>3, <1>4 DEF Somewhere
  <1>7. ASSUME NEW x \in Items \ {it} PROVE IF Accepted(x)' THEN Somewhere(x)' ELSE Nowhere(x)'
    <2>1. IF Accepted(x) THEN Somewhere(x) ELSE Nowhere(x)
      BY <1>0 DEF PlacesOK
    <2> QED
      BY <1>2, <1>3, <1>4, <1>5, <2>1 DEF Somewhere, Nowhere
  <1>8. PlacesOK'
    BY <1>3, <1>5, <1>6, <1>7 DEF PlacesOK
  <1>9. flows' \in [Forwarders -> [Classes -> [Dests -> Seq(Items)]]]
    BY <1>4, SeqSendable DEF FlowsOK
  <1>10. PTypeOK' /\ HandlersOK' /\ BucketsOK'
    BY <1>0, <1>2, <1>3, <1>9 DEF PTypeOK, HandlersOK, Answers, BucketsOK, BucketOK
  <1> QED
    BY <1>3, <1>4, <1>8, <1>10 DEF PInv

\* Steps of a worker that change no bucket.
LEMMA StepInv ==
    ASSUME PInv, NEW w \in Workers, Leave(w) \/ LoadShaper(w) \/ WakeUp(w) \/ SendFails(w)
    PROVE  PInv'
  <1>0. PTypeOK /\ BucketsOK
    BY DEF PInv
  <1>1. /\ wkr[w] \in Worker /\ WorkerOK(w, wkr[w], Len(buckets))
        /\ wkr[w] = [pc |-> wkr[w].pc, item |-> wkr[w].item, tb |-> wkr[w].tb, until |-> wkr[w].until]
        /\ wkr[w].item \in Items \cup {NoMsg} /\ wkr[w].tb \in Nat \cup {NoBucket} /\ wkr[w].until \in Int
    BY WorkerFields
  <1>2. UNCHANGED <<got, hdl, flows, shaper, buckets, now, closed, sent>> /\ fails' \in Nat
    BY <1>0 DEF Leave, LoadShaper, WakeUp, SendFails, PTypeOK
  <1>3. Len(buckets) \in Nat
    BY <1>0 DEF PTypeOK
  <1>4. /\ BucketsOK' /\ buckets' \in Seq(Bucket) /\ Len(buckets) <= Len(buckets')
        /\ shaper' \in [Pipes -> [Dests -> 1..Len(buckets') \cup {NoBucket}]]
    BY <1>0, <1>2, <1>3 DEF PTypeOK, BucketsOK, BucketOK
  <1>5. /\ wkr' \in [Workers -> Worker]
        /\ \A u \in Workers \ {w} : wkr'[u] = wkr[u]
        /\ wkr'[w].item = wkr[w].item
        /\ WorkerOK(w, wkr'[w], Len(buckets))
    <2>0. wkr \in [Workers -> Worker]
      BY <1>0 DEF PTypeOK
    <2>1. CASE Leave(w)
      BY <1>1, <2>0, <2>1 DEF Leave, Worker, WorkerOK
    <2>2. CASE LoadShaper(w)
      <3>1. WorkerOf[w] \in Pipes /\ ItemDest(w) \in Dests /\ wkr[w].item \in Sendable
        BY <1>1, <2>2, SendableType DEF LoadShaper, WorkerOK, ItemDest
      <3>2. PICK b \in 1..Len(buckets) \cup {NoBucket} : b = shaper[WorkerOf[w]][ItemDest(w)]
        BY <1>0, <3>1 DEF PTypeOK
      <3>3. wkr' = [wkr EXCEPT ![w].pc = IF b = NoBucket THEN "store" ELSE "allow", ![w].tb = b]
        BY <2>2, <3>2 DEF LoadShaper
      <3>4. b \in Nat \cup {NoBucket}
        BY <1>3
      <3> QED
        BY <1>1, <2>0, <3>1, <3>3, <3>4 DEF Worker, WorkerOK
    <2>3. CASE WakeUp(w)
      BY <1>1, <2>0, <2>3 DEF WakeUp, Worker, WorkerOK
    <2>4. CASE SendFails(w)
      BY <1>1, <2>0, <2>4 DEF SendFails, Worker, WorkerOK
    <2> QED
      BY <2>1, <2>2, <2>3, <2>4
  <1>6. Len(buckets') = Len(buckets)
    BY <1>2
  <1> QED
    BY <1>2, <1>4, <1>5, <1>6, GoesOn

LEMMA StoreShaperInv == ASSUME PInv, NEW w \in Workers, StoreShaper(w) PROVE PInv'
  <1>0. PTypeOK /\ BucketsOK
    BY DEF PInv
  <1>1. /\ wkr[w] \in Worker /\ WorkerOK(w, wkr[w], Len(buckets))
        /\ wkr[w].item \in Items \cup {NoMsg} /\ wkr[w].until \in Int
    BY WorkerFields
  <1>2. /\ wkr[w].pc = "store"
        /\ buckets' = Append(buckets, NewTokenBucket)
        /\ shaper' = [shaper EXCEPT ![WorkerOf[w]][ItemDest(w)] = Len(buckets')]
        /\ wkr' = [wkr EXCEPT ![w].pc = "allow", ![w].tb = Len(buckets')]
        /\ UNCHANGED <<got, hdl, flows, now, fails, closed, sent>>
    BY DEF StoreShaper
  <1>3. buckets \in Seq(Bucket) /\ now \in Nat /\ fails \in Nat
    BY <1>0 DEF PTypeOK
  <1>4. BucketOK(NewTokenBucket) /\ NewTokenBucket \in Bucket
    BY <1>3, NewBucketOK DEF BucketOK
  <1>5. /\ buckets' \in Seq(Bucket) /\ Len(buckets) \in Nat /\ Len(buckets') = Len(buckets) + 1
        /\ \A i \in 1..Len(buckets) : buckets'[i] = buckets[i]
        /\ buckets'[Len(buckets) + 1] = NewTokenBucket
    BY <1>2, <1>3, <1>4, AppendProperties
  <1>6. BucketsOK'
    <2> SUFFICES ASSUME NEW i \in 1..Len(buckets') PROVE BucketOK(buckets'[i])
      BY <1>2 DEF BucketsOK, BucketOK
    <2>1. i \in 1..Len(buckets) \/ i = Len(buckets) + 1
      BY <1>5
    <2> QED
      BY <1>0, <1>4, <1>5, <2>1 DEF BucketsOK
  <1>7. WorkerOf[w] \in Pipes /\ ItemDest(w) \in Dests /\ wkr[w].item \in Sendable
    BY <1>1, <1>2, SendableType DEF WorkerOK, ItemDest
  <1>8. shaper' \in [Pipes -> [Dests -> 1..Len(buckets') \cup {NoBucket}]]
    <2>1. Len(buckets') \in 1..Len(buckets') /\ 1..Len(buckets) \subseteq 1..Len(buckets')
      BY <1>5
    <2> QED
      BY <1>0, <1>2, <1>7, <2>1 DEF PTypeOK
  <1>9. /\ wkr' \in [Workers -> Worker]
        /\ \A u \in Workers \ {w} : wkr'[u] = wkr[u]
        /\ wkr'[w].item = wkr[w].item
        /\ WorkerOK(w, wkr'[w], Len(buckets'))
    <2>1. wkr \in [Workers -> Worker]
      BY <1>0 DEF PTypeOK
    <2>2. PICK n \in Nat : n = Len(buckets') /\ n \in 1..n
      BY <1>5
    <2>3. wkr' = [wkr EXCEPT ![w].pc = "allow", ![w].tb = n]
      BY <1>2, <2>2
    <2>4. /\ wkr' \in [Workers -> Worker]
          /\ \A u \in Workers \ {w} : wkr'[u] = wkr[u]
          /\ wkr'[w].item = wkr[w].item /\ wkr'[w].pc = "allow" /\ wkr'[w].tb = n
      BY <1>1, <2>1, <2>3 DEF Worker
    <2>5. WorkerOK(w, wkr'[w], n)
      BY <1>7, <2>2, <2>4 DEF WorkerOK
    <2> QED
      BY <2>2, <2>4, <2>5
  <1>10. Len(buckets) <= Len(buckets')
    BY <1>5
  <1> QED
    BY <1>2, <1>3, <1>5, <1>6, <1>8, <1>9, <1>10, GoesOn

LEMMA AllowInv == ASSUME PInv, NEW w \in Workers, Allow(w) PROVE PInv'
  <1> DEFINE k == wkr[w].tb
             b == Refill(buckets[k])
             n == Envelope(wkr[w].item).size
             spend == [b EXCEPT !.tokens = @ - n, !.spent = @ + n]
  <1>0. PTypeOK /\ BucketsOK
    BY DEF PInv
  <1>1. /\ wkr[w] \in Worker /\ WorkerOK(w, wkr[w], Len(buckets)) /\ wkr[w].pc = "allow"
        /\ wkr[w].item \in Items \cup {NoMsg} /\ wkr[w].tb \in Nat \cup {NoBucket}
        /\ UNCHANGED <<got, hdl, flows, shaper, now, fails, closed, sent>>
    BY WorkerFields DEF Allow
  <1>2. k \in 1..Len(buckets) /\ wkr[w].item \in Sendable /\ n \in Nat
    BY <1>1, SendableType DEF WorkerOK
  <1>3. buckets \in Seq(Bucket) /\ now \in Nat /\ fails \in Nat /\ wkr \in [Workers -> Worker]
    BY <1>0 DEF PTypeOK
  <1>4. BucketOK(buckets[k])
    BY <1>0, <1>2 DEF BucketsOK
  <1>5. BucketOK(b)
    BY <1>3, <1>4, RefillOK
  <1>6. b.tokens \in Int
    BY <1>5, BucketFields DEF BucketOK
  <1>7. \/ /\ b.tokens >= n
           /\ buckets' = [buckets EXCEPT ![k] = spend]
           /\ wkr' = [wkr EXCEPT ![w].pc = "send"]
        \/ /\ ~(b.tokens >= n)
           /\ buckets' = [buckets EXCEPT ![k] = b]
           /\ wkr' = [wkr EXCEPT ![w].pc = "sleep", ![w].until = now + ((n - b.tokens) * Second) \div Rate]
    BY DEF Allow
  <1>8. b.tokens >= n => BucketOK(spend)
    <2> HIDE DEF b, n
    <2> QED
      BY <1>2, <1>5, SpendOK
  <1>9. (n - b.tokens) * Second \in Int /\ now + ((n - b.tokens) * Second) \div Rate \in Int
    <2> HIDE DEF b, n
    <2>1. n - b.tokens \in Int
      BY <1>2, <1>6
    <2>2. (n - b.tokens) * Second \in Int
      BY <2>1, ConstantsType
    <2>3. ((n - b.tokens) * Second) \div Rate \in Int
      BY <2>2, ConstantsType, DivBound
    <2> QED
      BY <1>3, <2>2, <2>3
  <1>10. \E r \in Bucket : BucketOK(r) /\ buckets' = [buckets EXCEPT ![k] = r]
    <2> HIDE DEF b, spend, k, n
    <2>1. b \in Bucket /\ (b.tokens >= n => spend \in Bucket)
      BY <1>5, <1>8 DEF BucketOK
    <2> QED
      BY <1>5, <1>7, <1>8, <2>1
  <1>11. /\ buckets' \in Seq(Bucket) /\ Len(buckets') = Len(buckets) /\ BucketsOK'
    <2>1. PICK r \in Bucket : BucketOK(r) /\ buckets' = [buckets EXCEPT ![k] = r]
      BY <1>10
    <2> HIDE DEF k
    <2>2. /\ buckets' \in Seq(Bucket) /\ Len(buckets') = Len(buckets)
          /\ \A i \in 1..Len(buckets) : buckets'[i] = IF i = k THEN r ELSE buckets[i]
      BY <1>2, <1>3, <2>1, ExceptSeq
    <2>3. \A i \in 1..Len(buckets) : BucketOK(buckets'[i])
      BY <1>0, <2>1, <2>2 DEF BucketsOK
    <2> QED
      BY <1>1, <2>2, <2>3 DEF BucketsOK, BucketOK
  <1>12. Len(buckets) \in Nat
    BY <1>3
  <1>13. /\ wkr' \in [Workers -> Worker]
         /\ \A u \in Workers \ {w} : wkr'[u] = wkr[u]
         /\ wkr'[w].item = wkr[w].item
         /\ WorkerOK(w, wkr'[w], Len(buckets'))
    <2>1. PICK u \in Int : u = now + ((n - b.tokens) * Second) \div Rate
      BY <1>9
    <2>2. \/ wkr' = [wkr EXCEPT ![w].pc = "send"]
          \/ wkr' = [wkr EXCEPT ![w].pc = "sleep", ![w].until = u]
      BY <1>7, <2>1
    <2> HIDE DEF b, n, k, spend
    <2>3. /\ wkr' \in [Workers -> Worker]
          /\ \A v \in Workers \ {w} : wkr'[v] = wkr[v]
          /\ wkr'[w].item = wkr[w].item /\ wkr'[w].pc \in {"send", "sleep"}
      <3>1. CASE wkr' = [wkr EXCEPT ![w].pc = "send"]
        BY <1>1, <1>3, <3>1 DEF Worker
      <3>2. CASE wkr' = [wkr EXCEPT ![w].pc = "sleep", ![w].until = u]
        BY <1>1, <1>3, <3>2 DEF Worker
      <3> QED
        BY <2>2, <3>1, <3>2
    <2> QED
      BY <1>2, <2>3 DEF WorkerOK
  <1>14. shaper' \in [Pipes -> [Dests -> 1..Len(buckets') \cup {NoBucket}]]
    BY <1>0, <1>1, <1>11 DEF PTypeOK
  <1>15. Len(buckets) <= Len(buckets')
    BY <1>11, <1>12
  <1> HIDE DEF k, b, n, spend
  <1> QED
    BY <1>1, <1>3, <1>11, <1>13, <1>14, <1>15, GoesOn

\* The end of the process leaves everything where it is.
LEMMA MapFaultInv == ASSUME PInv, MapFault PROVE PInv'
  <1>0. PTypeOK /\ HandlersOK /\ WorkersOK /\ BucketsOK /\ FlowsOK /\ PlacesOK
    BY DEF PInv
  <1>1. /\ wkr' = [w \in Workers |-> [Dequeuing EXCEPT !.pc = "dead", !.item = wkr[w].item]]
        /\ hdl' = [s \in Sessions |-> [hdl[s] EXCEPT !.pc = "ended"]]
        /\ closed' = Forwarders
        /\ UNCHANGED <<got, flows, shaper, buckets, now, fails, sent>>
    BY DEF MapFault
  <1>2. ASSUME NEW w \in Workers
        PROVE  wkr'[w] \in Worker /\ wkr'[w].item = wkr[w].item /\ wkr'[w].pc = "dead"
    <2>1. PICK it \in Items \cup {NoMsg} : it = wkr[w].item
      BY WorkerFields
    <2>2. wkr'[w] = [Dequeuing EXCEPT !.pc = "dead", !.item = it]
      BY <1>1, <2>1
    <2>3. wkr'[w] = [pc |-> "dead", item |-> it, tb |-> NoBucket, until |-> 0]
      BY <2>2 DEF Dequeuing
    <2> QED
      BY <2>1, <2>3 DEF Worker
  <1>3. wkr' \in [Workers -> Worker]
    BY <1>1, <1>2
  <1>4. ASSUME NEW s \in Sessions
        PROVE  hdl'[s] \in Handler /\ hdl'[s].msg = hdl[s].msg /\ hdl'[s].pc = "ended"
    BY <1>0, <1>1 DEF PTypeOK, Handler
  <1>5. hdl' \in [Sessions -> Handler]
    BY <1>1, <1>4
  <1>6. HandlersOK'
    <2> SUFFICES ASSUME NEW t \in Sessions
                 PROVE  /\ hdl'[t].pc = "recv" => hdl'[t].msg = NoMsg
                        /\ hdl'[t].pc = "ack" => hdl'[t].msg \in Msgs
                        /\ hdl'[t].msg \in Msgs => /\ hdl'[t].msg \in got'
                                                   /\ Answers(hdl'[t].msg)
                                                   /\ From[hdl'[t].msg] = t
      BY DEF HandlersOK, Answers
    <2>1. hdl'[t].msg = hdl[t].msg /\ hdl'[t].pc = "ended"
      BY <1>4
    <2>2. PICK m : m = hdl[t].msg
      OBVIOUS
    <2>3. m \in Msgs => m \in got' /\ Answers(m) /\ From[m] = t
      BY <1>0, <1>1, <2>2 DEF HandlersOK
    <2>4. hdl'[t].msg = m
      BY <2>1, <2>2
    <2> QED
      BY <2>1, <2>3, <2>4
  <1>7. WorkersOK'
    BY <1>2 DEF WorkersOK
  <1>8. PlacesOK'
    BY <1>0, <1>1, <1>2, <1>4, QuietPlaces
  <1>9. PTypeOK' /\ BucketsOK' /\ FlowsOK'
    BY <1>0, <1>1, <1>3, <1>5 DEF PTypeOK, BucketsOK, BucketOK, FlowsOK
  <1> QED
    BY <1>6, <1>7, <1>8, <1>9 DEF PInv

LEMMA TickInv == ASSUME PInv, Tick PROVE PInv'
  <1>0. PTypeOK /\ HandlersOK /\ WorkersOK /\ BucketsOK /\ FlowsOK /\ PlacesOK
    BY DEF PInv
  <1>1. now \in Nat /\ now' = now + 1 /\ UNCHANGED <<got, hdl, flows, wkr, shaper, buckets, fails, closed, sent>>
    BY <1>0 DEF Tick, PTypeOK
  <1>2. BucketsOK'
    <2> SUFFICES ASSUME NEW i \in 1..Len(buckets) PROVE BucketOK(buckets[i])'
      BY <1>1 DEF BucketsOK
    <2> DEFINE b == buckets[i]
    <2>1. BucketOK(b)
      BY <1>0 DEF BucketsOK
    <2>2. b.last \in Nat /\ b.last <= now
      BY <2>1, BucketFields DEF BucketOK
    <2>3. b.last <= now + 1
      BY <1>1, <2>2
    <2> QED
      BY <1>1, <2>1, <2>3 DEF BucketOK
  <1>3. PlacesOK'
    BY <1>0, <1>1, QuietPlaces
  <1>4. PTypeOK' /\ HandlersOK' /\ WorkersOK' /\ FlowsOK'
    BY <1>0, <1>1 DEF PTypeOK, HandlersOK, Answers, WorkersOK, FlowsOK
  <1> QED
    BY <1>2, <1>3, <1>4 DEF PInv

LEMMA PInitInv == PInit => PInv
  <1> SUFFICES ASSUME PInit PROVE PInv
    OBVIOUS
  <1> USE DEF PInit
  <1>1. hdl \in [Sessions -> Handler] /\ wkr \in [Workers -> Worker] /\ sent \in [Items -> Nat]
    BY DequeuingType DEF Handler
  <1>2. <<>> \in Seq(Sendable) /\ <<>> \in Seq(Items) /\ <<>> \in Seq(Bucket) /\ Len(<<>>) = 0
    OBVIOUS
  <1>3. FlowsOK /\ flows \in [Forwarders -> [Classes -> [Dests -> Seq(Items)]]]
    BY <1>2 DEF FlowsOK
  <1>4. shaper \in [Pipes -> [Dests -> 1..Len(buckets) \cup {NoBucket}]]
    OBVIOUS
  <1>5. PTypeOK
    BY <1>1, <1>2, <1>3, <1>4 DEF PTypeOK
  <1>6. HandlersOK /\ WorkersOK
    BY MsgType, DequeuingType DEF HandlersOK, WorkersOK
  <1>7. BucketsOK
    BY <1>2 DEF BucketsOK
  <1>8. PlacesOK
    <2> SUFFICES ASSUME NEW it \in Items PROVE ~Accepted(it) /\ Nowhere(it)
      BY DEF PlacesOK
    <2>1. it # NoMsg
      BY TopologyAssumption DEF Items
    <2>2. Unqueued(it)
      <3> SUFFICES ASSUME NEW f \in Forwarders, NEW c \in Classes, NEW d \in Dests, NEW i \in Nat
                   PROVE  ~IsAt(it, f, c, d, i)
        BY DEF Unqueued
      <3>1. flows[f][c][d] = <<>>
        OBVIOUS
      <3> QED
        BY <1>2, <3>1 DEF IsAt
    <2>3. Unheld(it) /\ sent[it] = 0 /\ ~Accepted(it)
      BY <2>1, DequeuingType DEF Unheld, Accepted
    <2> QED
      BY <2>2, <2>3 DEF Nowhere
  <1> QED
    BY <1>3, <1>5, <1>6, <1>7, <1>8 DEF PInv

LEMMA InductiveInv == PSpec => []PInv
  <1>1. PInv /\ [PNext]_pvars => PInv'
    <2> SUFFICES ASSUME PInv, [PNext]_pvars PROVE PInv'
      OBVIOUS
    <2>1. CASE PNext
      BY <2>1, ReceiveInv, SendAckInv, EndInv, TakeItemInv, StepInv, StoreShaperInv, AllowInv,
         SendOkInv, RetryInv, MapFaultInv, TickInv DEF PNext
    <2>2. CASE UNCHANGED pvars
      <3>1. PlacesOK'
        BY <2>2, QuietPlaces DEF pvars, PInv
      <3> QED
        BY <2>2, <3>1 DEF pvars, PInv, PTypeOK, HandlersOK, Answers, WorkersOK, BucketsOK, BucketOK, FlowsOK
    <2> QED
      BY <2>1, <2>2
  <1> QED
    BY <1>1, PInitInv, PTL DEF PSpec

-----------------------------------------------------------------------------
(* Results.                                                                *)

\* Handlers, forwarders, workers, shapers and buckets keep their types.
THEOREM PipelineType == PSpec => []PTypeOK
  <1>1. PInv => PTypeOK
    BY DEF PInv
  <1> QED
    BY <1>1, InductiveInv, PTL

\* TokenBucket.Allow never gives out more than the capacity and what the rate has
\* brought in since the bucket was made, for any rate, clock and width of int64.
THEOREM BucketsConformAlways == PSpec => []Conforms
  <1>1. PInv => Conforms
    BY BucketsConform DEF PInv, PTypeOK
  <1> QED
    BY <1>1, InductiveInv, PTL

\* Between the handlers that enqueue, the workers that dequeue, shape, send and
\* enqueue again, and what was sent, no item is lost and none is there twice.
THEOREM NothingLost == PSpec => []Conserved
  <1>1. ASSUME PInv PROVE Conserved
    <2> SUFFICES ASSUME NEW it \in Items
                 PROVE  Cardinality(Queued(it)) + Cardinality(Held(it)) + sent[it]
                          = IF Accepted(it) THEN 1 ELSE 0
      BY DEF Conserved
    <2>0. \A x : x \in Queued(it) <=> \E f \in Forwarders, c \in Classes, d \in Dests, i \in Nat :
                                         IsAt(it, f, c, d, i) /\ x = <<f, c, d, i>>
      <3>1. ASSUME NEW f \in Forwarders, NEW c \in Classes, NEW d \in Dests
            PROVE  DOMAIN flows[f][c][d] = 1..Len(flows[f][c][d]) /\ Len(flows[f][c][d]) \in Nat
        BY <1>1 DEF PInv, FlowsOK
      <3> DEFINE Here(f, c, d) ==
                   {<<f, c, d, i>> : i \in {j \in DOMAIN flows[f][c][d] : flows[f][c][d][j] = it}}
      <3>2. ASSUME NEW f \in Forwarders, NEW c \in Classes, NEW d \in Dests, NEW x
            PROVE  x \in Here(f, c, d) <=> \E i \in Nat : IsAt(it, f, c, d, i) /\ x = <<f, c, d, i>>
        BY <3>1 DEF IsAt
      <3>3. Queued(it) = UNION {Here(f, c, d) : f \in Forwarders, c \in Classes, d \in Dests}
        BY DEF Queued
      <3> HIDE DEF Here
      <3>4. ASSUME NEW x
            PROVE  x \in Queued(it) <=>
                     \E f \in Forwarders, c \in Classes, d \in Dests : x \in Here(f, c, d)
        BY <3>3
      <3> QED
        BY <3>2, <3>4
    <2>1. Unqueued(it) => Queued(it) = {}
      BY <2>0 DEF Unqueued
    <2>2. QueuedOnce(it) => \E x : Queued(it) = {x}
      <3> SUFFICES ASSUME QueuedOnce(it) PROVE \E x : Queued(it) = {x}
        OBVIOUS
      <3>1. PICK f \in Forwarders, c \in Classes, d \in Dests, i \in Nat :
               /\ IsAt(it, f, c, d, i)
               /\ \A g \in Forwarders, a \in Classes, e \in Dests, j \in Nat :
                     IsAt(it, g, a, e, j) => g = f /\ a = c /\ e = d /\ j = i
        BY DEF QueuedOnce
      <3>2. \A x : x \in Queued(it) <=> x = <<f, c, d, i>>
        BY <2>0, <3>1
      <3>3. Queued(it) = {<<f, c, d, i>>}
        BY <3>2
      <3> QED
        BY <3>3
    <2>3. Unheld(it) => Held(it) = {}
      BY DEF Unheld, Held
    <2>4. HeldOnce(it) => \E x : Held(it) = {x}
      BY DEF HeldOnce, Held
    <2>5. Cardinality({}) = 0 /\ \A x : Cardinality({x}) = 1
      BY FS_EmptySet, FS_Singleton
    <2>6. IF Accepted(it) THEN Somewhere(it) ELSE Nowhere(it)
      BY <1>1 DEF PInv, PlacesOK
    <2> DEFINE q == Cardinality(Queued(it))
               h == Cardinality(Held(it))
    <2>7. /\ Unqueued(it) => q = 0
          /\ QueuedOnce(it) => q = 1
          /\ Unheld(it) => h = 0
          /\ HeldOnce(it) => h = 1
      BY <2>1, <2>2, <2>3, <2>4, <2>5
    <2> HIDE DEF q, h
    <2>8. q + h + sent[it] = IF Accepted(it) THEN 1 ELSE 0
      <3>1. CASE Accepted(it)
        BY <2>6, <2>7, <3>1 DEF Somewhere
      <3>2. CASE ~Accepted(it)
        BY <2>6, <2>7, <3>2 DEF Nowhere
      <3> QED
        BY <3>1, <3>2
    <2> QED
      BY <2>8 DEF q, h
  <1> QED
    BY <1>1, InductiveInv, PTL
==============================================================================
