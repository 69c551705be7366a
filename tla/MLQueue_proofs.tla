--------------------------- MODULE MLQueue_proofs ---------------------------
(***************************************************************************)
(* Proofs about MLQueue for any number of producers, workers, flows and    *)
(* items of any size.                                                      *)
(***************************************************************************)
EXTENDS MLQueue, SequenceTheorems, TLAPS

LEMMA QuantumType == \A c \in Classes : Quantum(c) \in Nat \ {0}
  BY DEF Quantum, Classes

\* One flow of one class is written, the others keep their value.
LEMMA FlowUpdate ==
    ASSUME NEW S, NEW f \in [Classes -> [Dests -> S]],
           NEW c \in Classes, NEW d \in Dests, NEW x \in S,
           NEW g, g = [f EXCEPT ![c][d] = x]
    PROVE  /\ g \in [Classes -> [Dests -> S]]
           /\ g[c][d] = x
           /\ \A e \in Classes, h \in Dests : e # c \/ h # d => g[e][h] = f[e][h]
  OBVIOUS

LEMMA ModType == \A a \in Nat, n \in Nat \ {0} : a % n \in 0..(n - 1)
  OBVIOUS

\* Popping the head of t and appending it to s moves the boundary between the
\* two; appending to t extends the whole.
LEMMA PopConcat ==
    ASSUME NEW S, NEW s \in Seq(S), NEW t \in Seq(S), t # <<>>
    PROVE  Append(s, Head(t)) \o Tail(t) = s \o t
  <1>1. Head(t) \in S /\ Tail(t) \in Seq(S) /\ <<Head(t)>> \in Seq(S)
    BY HeadTailProperties
  <1>2. t = <<Head(t)>> \o Tail(t)
    OBVIOUS
  <1>3. Append(s, Head(t)) = s \o <<Head(t)>>
    BY <1>1, AppendIsConcat
  <1>4. (s \o <<Head(t)>>) \o Tail(t) = s \o (<<Head(t)>> \o Tail(t))
    BY <1>1, ConcatAssociative
  <1> QED
    BY <1>2, <1>3, <1>4

LEMMA AppendConcat ==
    ASSUME NEW S, NEW s \in Seq(S), NEW t \in Seq(S), NEW x \in S
    PROVE  s \o Append(t, x) = Append(s \o t, x)
  <1>1. <<x>> \in Seq(S)
    OBVIOUS
  <1>2. Append(t, x) = t \o <<x>> /\ Append(s \o t, x) = (s \o t) \o <<x>>
    BY AppendIsConcat, ConcatProperties
  <1> QED
    BY <1>1, <1>2, ConcatAssociative

-----------------------------------------------------------------------------
(* The three facts are proved together: the types of the deficits rest on  *)
(* their bound.                                                            *)

QInv == QTypeOK /\ DeficitBounded /\ FlowFIFO

\* What the workers' and producers' own variables have to be.
ThreadsOK ==
    /\ mu \in Workers \cup {NoOne}
    /\ prod \in [Producers -> {"idle", "signal"}]
    /\ wkr \in [Workers -> Worker]
    /\ stale \in Nat
    /\ stopped \in BOOLEAN

LEMMA WokenType ==
    ASSUME NEW ws \in [Workers -> Worker]
    PROVE  Woken(ws) \in [Workers -> Worker]
  <1>1. ASSUME NEW w \in Workers
        PROVE  (IF ws[w].pc = "wait" THEN [ws[w] EXCEPT !.pc = "woken"] ELSE ws[w]) \in Worker
    BY DEF Worker
  <1> QED
    BY <1>1 DEF Woken

LEMMA DequeuingType == Dequeuing \in Worker
  BY DEF Dequeuing, Worker, Classes

\* The flow tryPop serves exists and can pay for its head.
LEMMA ServedFlow ==
    ASSUME QTypeOK, NEW c \in Classes, NEW i \in First(c)
    PROVE  /\ Turn(c, i) \in Dests
           /\ queue[c][Turn(c, i)] # <<>>
           /\ SizeOf[Head(queue[c][Turn(c, i)])] <= Refilled(c, Turn(c, i))
           /\ Len(order[c]) \in Nat \ {0}
           /\ i \in Nat
  <1>1. i \in Turns(c) /\ Affordable(c, Turn(c, i))
    BY DEF First, Servable
  <1>2. order[c] \in Seq(Dests) /\ Len(order[c]) \in Nat /\ idx[c] \in Nat
    BY DEF QTypeOK
  <1>3. i \in Nat /\ Len(order[c]) # 0
    BY <1>1, <1>2 DEF Turns
  <1>4. (idx[c] + i) % Len(order[c]) \in 0..(Len(order[c]) - 1)
    <2>1. idx[c] + i \in Nat /\ Len(order[c]) \in Nat \ {0}
      BY <1>2, <1>3
    <2> QED
      BY <2>1, ModType, Zenon
  <1>5. ((idx[c] + i) % Len(order[c])) + 1 \in 1..Len(order[c])
    BY <1>2, <1>4
  <1>6. Turn(c, i) \in Dests
    BY <1>2, <1>5, ElementOfSeq DEF Turn
  <1> QED
    BY <1>1, <1>2, <1>3, <1>6 DEF Affordable

\* A refill never exceeds a quantum: it is given to an empty deficit only.
LEMMA RefilledBound ==
    ASSUME DeficitBounded, NEW c \in Classes, NEW d \in Dests
    PROVE  Refilled(c, d) \in 0..Quantum(c)
  BY QuantumType DEF DeficitBounded, Refilled

LEMMA RefilledUpToBound ==
    ASSUME DeficitBounded, NEW c \in Classes, NEW n
    PROVE  RefilledUpTo(c, n) \in [Dests -> 0..Quantum(c)]
  BY RefilledBound DEF RefilledUpTo, DeficitBounded

\* Bounded deficits, one class at a time.
LEMMA DeficitSet ==
    ASSUME QTypeOK, DeficitBounded, NEW c \in Classes, NEW f \in [Dests -> 0..Quantum(c)],
           deficit' = [deficit EXCEPT ![c] = f]
    PROVE  deficit' \in [Classes -> [Dests -> Nat]] /\ DeficitBounded'
  <1>1. f \in [Dests -> Nat]
    BY QuantumType
  <1> QED
    BY <1>1 DEF QTypeOK, DeficitBounded

LEMMA QInitInv == QInit => QInv
  <1> SUFFICES ASSUME QInit PROVE QInv
    OBVIOUS
  <1>1. <<>> \in Seq(Items) /\ <<>> \in Seq(Dests) /\ <<>> \o <<>> = <<>>
    OBVIOUS
  <1>2. PerFlow(<<>>) \in [Classes -> [Dests -> Seq(Items)]]
        /\ PerFlow(0) \in [Classes -> [Dests -> Nat]]
    BY <1>1 DEF PerFlow
  <1>3. stopped \in BOOLEAN
    BY Zenon DEF QInit
  <1>4. wkr \in [Workers -> Worker]
    BY DequeuingType DEF QInit
  <1>5. order \in [Classes -> Seq(Dests)] /\ idx \in [Classes -> Nat]
    BY <1>1 DEF QInit
  <1>6. prod \in [Producers -> {"idle", "signal"}] /\ mu \in Workers \cup {NoOne} /\ stale \in Nat
    BY DEF QInit
  <1>7. QTypeOK
    BY <1>2, <1>3, <1>4, <1>5, <1>6 DEF QInit, QTypeOK
  <1>8. DeficitBounded
    BY QuantumType DEF QInit, DeficitBounded, PerFlow
  <1>9. FlowFIFO
    BY <1>1 DEF QInit, FlowFIFO, PerFlow
  <1> QED
    BY <1>7, <1>8, <1>9 DEF QInv

\* The append extends queue and history alike.
LEMMA AppendInv ==
    ASSUME QInv, NEW it \in Items, AppendItem(it)
    PROVE  /\ queue' \in [Classes -> [Dests -> Seq(Items)]]
           /\ sent' \in [Classes -> [Dests -> Seq(Items)]]
           /\ order' \in [Classes -> Seq(Dests)]
           /\ DeficitBounded'
           /\ FlowFIFO'
  <1>0. QTypeOK /\ FlowFIFO
    BY DEF QInv
  <1>1. PICK c \in Classes, d \in Dests : c = ClassOf[it] /\ d = DestOf[it]
    BY ItemsAssumption
  <1>2. /\ queue' = [queue EXCEPT ![c][d] = Append(queue[c][d], it)]
        /\ sent' = [sent EXCEPT ![c][d] = Append(sent[c][d], it)]
        /\ order' = order \/ order' = [order EXCEPT ![c] = Append(order[c], d)]
        /\ UNCHANGED <<deficit, out>>
    BY <1>1 DEF AppendItem
  <1>3. queue[c][d] \in Seq(Items) /\ sent[c][d] \in Seq(Items) /\ out[c][d] \in Seq(Items)
    BY <1>0 DEF QTypeOK
  <1>4. Append(queue[c][d], it) \in Seq(Items) /\ Append(sent[c][d], it) \in Seq(Items)
    BY <1>3, AppendProperties
  <1>5. /\ queue' \in [Classes -> [Dests -> Seq(Items)]]
        /\ queue'[c][d] = Append(queue[c][d], it)
        /\ \A e \in Classes, h \in Dests : e # c \/ h # d => queue'[e][h] = queue[e][h]
    <2>1. queue \in [Classes -> [Dests -> Seq(Items)]]
      BY <1>0 DEF QTypeOK
    <2> QED
      BY <1>2, <1>4, <2>1, FlowUpdate
  <1>6. /\ sent' \in [Classes -> [Dests -> Seq(Items)]]
        /\ sent'[c][d] = Append(sent[c][d], it)
        /\ \A e \in Classes, h \in Dests : e # c \/ h # d => sent'[e][h] = sent[e][h]
    <2>1. sent \in [Classes -> [Dests -> Seq(Items)]]
      BY <1>0 DEF QTypeOK
    <2> QED
      BY <1>2, <1>4, <2>1, FlowUpdate
  <1>7. order' \in [Classes -> Seq(Dests)]
    <2>1. order \in [Classes -> Seq(Dests)]
      BY <1>0 DEF QTypeOK
    <2>2. Append(order[c], d) \in Seq(Dests)
      BY <2>1, AppendProperties
    <2> QED
      BY <1>2, <2>1, <2>2
  <1>8. FlowFIFO'
    <2> SUFFICES ASSUME NEW e \in Classes, NEW h \in Dests
                 PROVE  sent'[e][h] = out[e][h] \o queue'[e][h]
      BY <1>2 DEF FlowFIFO
    <2>0. sent[e][h] = out[e][h] \o queue[e][h]
      BY <1>0 DEF FlowFIFO
    <2>1. CASE e = c /\ h = d
      <3>1. out[c][d] \o Append(queue[c][d], it) = Append(out[c][d] \o queue[c][d], it)
        <4>1. \A s, t \in Seq(Items) : s \o Append(t, it) = Append(s \o t, it)
          BY AppendConcat
        <4> QED
          BY <1>3, <4>1, Zenon
      <3> QED
        BY <1>5, <1>6, <2>0, <2>1, <3>1
    <2>2. CASE e # c \/ h # d
      BY <1>5, <1>6, <2>0, <2>2
    <2> QED
      BY <2>1, <2>2
  <1>9. DeficitBounded'
    BY <1>2 DEF QInv, DeficitBounded
  <1> QED
    BY <1>5, <1>6, <1>7, <1>8, <1>9

\* Serving a flow moves its head from the queue to the end of what came out,
\* and pays for it.
LEMMA ServeInv ==
    ASSUME QInv, NEW w \in Workers, TryPopServes(w)
    PROVE  QInv'
  <1>0. QTypeOK /\ DeficitBounded /\ FlowFIFO
    BY DEF QInv
  <1>c. PICK c \in Classes : c = wkr[w].li
    BY <1>0 DEF QTypeOK, Worker
  <1>1. PICK i \in First(c) :
          /\ queue' = [queue EXCEPT ![c][Turn(c, i)] = Tail(@)]
          /\ deficit' = [deficit EXCEPT ![c] =
                [RefilledUpTo(c, i) EXCEPT ![Turn(c, i)] = DeficitAfter(c, Turn(c, i))]]
          /\ idx' = [idx EXCEPT ![c] = NextTurn(c, i)]
          /\ out' = [out EXCEPT ![c][Turn(c, i)] = Append(@, Head(queue[c][Turn(c, i)]))]
          /\ passed' = [passed EXCEPT ![c] = PassedBy(c, Turn(c, i))]
          /\ wkr' = [wkr EXCEPT ![w] = [Dequeuing EXCEPT !.pc = "got",
                                          !.item = Head(queue[c][Turn(c, i)])]]
    BY <1>c DEF TryPopServes
  <1>2. PICK d \in Dests : d = Turn(c, i)
    BY <1>0, ServedFlow
  <1>3. /\ queue[c][d] # <<>>
        /\ SizeOf[Head(queue[c][d])] <= Refilled(c, d)
        /\ Len(order[c]) \in Nat \ {0}
        /\ i \in Nat
    BY <1>0, <1>2, ServedFlow
  <1>4. queue[c][d] \in Seq(Items) /\ out[c][d] \in Seq(Items)
    BY <1>0 DEF QTypeOK
  <1>5. Head(queue[c][d]) \in Items /\ Tail(queue[c][d]) \in Seq(Items)
    BY <1>3, <1>4, HeadTailProperties
  <1>6. Append(out[c][d], Head(queue[c][d])) \in Seq(Items)
    BY <1>4, <1>5, AppendProperties
  <1>7. /\ queue' \in [Classes -> [Dests -> Seq(Items)]]
        /\ queue'[c][d] = Tail(queue[c][d])
        /\ \A e \in Classes, h \in Dests : e # c \/ h # d => queue'[e][h] = queue[e][h]
    <2>1. queue \in [Classes -> [Dests -> Seq(Items)]]
      BY <1>0 DEF QTypeOK
    <2>2. queue' = [queue EXCEPT ![c][d] = Tail(queue[c][d])]
      BY <1>1, <1>2
    <2> QED
      BY <1>5, <2>1, <2>2, FlowUpdate
  <1>8. /\ out' \in [Classes -> [Dests -> Seq(Items)]]
        /\ out'[c][d] = Append(out[c][d], Head(queue[c][d]))
        /\ \A e \in Classes, h \in Dests : e # c \/ h # d => out'[e][h] = out[e][h]
    <2>1. out \in [Classes -> [Dests -> Seq(Items)]]
      BY <1>0 DEF QTypeOK
    <2>2. out' = [out EXCEPT ![c][d] = Append(out[c][d], Head(queue[c][d]))]
      BY <1>1, <1>2
    <2> QED
      BY <1>6, <2>1, <2>2, FlowUpdate
  <1>9. DeficitAfter(c, d) \in 0..Quantum(c)
    <2>1. SizeOf[Head(queue[c][d])] \in Nat
      BY <1>5, ItemsAssumption
    <2>2. Refilled(c, d) \in 0..Quantum(c) /\ Quantum(c) \in Nat
      BY <1>0, RefilledBound, QuantumType
    <2>3. Refilled(c, d) - SizeOf[Head(queue[c][d])] \in 0..Quantum(c)
      BY <1>3, <2>1, <2>2
    <2> QED
      BY <2>2, <2>3 DEF DeficitAfter
  <1>10. deficit' \in [Classes -> [Dests -> Nat]] /\ DeficitBounded'
    <2> DEFINE f == [RefilledUpTo(c, i) EXCEPT ![d] = DeficitAfter(c, d)]
    <2>1. f \in [Dests -> 0..Quantum(c)]
      BY <1>0, <1>9, RefilledUpToBound
    <2>2. deficit' = [deficit EXCEPT ![c] = f]
      BY <1>1, <1>2
    <2> HIDE DEF f
    <2> QED
      BY <1>0, <2>1, <2>2, DeficitSet
  <1>11. idx' \in [Classes -> Nat]
    <2>0. idx[c] \in Nat
      BY <1>0 DEF QTypeOK
    <2>1. idx[c] + i + 1 \in Nat
      BY <1>3, <2>0
    <2>2. NextTurn(c, i) \in 0..(Len(order[c]) - 1)
      BY <1>3, <2>1, ModType, Zenon DEF NextTurn
    <2>3. NextTurn(c, i) \in Nat
      BY <1>3, <2>2
    <2> QED
      BY <1>0, <1>1, <2>3 DEF QTypeOK
  <1>12. passed' \in [Classes -> [Dests -> Nat]]
    <2>0. passed \in [Classes -> [Dests -> Nat]]
      BY <1>0 DEF QTypeOK
    <2>1. passed[c] \in [Dests -> Nat] /\ \A e \in Dests : passed[c][e] + 1 \in Nat
      BY <2>0
    <2>2. PassedBy(c, d) \in [Dests -> Nat]
      BY <2>1 DEF PassedBy
    <2> QED
      BY <1>0, <1>1, <1>2, <2>2 DEF QTypeOK
  <1>13. wkr' \in [Workers -> Worker]
    <2>1. [Dequeuing EXCEPT !.pc = "got", !.item = Head(queue[c][d])] \in Worker
      BY <1>5, DequeuingType DEF Worker
    <2> QED
      BY <1>0, <1>1, <1>2, <2>1 DEF QTypeOK
  <1>14. QTypeOK'
    BY <1>0, <1>7, <1>8, <1>10, <1>11, <1>12, <1>13 DEF TryPopServes, QTypeOK
  <1>15. FlowFIFO'
    <2> SUFFICES ASSUME NEW e \in Classes, NEW h \in Dests
                 PROVE  sent[e][h] = out'[e][h] \o queue'[e][h]
      BY DEF TryPopServes, FlowFIFO
    <2>0. sent[e][h] = out[e][h] \o queue[e][h]
      BY <1>0 DEF FlowFIFO
    <2>1. CASE e = c /\ h = d
      <3>1. Append(out[c][d], Head(queue[c][d])) \o Tail(queue[c][d]) = out[c][d] \o queue[c][d]
        BY <1>3, <1>4, PopConcat
      <3> QED
        BY <1>7, <1>8, <2>0, <2>1, <3>1
    <2>2. CASE e # c \/ h # d
      BY <1>7, <1>8, <2>0, <2>2
    <2> QED
      BY <2>1, <2>2
  <1> QED
    BY <1>10, <1>14, <1>15 DEF QInv

LEMMA SkipInv ==
    ASSUME QInv, NEW w \in Workers, TryPopSkips(w)
    PROVE  QInv'
  <1> DEFINE c == wkr[w].li
  <1>0. QTypeOK /\ DeficitBounded /\ c \in Classes /\ wkr[w] \in Worker
    BY DEF QInv, QTypeOK, Worker
  <1>1. deficit' \in [Classes -> [Dests -> Nat]] /\ DeficitBounded'
    <2>1. RefilledUpTo(c, Len(order[c])) \in [Dests -> 0..Quantum(c)]
      BY <1>0, RefilledUpToBound
    <2> QED
      BY <1>0, <2>1, DeficitSet DEF TryPopSkips
  <1>2. wkr' \in [Workers -> Worker]
    <2>1. [Dequeuing EXCEPT !.pc = "lock"] \in Worker
      BY DequeuingType DEF Worker
    <2>2. c < 2 => [wkr[w] EXCEPT !.li = c + 1] \in Worker
      BY <1>0 DEF Worker, Classes
    <2> QED
      BY <1>0, <2>1, <2>2 DEF TryPopSkips, QTypeOK
  <1>3. QTypeOK'
    BY <1>0, <1>1, <1>2 DEF TryPopSkips, QTypeOK
  <1>4. FlowFIFO'
    BY DEF QInv, FlowFIFO, TryPopSkips
  <1> QED
    BY <1>1, <1>3, <1>4 DEF QInv

\* A step that leaves the flows alone has to keep the threads' types only.
LEMMA ThreadStep ==
    ASSUME QInv, UNCHANGED <<levels, sent>>, ThreadsOK'
    PROVE  QInv'
  BY DEF QInv, QTypeOK, DeficitBounded, FlowFIFO, ThreadsOK, levels

LEMMA QNextInv == QInv /\ [QNext]_qvars => QInv'
  <1> SUFFICES ASSUME QInv, [QNext]_qvars PROVE QInv'
    OBVIOUS
  <1>0. QTypeOK /\ ThreadsOK
    BY DEF QInv, QTypeOK, ThreadsOK
  <1>1. ASSUME NEW p \in Producers, EnqueueAppend(p) PROVE QInv'
    <2>1. PICK it \in Items : AppendItem(it)
      BY <1>1 DEF EnqueueAppend, Unsent
    <2>2. /\ queue' \in [Classes -> [Dests -> Seq(Items)]]
          /\ sent' \in [Classes -> [Dests -> Seq(Items)]]
          /\ order' \in [Classes -> Seq(Dests)]
          /\ DeficitBounded'
          /\ FlowFIFO'
      BY <2>1, AppendInv
    <2>3. prod' \in [Producers -> {"idle", "signal"}]
      BY <1>0, <1>1 DEF EnqueueAppend, QTypeOK
    <2>4. QTypeOK'
      BY <1>0, <1>1, <2>1, <2>2, <2>3 DEF EnqueueAppend, AppendItem, QTypeOK
    <2> QED
      BY <2>2, <2>4 DEF QInv
  <1>2. ASSUME NEW p \in Producers, EnqueueBroadcast(p) PROVE QInv'
    <2>1. ThreadsOK'
      BY <1>0, <1>2, WokenType DEF EnqueueBroadcast, ThreadsOK
    <2> QED
      BY <1>2, <2>1, ThreadStep DEF EnqueueBroadcast
  <1>3. ASSUME NEW w \in Workers,
               DequeueLocks(w) \/ DequeueWaits(w) \/ DequeueWakes(w) \/ HelperSelects(w)
               \/ HelperBroadcasts(w) \/ CallerTakes(w)
        PROVE  QInv'
    <2>0. wkr[w] \in Worker
      BY <1>0 DEF ThreadsOK
    <2>1. CASE DequeueLocks(w)
      BY <1>0, <2>0, <2>1, ThreadStep DEF DequeueLocks, ThreadsOK, Worker
    <2>2. CASE DequeueWaits(w)
      BY <1>0, <2>0, <2>2, ThreadStep DEF DequeueWaits, ThreadsOK, Worker
    <2>3. CASE DequeueWakes(w)
      <3>1. [Dequeuing EXCEPT !.pc = IF wkr[w].done THEN "gone" ELSE "try"] \in Worker
        BY DequeuingType DEF Worker
      <3>2. wkr' \in [Workers -> Worker] /\ stale' \in Nat
        BY <1>0, <2>3, <3>1 DEF DequeueWakes, ThreadsOK
      <3> QED
        BY <1>0, <2>3, <3>2, ThreadStep DEF DequeueWakes, ThreadsOK
    <2>4. CASE HelperSelects(w)
      <3>1. [wkr[w] EXCEPT !.done = stopped,
                           !.helper = IF stopped THEN "signal" ELSE "none"] \in Worker
        BY <1>0, <2>0 DEF ThreadsOK, Worker
      <3>2. wkr' \in [Workers -> Worker]
        BY <1>0, <2>4, <3>1 DEF HelperSelects, ThreadsOK
      <3> QED
        BY <1>0, <2>4, <3>2, ThreadStep DEF HelperSelects, ThreadsOK
    <2>5. CASE HelperBroadcasts(w)
      <3>1. [wkr EXCEPT ![w].helper = "none"] \in [Workers -> Worker]
        BY <1>0, <2>0 DEF ThreadsOK, Worker
      <3>2. wkr' \in [Workers -> Worker]
        BY <2>5, <3>1, WokenType DEF HelperBroadcasts
      <3> QED
        BY <1>0, <2>5, <3>2, ThreadStep DEF HelperBroadcasts, ThreadsOK
    <2>6. CASE CallerTakes(w)
      <3>1. wkr' \in [Workers -> Worker]
        BY <1>0, <2>6, DequeuingType DEF CallerTakes, ThreadsOK
      <3> QED
        BY <1>0, <2>6, <3>1, ThreadStep DEF CallerTakes, ThreadsOK
    <2> QED
      BY <1>3, <2>1, <2>2, <2>3, <2>4, <2>5, <2>6
  <1>4. CASE StaleHelper
    <2>1. wkr' \in [Workers -> Worker] /\ stale' \in Nat
      BY <1>0, <1>4, WokenType DEF StaleHelper, ThreadsOK
    <2> QED
      BY <1>0, <1>4, <2>1, ThreadStep DEF StaleHelper, ThreadsOK
  <1>5. CASE Stop
    <2>1. stopped' \in BOOLEAN
      BY <1>5 DEF Stop
    <2> QED
      BY <1>0, <1>5, <2>1, ThreadStep DEF Stop, ThreadsOK
  <1>6. CASE UNCHANGED qvars
    BY <1>0, <1>6, ThreadStep DEF qvars, ThreadsOK
  <1> QED
    BY <1>1, <1>2, <1>3, <1>4, <1>5, <1>6, ServeInv, SkipInv DEF QNext, DequeueStep

\* Each flow is a FIFO: nothing enqueued is lost, duplicated or overtaken
\* inside its flow.
THEOREM FlowsAreFIFO == QSpec => []FlowFIFO
  <1>1. QSpec => []QInv
    BY QInitInv, QNextInv, PTL DEF QSpec
  <1>2. QInv => FlowFIFO
    BY DEF QInv
  <1> QED
    BY <1>1, <1>2, PTL

\* The deficits of deficit round robin stay within one quantum.
THEOREM DeficitsBounded == QSpec => [](QTypeOK /\ DeficitBounded)
  <1>1. QSpec => []QInv
    BY QInitInv, QNextInv, PTL DEF QSpec
  <1>2. QInv => QTypeOK /\ DeficitBounded
    BY DEF QInv
  <1> QED
    BY <1>1, <1>2, PTL

\* To its users the queue is a FIFO for each class and destination, whatever
\* the classes' locks, the round robin and the workers' helpers do.
THEOREM QueueImplementsFlows == QSpec => ImplementsFlows
  <1>1. QSpec => []QInv
    BY QInitInv, QNextInv, PTL DEF QSpec
  <1>2. QInit => Flows!FInit
    BY DEF QInit, PerFlow, Flows!FInit
  <1>3. QInv /\ [QNext]_qvars => [Flows!FNext]_queue
    <2> SUFFICES ASSUME QInv, [QNext]_qvars PROVE Flows!FNext \/ UNCHANGED queue
      OBVIOUS
    <2>1. ASSUME NEW p \in Producers, EnqueueAppend(p) PROVE Flows!FNext
      <3>1. PICK it \in Items : AppendItem(it)
        BY <2>1 DEF EnqueueAppend, Unsent
      <3>2. Flows!Put(it)
        BY <3>1 DEF AppendItem, Flows!Put
      <3> QED
        BY <3>2 DEF Flows!FNext
    <2>2. ASSUME NEW w \in Workers, TryPopServes(w) PROVE Flows!FNext
      <3>0. QTypeOK
        BY DEF QInv
      <3>1. PICK c \in Classes : c = wkr[w].li
        BY <3>0 DEF QTypeOK, Worker
      <3>2. PICK i \in First(c) : queue' = [queue EXCEPT ![c][Turn(c, i)] = Tail(@)]
        BY <2>2, <3>1 DEF TryPopServes
      <3>3. Turn(c, i) \in Dests /\ queue[c][Turn(c, i)] # <<>>
        BY <3>0, ServedFlow
      <3>4. Flows!Take(c, Turn(c, i))
        BY <3>2, <3>3 DEF Flows!Take
      <3> QED
        BY <3>3, <3>4 DEF Flows!FNext
    <2>3. ASSUME NEW p \in Producers, EnqueueBroadcast(p) PROVE UNCHANGED queue
      BY <2>3 DEF EnqueueBroadcast, levels
    <2>4. ASSUME NEW w \in Workers,
                 TryPopSkips(w) \/ DequeueLocks(w) \/ DequeueWaits(w) \/ DequeueWakes(w)
                 \/ HelperSelects(w) \/ HelperBroadcasts(w) \/ CallerTakes(w)
          PROVE  UNCHANGED queue
      BY <2>4 DEF TryPopSkips, DequeueLocks, DequeueWaits, DequeueWakes, HelperSelects,
                  HelperBroadcasts, CallerTakes, levels
    <2>5. CASE StaleHelper \/ Stop \/ UNCHANGED qvars
      BY <2>5 DEF StaleHelper, Stop, levels, qvars
    <2> QED
      BY <2>1, <2>2, <2>3, <2>4, <2>5 DEF QNext, DequeueStep
  <1> QED
    BY <1>1, <1>2, <1>3, PTL DEF QSpec, ImplementsFlows, Flows!FSpec

-----------------------------------------------------------------------------
(* The round robin.                                                        *)

\* How many turns flow j of n has to wait when the round robin is at k.
Ahead(n, k, j) == IF k < j THEN j - 1 - k ELSE n + j - 1 - k

\* The round robin of one class: its order, its index, its queues and how often
\* its flows were passed over.  The last part makes the bound of RoundRobin
\* inductive: whoever passes a flow over shortens the way to it.
RoundOK(o, k, q, ps) ==
    /\ IsInjective(o)
    /\ k < Len(o) \/ (o = <<>> /\ k = 0)
    /\ \A d \in Dests : q[d] # <<>> => d \in ToSet(o)
    /\ \A d \in Dests : d \notin ToSet(o) => ps[d] = 0
    /\ \A j \in 1..Len(o) : ps[o[j]] + Ahead(Len(o), k, j) < Len(o)

RoundInv == \A c \in Classes : RoundOK(order[c], idx[c], queue[c], passed[c])

\* A flow joins at the end: the others may have to wait for one more.
LEMMA RoundAppends ==
    ASSUME NEW o \in Seq(Dests), NEW k \in Nat, NEW q, NEW ps \in [Dests -> Nat],
           RoundOK(o, k, q, ps), NEW d \in Dests,
           NEW q2, \A e \in Dests : e # d => q2[e] = q[e],
           NEW o2, o2 = IF d \in ToSet(o) THEN o ELSE Append(o, d)
    PROVE  RoundOK(o2, k, q2, ps)
  <1>0. /\ IsInjective(o)
        /\ k < Len(o) \/ (o = <<>> /\ k = 0)
        /\ \A e \in Dests : q[e] # <<>> => e \in ToSet(o)
        /\ \A e \in Dests : e \notin ToSet(o) => ps[e] = 0
        /\ \A j \in 1..Len(o) : ps[o[j]] + Ahead(Len(o), k, j) < Len(o)
    BY DEF RoundOK
  <1>1. CASE d \in ToSet(o)
    BY <1>0, <1>1 DEF RoundOK
  <1>2. CASE d \notin ToSet(o)
    <2>1. /\ o2 \in Seq(Dests) /\ Len(o2) = Len(o) + 1 /\ Len(o) \in Nat /\ o2[Len(o) + 1] = d
          /\ \A j \in 1..Len(o) : o2[j] = o[j] /\ o[j] \in Dests
          /\ DOMAIN o = 1..Len(o) /\ DOMAIN o2 = 1..(Len(o) + 1)
      BY <1>2
    <2>2. ToSet(o2) = ToSet(o) \cup {d}
      BY <2>1 DEF ToSet
    <2>3. IsInjective(o2)
      BY <1>0, <1>2, <2>1 DEF IsInjective, ToSet
    <2>4. k < Len(o2)
      BY <1>0, <2>1
    <2>5. ASSUME NEW j \in 1..Len(o2) PROVE ps[o2[j]] + Ahead(Len(o2), k, j) < Len(o2)
      <3>1. CASE j = Len(o) + 1
        <4>1. ps[o2[j]] = 0
          BY <1>0, <1>2, <2>1, <3>1
        <4>2. Ahead(Len(o2), k, j) < Len(o2)
          BY <2>1, <2>4, <3>1 DEF Ahead
        <4>3. Ahead(Len(o2), k, j) \in Int
          BY <2>1 DEF Ahead
        <4> QED
          BY <4>1, <4>2, <4>3
      <3>2. CASE j # Len(o) + 1
        <4>1. j \in 1..Len(o) /\ o2[j] = o[j] /\ ps[o[j]] \in Nat
          BY <2>1, <3>2
        <4>2. ps[o[j]] + Ahead(Len(o), k, j) < Len(o)
          BY <1>0, <4>1
        <4>3. Ahead(Len(o2), k, j) <= Ahead(Len(o), k, j) + 1 /\ Ahead(Len(o), k, j) \in Int /\ Ahead(Len(o2), k, j) \in Int
          BY <2>1, <4>1 DEF Ahead
        <4> QED
          BY <2>1, <4>1, <4>2, <4>3
      <3> QED
        BY <3>1, <3>2
    <2> QED
      BY <1>0, <2>2, <2>3, <2>4, <2>5 DEF RoundOK
  <1> QED
    BY <1>1, <1>2

LEMMA ModOnce == \A n \in Nat \ {0} : \A a \in 0..(n - 1) : a % n = a
  OBVIOUS

LEMMA ModTwice == \A n \in Nat \ {0} : \A a \in n..(2 * n - 1) : a % n = a - n
  OBVIOUS

\* It is the turn of flow j after Ahead turns.
LEMMA AheadTurn ==
    ASSUME NEW n \in Nat \ {0}, NEW k \in 0..(n - 1), NEW j \in 1..n
    PROVE  /\ Ahead(n, k, j) \in 0..(n - 1)
           /\ ((k + Ahead(n, k, j)) % n) + 1 = j
  <1>1. CASE k < j
    <2>1. Ahead(n, k, j) = j - 1 - k
      BY <1>1 DEF Ahead
    <2>2. k + Ahead(n, k, j) = j - 1 /\ j - 1 \in 0..(n - 1) /\ Ahead(n, k, j) \in 0..(n - 1)
      BY <1>1, <2>1
    <2> QED
      BY <2>2, ModOnce
  <1>2. CASE ~(k < j)
    <2>1. Ahead(n, k, j) = n + j - 1 - k
      BY <1>2 DEF Ahead
    <2>2. /\ k + Ahead(n, k, j) = n + j - 1 /\ n + j - 1 \in n..(2 * n - 1)
          /\ Ahead(n, k, j) \in 0..(n - 1)
      BY <1>2, <2>1
    <2>3. (k + Ahead(n, k, j)) % n = (n + j - 1) - n
      BY <2>2, ModTwice
    <2> QED
      BY <2>2, <2>3
  <1> QED
    BY <1>1, <1>2

\* Passed over once more, and at least one turn nearer.
LEMMA NoFurther ==
    \A x, y, i, n \in Nat : \A a, b \in Int :
        y <= x + 1 /\ b = a - i - 1 /\ x + a < n => y + b < n
  OBVIOUS

\* After i + 1 turns the flows that had to wait longer wait that much less.
LEMMA AheadLess ==
    ASSUME NEW n \in Nat \ {0}, NEW k \in 0..(n - 1), NEW j \in 1..n, NEW i \in 0..(n - 1),
           NEW k2 \in 0..(n - 1), k2 = IF k + i + 1 < n THEN k + i + 1 ELSE k + i + 1 - n,
           i < Ahead(n, k, j)
    PROVE  Ahead(n, k2, j) = Ahead(n, k, j) - i - 1
  <1>1. CASE k < j
    BY <1>1 DEF Ahead
  <1>2. CASE ~(k < j)
    BY <1>2 DEF Ahead
  <1> QED
    BY <1>1, <1>2

IsNearer(n, k, i, j) ==
    /\ (k + i + 1) % n \in 0..(n - 1)
    /\ Ahead(n, (k + i + 1) % n, j) \in 0..(n - 1)
    /\ i < Ahead(n, k, j) => Ahead(n, (k + i + 1) % n, j) = Ahead(n, k, j) - i - 1

LEMMA AheadNext ==
    ASSUME NEW n \in Nat \ {0}, NEW k \in 0..(n - 1), NEW i \in 0..(n - 1), NEW j \in 1..n
    PROVE  IsNearer(n, k, i, j)
  <1>1. (k + i + 1) % n = IF k + i + 1 < n THEN k + i + 1 ELSE k + i + 1 - n
    <2>1. CASE k + i + 1 < n
      BY <2>1, ModOnce
    <2>2. CASE ~(k + i + 1 < n)
      <3>1. PICK a \in n..(2 * n - 1) : a = k + i + 1
        BY <2>2
      <3>2. a % n = a - n
        BY ModTwice, Zenon
      <3> QED
        BY <2>2, <3>1, <3>2
    <2> QED
      BY <2>1, <2>2
  <1>2. PICK k2 : k2 = (k + i + 1) % n
    OBVIOUS
  <1>3. k2 = (IF k + i + 1 < n THEN k + i + 1 ELSE k + i + 1 - n) /\ k2 \in 0..(n - 1)
    BY <1>1, <1>2
  <1>4. Ahead(n, k2, j) \in 0..(n - 1)
    BY <1>3, AheadTurn, Zenon
  <1>5. i < Ahead(n, k, j) => Ahead(n, k2, j) = Ahead(n, k, j) - i - 1
    BY <1>3, AheadLess
  <1> QED
    BY <1>2, <1>3, <1>4, <1>5 DEF IsNearer

\* A flow is served in turn i, the first in which one can be: those that were
\* passed over are nearer by i + 1 turns, the others start again.
IsServed(o, k, q, ps, n, i, k2, q2, ps2) ==
    \E d \in Dests :
       /\ d = o[((k + i) % n) + 1] /\ q[d] # <<>>
       /\ k2 = (k + i + 1) % n
       /\ \A e \in Dests : e # d => q2[e] = q[e]
       /\ \A e \in Dests : ps2[e] <= ps[e] + 1
       /\ \A e \in Dests : e = d \/ q[e] = <<>> => ps2[e] = 0
       /\ \A a \in 0..(n - 1) : a < i => ps2[o[((k + a) % n) + 1]] = 0

LEMMA RoundServes ==
    ASSUME NEW o \in Seq(Dests), NEW k \in Nat, NEW q, NEW ps \in [Dests -> Nat],
           RoundOK(o, k, q, ps), NEW n \in Nat \ {0}, Len(o) = n, NEW i \in 0..(n - 1),
           NEW k2, NEW q2, NEW ps2 \in [Dests -> Nat],
           IsServed(o, k, q, ps, n, i, k2, q2, ps2)
    PROVE  RoundOK(o, k2, q2, ps2)
  <1>d. PICK d \in Dests :
       /\ d = o[((k + i) % n) + 1] /\ q[d] # <<>>
       /\ k2 = (k + i + 1) % n
       /\ \A e \in Dests : e # d => q2[e] = q[e]
       /\ \A e \in Dests : ps2[e] <= ps[e] + 1
       /\ \A e \in Dests : e = d \/ q[e] = <<>> => ps2[e] = 0
       /\ \A a \in 0..(n - 1) : a < i => ps2[o[((k + a) % n) + 1]] = 0
    BY Zenon DEF IsServed
  <1>0. /\ IsInjective(o)
        /\ k < Len(o) \/ (o = <<>> /\ k = 0)
        /\ \A e \in Dests : q[e] # <<>> => e \in ToSet(o)
        /\ \A e \in Dests : e \notin ToSet(o) => ps[e] = 0
        /\ \A j \in 1..n : ps[o[j]] + Ahead(n, k, j) < n
    BY DEF RoundOK
  <1>1. k \in 0..(n - 1) /\ i \in Nat /\ n \in Nat
    BY <1>0
  <1>2. ASSUME NEW j \in 1..n PROVE ps2[o[j]] + Ahead(n, k2, j) < n
    <2>1. o[j] \in Dests /\ ps[o[j]] \in Nat /\ ps2[o[j]] \in Nat /\ ps2[o[j]] <= ps[o[j]] + 1
      BY <1>2, <1>d
    <2>2. /\ Ahead(n, k, j) \in 0..(n - 1)
          /\ ((k + Ahead(n, k, j)) % n) + 1 = j
      BY <1>1, AheadTurn
    <2>3. /\ Ahead(n, k2, j) \in 0..(n - 1)
          /\ i < Ahead(n, k, j) => Ahead(n, k2, j) = Ahead(n, k, j) - i - 1
      <3>1. k \in 0..(n - 1)
        BY <1>1
      <3>2. IsNearer(n, k, i, j)
        BY <3>1, AheadNext
      <3> QED
        BY <1>d, <3>2, Zenon DEF IsNearer
    <2>4. ps[o[j]] + Ahead(n, k, j) < n
      BY <1>0, <1>2
    <2>5. CASE i < Ahead(n, k, j)
      <3>1. PICK a \in Int, b \in Int : a = Ahead(n, k, j) /\ b = Ahead(n, k2, j)
        BY <2>2, <2>3
      <3>2. b = a - i - 1 /\ ps[o[j]] + a < n
        BY <2>3, <2>4, <2>5, <3>1
      <3>3. ps2[o[j]] + b < n
        <4>1. PICK x \in Nat, y \in Nat : x = ps[o[j]] /\ y = ps2[o[j]]
          BY <2>1
        <4>2. y <= x + 1 /\ b = a - i - 1 /\ x + a < n
          BY <2>1, <3>2, <4>1
        <4>3. y + b < n
          BY <1>1, <4>2, NoFurther
        <4> QED
          BY <4>1, <4>3
      <3> QED
        BY <3>1, <3>3
    <2>6. CASE ~(i < Ahead(n, k, j))
      <3>1. ps2[o[j]] = 0
        <4>1. CASE Ahead(n, k, j) = i
          BY <1>d, <2>1, <2>2, <4>1
        <4>2. CASE Ahead(n, k, j) # i
          <5>1. Ahead(n, k, j) < i
            BY <2>2, <2>6, <4>2
          <5> QED
            BY <1>d, <2>2, <5>1
        <4> QED
          BY <4>1, <4>2
      <3> QED
        BY <2>3, <3>1
    <2> QED
      BY <2>5, <2>6
  <1>3. k2 < Len(o)
    <2>1. 1 \in 1..n
      OBVIOUS
    <2>2. k2 \in 0..(n - 1)
      <3>1. k \in 0..(n - 1)
        BY <1>1
      <3>2. IsNearer(n, k, i, 1)
        BY <2>1, <3>1, AheadNext
      <3> QED
        BY <1>d, <3>2, Zenon DEF IsNearer
    <2> QED
      BY <2>2
  <1>4. \A e \in Dests : q2[e] # <<>> => e \in ToSet(o)
    BY <1>0, <1>d
  <1>5. \A e \in Dests : e \notin ToSet(o) => ps2[e] = 0
    BY <1>0, <1>d
  <1> QED
    BY <1>0, <1>2, <1>3, <1>4, <1>5 DEF RoundOK

LEMMA RoundInit == QInit => RoundInv
  <1> SUFFICES ASSUME QInit, NEW c \in Classes
               PROVE  RoundOK(order[c], idx[c], queue[c], passed[c])
    BY DEF RoundInv
  <1>1. /\ order[c] = <<>> /\ idx[c] = 0
        /\ \A d \in Dests : queue[c][d] = <<>> /\ passed[c][d] = 0
    BY DEF QInit, PerFlow
  <1>2. DOMAIN order[c] = {} /\ 1..Len(order[c]) = {}
    BY <1>1
  <1> QED
    BY <1>1, <1>2 DEF RoundOK, IsInjective

LEMMA RoundTypes ==
    ASSUME QTypeOK, NEW c \in Classes
    PROVE  /\ order[c] \in Seq(Dests) /\ idx[c] \in Nat /\ passed[c] \in [Dests -> Nat]
           /\ queue[c] \in [Dests -> Seq(Items)]
  BY DEF QTypeOK

LEMMA RoundAppendStep ==
    ASSUME QTypeOK, RoundInv, NEW it \in Items, AppendItem(it)
    PROVE  RoundInv'
  <1>1. PICK c \in Classes, d \in Dests : c = ClassOf[it] /\ d = DestOf[it]
    BY ItemsAssumption
  <1>2. /\ queue' = [queue EXCEPT ![c][d] = Append(queue[c][d], it)]
        /\ order' = IF d \in ToSet(order[c]) THEN order
                                             ELSE [order EXCEPT ![c] = Append(order[c], d)]
        /\ idx' = idx /\ passed' = passed
    BY <1>1 DEF AppendItem
  <1>3. order \in [Classes -> Seq(Dests)] /\ queue \in [Classes -> [Dests -> Seq(Items)]]
    BY DEF QTypeOK
  <1> SUFFICES ASSUME NEW e \in Classes
               PROVE  RoundOK(order'[e], idx'[e], queue'[e], passed'[e])
    BY DEF RoundInv
  <1>4. RoundOK(order[e], idx[e], queue[e], passed[e])
    BY DEF RoundInv
  <1>5. CASE e = c
    <2>1. order'[c] = IF d \in ToSet(order[c]) THEN order[c] ELSE Append(order[c], d)
      BY <1>2, <1>3
    <2>2. \A h \in Dests : h # d => queue'[c][h] = queue[c][h]
      BY <1>2, <1>3
    <2>3. PICK o \in Seq(Dests), k \in Nat, ps \in [Dests -> Nat], q \in {queue[c]} :
            o = order[c] /\ k = idx[c] /\ ps = passed[c] /\ q = queue[c]
      BY RoundTypes
    <2>4. RoundOK(order'[c], k, queue'[c], ps)
      BY <1>4, <1>5, <2>1, <2>2, <2>3, RoundAppends
    <2> QED
      BY <1>2, <1>5, <2>3, <2>4
  <1>6. CASE e # c
    <2>1. order'[e] = order[e] /\ queue'[e] = queue[e]
      BY <1>2, <1>3, <1>6
    <2> QED
      BY <1>2, <1>4, <2>1
  <1> QED
    BY <1>5, <1>6

\* The flows that tryPop looked at before the one it serves could not be served.
LEMMA RoundServeStep ==
    ASSUME QTypeOK, QTypeOK', RoundInv, NEW w \in Workers, TryPopServes(w)
    PROVE  RoundInv'
  <1>c. PICK c \in Classes : c = wkr[w].li
    BY DEF QTypeOK, Worker
  <1>1. PICK i \in First(c) :
          /\ queue' = [queue EXCEPT ![c][Turn(c, i)] = Tail(@)]
          /\ idx' = [idx EXCEPT ![c] = NextTurn(c, i)]
          /\ passed' = [passed EXCEPT ![c] = PassedBy(c, Turn(c, i))]
          /\ order' = order
    BY <1>c DEF TryPopServes
  <1>2. PICK d \in Dests : d = Turn(c, i)
    BY ServedFlow
  <1>3. queue[c][d] # <<>> /\ Len(order[c]) \in Nat \ {0}
    BY <1>2, ServedFlow
  <1>t. /\ order \in [Classes -> Seq(Dests)] /\ queue \in [Classes -> [Dests -> Seq(Items)]]
        /\ idx \in [Classes -> Nat] /\ passed \in [Classes -> [Dests -> Nat]]
    BY DEF QTypeOK
  <1> SUFFICES ASSUME NEW e \in Classes
               PROVE  RoundOK(order[e], idx'[e], queue'[e], passed'[e])
    BY <1>1 DEF RoundInv
  <1>4. RoundOK(order[e], idx[e], queue[e], passed[e])
    BY DEF RoundInv
  <1>5. CASE e = c
    <2>o. PICK o \in Seq(Dests), k \in Nat, ps \in [Dests -> Nat], q \in {queue[c]} :
            o = order[c] /\ k = idx[c] /\ ps = passed[c] /\ q = queue[c]
      BY RoundTypes
    <2>n. PICK n \in Nat \ {0} : n = Len(order[c])
      BY <1>3
    <2>1. o = order[c] /\ k = idx[c] /\ ps = passed[c] /\ q = queue[c] /\ n = Len(order[c])
      BY <2>o, <2>n
    <2>2. PICK ps2 \in [Dests -> Nat], k2 \in {idx'[c]}, q2 \in {queue'[c]} :
            ps2 = passed'[c] /\ k2 = idx'[c] /\ q2 = queue'[c]
      BY DEF QTypeOK
    <2>3. i \in 0..(n - 1) /\ \A a \in 0..(n - 1) : a < i => ~Affordable(c, Turn(c, a))
      <3>1. i \in Servable(c) /\ \A a \in Servable(c) : i <= a
        BY DEF First
      <3>2. i \in 0..(n - 1)
        BY <2>1, <3>1 DEF Servable, Turns
      <3>3. ASSUME NEW a \in 0..(n - 1), a < i, Affordable(c, Turn(c, a)) PROVE FALSE
        <4>1. a \in Servable(c)
          BY <2>1, <3>3 DEF Servable, Turns
        <4>2. i <= a
          BY <3>1, <4>1
        <4> QED
          BY <3>2, <3>3, <4>2
      <3> QED
        BY <3>2, <3>3
    <2>4. d = o[((k + i) % n) + 1] /\ \A a : Turn(c, a) = o[((k + a) % n) + 1]
      BY <1>2, <2>1 DEF Turn
    <2>5. k2 = (k + i + 1) % n
      BY <1>1, <1>t, <2>1, <2>2 DEF NextTurn
    <2>6. (\A h \in Dests : h # d => q2[h] = q[h]) /\ q[d] # <<>>
      BY <1>1, <1>2, <1>3, <1>t, <2>1, <2>2
    <2>7. ps2 = [h \in Dests |-> IF h # d /\ Affordable(c, h) THEN ps[h] + 1 ELSE 0]
      BY <1>1, <1>2, <1>t, <2>1, <2>2 DEF PassedBy
    <2>8. \A h \in Dests : ps2[h] <= ps[h] + 1
      BY <2>7
    <2>9. \A h \in Dests : h = d \/ q[h] = <<>> => ps2[h] = 0
      BY <2>1, <2>7 DEF Affordable
    <2>10. ASSUME NEW a \in 0..(n - 1), a < i PROVE ps2[o[((k + a) % n) + 1]] = 0
      <3>1. ~Affordable(c, o[((k + a) % n) + 1])
        BY <2>3, <2>4, <2>10, Zenon
      <3>2. o[((k + a) % n) + 1] \in Dests
        <4>1. k + a \in Nat
          BY <2>1
        <4>2. PICK r \in 0..(n - 1) : r = (k + a) % n
          BY <4>1, ModType, Zenon
        <4>m. PICK m \in 1..n : m = r + 1
          OBVIOUS
        <4>3. m = ((k + a) % n) + 1
          BY <4>2, <4>m
        <4>4. Len(o) = n
          BY <2>1
        <4>5. o[m] \in Dests
          BY <4>3, <4>4, ElementOfSeq
        <4> QED
          BY <4>3, <4>5
      <3>3. PICK h \in Dests : h = o[((k + a) % n) + 1]
        BY <3>2, Zenon
      <3>4. ps2[h] = 0
        BY <2>7, <3>1, <3>3, Zenon
      <3> QED
        BY <3>3, <3>4, Zenon
    <2>11. RoundOK(o, k, q, ps) /\ Len(o) = n
      BY <1>4, <1>5, <2>1
    <2>12. RoundOK(o, k2, q2, ps2)
      <3>1. \A a \in 0..(n - 1) : a < i => ps2[o[((k + a) % n) + 1]] = 0
        BY <2>10, Zenon
      <3>2. i \in 0..(n - 1) /\ d = o[((k + i) % n) + 1]
        BY <2>3, <2>4
      <3>3. IsServed(o, k, q, ps, n, i, k2, q2, ps2)
        BY <2>5, <2>6, <2>8, <2>9, <3>1, <3>2, Zenon DEF IsServed
      <3> QED
        BY <2>11, <3>2, <3>3, RoundServes
    <2> QED
      BY <1>5, <2>1, <2>2, <2>12
  <1>6. CASE e # c
    <2>1. idx'[e] = idx[e] /\ queue'[e] = queue[e] /\ passed'[e] = passed[e]
      BY <1>1, <1>t, <1>6
    <2> QED
      BY <1>4, <2>1
  <1> QED
    BY <1>5, <1>6

LEMMA RoundStep == QInv /\ RoundInv /\ [QNext]_qvars => RoundInv'
  <1> SUFFICES ASSUME QInv, RoundInv, [QNext]_qvars PROVE RoundInv'
    OBVIOUS
  <1>0. QTypeOK /\ QTypeOK'
    BY QNextInv DEF QInv
  <1>1. ASSUME NEW p \in Producers, EnqueueAppend(p) PROVE RoundInv'
    <2>1. PICK it \in Items : AppendItem(it)
      BY <1>1 DEF EnqueueAppend, Unsent
    <2> QED
      BY <1>0, <2>1, RoundAppendStep
  <1>2. ASSUME NEW w \in Workers, TryPopServes(w) PROVE RoundInv'
    BY <1>0, <1>2, RoundServeStep
  <1>3. ASSUME UNCHANGED <<order, idx, queue, passed>> PROVE RoundInv'
    BY <1>3 DEF RoundInv
  <1>4. ASSUME NEW w \in Workers, TryPopSkips(w) PROVE RoundInv'
    BY <1>3, <1>4 DEF TryPopSkips
  <1>5. ASSUME UNCHANGED levels PROVE RoundInv'
    BY <1>3, <1>5 DEF levels
  <1>6. ASSUME NEW p \in Producers, EnqueueBroadcast(p) PROVE RoundInv'
    BY <1>5, <1>6 DEF EnqueueBroadcast
  <1>7. ASSUME NEW w \in Workers,
               DequeueLocks(w) \/ DequeueWaits(w) \/ DequeueWakes(w) \/ HelperSelects(w)
               \/ HelperBroadcasts(w) \/ CallerTakes(w)
        PROVE  RoundInv'
    BY <1>5, <1>7 DEF DequeueLocks, DequeueWaits, DequeueWakes, HelperSelects, HelperBroadcasts,
                      CallerTakes
  <1>8. CASE StaleHelper \/ Stop \/ UNCHANGED qvars
    BY <1>5, <1>8 DEF StaleHelper, Stop, qvars
  <1> QED
    BY <1>1, <1>2, <1>4, <1>6, <1>7, <1>8 DEF QNext, DequeueStep

\* Every class keeps its round: each flow is in the order at most once, those with
\* something queued are, and no flow is passed over more often than others are
\* ahead of it, at every step of Enqueue and tryPop.
THEOREM RoundKept == QSpec => []RoundInv
  <1>1. QSpec => []QInv
    BY QInitInv, QNextInv, PTL DEF QSpec
  <1> QED
    BY <1>1, RoundInit, RoundStep, PTL DEF QSpec

\* A flow with something queued is in the order of its class, exactly once, and
\* the index of the class is one of the order, however Enqueue and tryPop meet.
THEOREM FlowsStayScheduled == QSpec => []FlowsScheduled
  <1>1. RoundInv => FlowsScheduled
    BY DEF RoundInv, RoundOK, FlowsScheduled
  <1> QED
    BY <1>1, RoundKept, PTL

\* tryPop passes over a flow it could serve fewer times than the class has
\* flows, for any number of flows, also of those that join meanwhile.
THEOREM RoundRobinHolds == QSpec => []RoundRobin
  <1>1. QSpec => []QInv
    BY QInitInv, QNextInv, PTL DEF QSpec
  <1>2. QInv /\ RoundInv => RoundRobin
    <2> SUFFICES ASSUME QInv, RoundInv, NEW c \in Classes, NEW d \in Dests, passed[c][d] > 0
                 PROVE  passed[c][d] < Len(order[c])
      BY DEF RoundRobin
    <2>1. PICK o \in Seq(Dests), k \in Nat, ps \in [Dests -> Nat] :
            o = order[c] /\ k = idx[c] /\ ps = passed[c]
      BY RoundTypes DEF QInv
    <2>2. /\ k < Len(o) \/ (o = <<>> /\ k = 0)
          /\ d \notin ToSet(o) => ps[d] = 0
          /\ \A j \in 1..Len(o) : ps[o[j]] + Ahead(Len(o), k, j) < Len(o)
      BY <2>1 DEF RoundInv, RoundOK
    <2>3. PICK n \in Nat : n = Len(o) /\ DOMAIN o = 1..n
      OBVIOUS
    <2>4. PICK j \in 1..n : o[j] = d
      BY <2>1, <2>2, <2>3 DEF ToSet
    <2>5. ps[d] + Ahead(n, k, j) < n /\ n \in Nat \ {0} /\ k \in 0..(n - 1)
      BY <2>2, <2>3, <2>4
    <2>6. Ahead(n, k, j) \in 0..(n - 1)
      BY <2>4, <2>5, AheadTurn
    <2>7. ps[d] \in Nat /\ ps[d] < n
      BY <2>5, <2>6
    <2> QED
      BY <2>1, <2>3, <2>7
  <1> QED
    BY <1>1, <1>2, RoundKept, PTL
=============================================================================
