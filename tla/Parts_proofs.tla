---------------------------- MODULE Parts_proofs ----------------------------
(***************************************************************************)
(* Proofs about Registry, for any workers, handlers, tasks and bounds, and *)
(* about Envelope, for any messages, sizes and chunks.  Those of Frames    *)
(* are in Transports_proofs.                                               *)
(***************************************************************************)
EXTENDS Registry, Envelope, SequenceTheorems, FiniteSetTheorems, NaturalsInduction,
        WellFoundedInduction, TLAPS

-----------------------------------------------------------------------------
(* Numbers.                                                                *)

\* A set of numbers that is not empty has a least one.
LEMMA LeastNumber ==
    ASSUME NEW T, T \subseteq Nat, T # {}
    PROVE  \E x \in T : \A y \in T : x <= y
  <1> DEFINE R == {r \in Nat \X Nat : r[1] < r[2]}
  <1>1. IsWellFoundedOn(R, Nat)
    <2>1. OpToRel(<, Nat) = R
      BY DEF OpToRel
    <2> QED
      BY <2>1, NatLessThanWellFounded
  <1> HIDE DEF R
  <1>2. PICK x \in T : \A y \in T : ~(<<y, x>> \in R)
    BY <1>1, WFMin
  <1>3. ASSUME NEW y \in T PROVE x <= y
    <2>1. x \in Nat /\ y \in Nat /\ ~(<<y, x>> \in R)
      BY <1>2
    <2>2. ~(y < x)
      BY <2>1 DEF R
    <2> QED
      BY <2>1, <2>2
  <1> QED
    BY <1>3

\* Induction up to n, for a set of numbers.
LEMMA CountUp ==
    ASSUME NEW n \in Nat, NEW T, 0 \in T, \A i \in 1..n : i - 1 \in T => i \in T
    PROVE  \A i \in 0..n : i \in T
  <1> SUFFICES ASSUME NEW k \in 0..n, k \notin T PROVE FALSE
    OBVIOUS
  <1> DEFINE B == {i \in 0..n : i \notin T}
  <1>1. B \subseteq Nat /\ B # {}
    OBVIOUS
  <1>2. PICK x \in B : \A y \in B : x <= y
    BY <1>1, LeastNumber
  <1>3. x \in 1..n /\ x - 1 \in 0..n /\ ~(x <= x - 1)
    BY <1>2
  <1>4. x - 1 \in T
    BY <1>2, <1>3
  <1> QED
    BY <1>2, <1>3, <1>4

-----------------------------------------------------------------------------
(* FlattenSeq, one element after the other.                                *)

Grows(acc, S, w, n) ==
    /\ acc \in [0..n -> Seq(S)] /\ acc[0] = <<>>
    /\ \A i \in 1..n : acc[i] = acc[i - 1] \o w[i]

LEMMA GrowthExists ==
    ASSUME NEW S, NEW w \in Seq(Seq(S))
    PROVE  \E acc : Grows(acc, S, w, Len(w))
  <1> DEFINE n == Len(w)
             T == {k \in 0..n : \E f : Grows(f, S, w, k)}
  <1>0. n \in Nat /\ \A i \in 1..n : w[i] \in Seq(S)
    BY LenProperties, ElementOfSeq
  <1>1. 0 \in T
    <2>1. Grows([i \in 0..0 |-> <<>>], S, w, 0)
      BY DEF Grows
    <2> QED
      BY <1>0, <2>1
  <1>2. ASSUME NEW k \in 1..n, k - 1 \in T PROVE k \in T
    <2>1. PICK f : Grows(f, S, w, k - 1)
      BY <1>2
    <2>2. f[k - 1] \in Seq(S) /\ w[k] \in Seq(S)
      BY <1>0, <2>1 DEF Grows
    <2>3. PICK x \in Seq(S) : x = f[k - 1] \o w[k]
      BY <2>2, ConcatProperties
    <2> DEFINE g == [i \in 0..k |-> IF i = k THEN x ELSE f[i]]
    <2>4. g \in [0..k -> Seq(S)] /\ g[0] = <<>>
      BY <1>0, <2>1 DEF Grows
    <2>5. ASSUME NEW i \in 1..k PROVE g[i] = g[i - 1] \o w[i]
      <3>1. g[i - 1] = f[i - 1]
        BY <1>0
      <3>2. CASE i = k
        BY <2>3, <3>1, <3>2
      <3>3. CASE i # k
        <4>1. i \in 1..(k - 1) /\ g[i] = f[i]
          BY <1>0, <3>3
        <4> QED
          BY <2>1, <3>1, <4>1 DEF Grows
      <3> QED
        BY <3>2, <3>3
    <2> HIDE DEF g
    <2>6. Grows(g, S, w, k)
      BY <2>4, <2>5 DEF Grows
    <2> QED
      BY <2>6
  <1> HIDE DEF T
  <1>3. \A i \in 0..n : i \in T
    BY <1>0, <1>1, <1>2, CountUp
  <1>4. n \in T
    BY <1>0, <1>3
  <1> QED
    BY <1>4 DEF T

LEMMA FlattenGrows ==
    ASSUME NEW S, NEW w \in Seq(Seq(S)), w # <<>>
    PROVE  \E acc : Grows(acc, S, w, Len(w)) /\ FlattenSeq(w) = acc[Len(w)]
  <1> DEFINE n == Len(w)
             G(f, i) == IF i = 1 THEN w[i] ELSE f[i - 1] \o w[i]
  <1>0. n \in Nat \ {0} /\ \A i \in 1..n : w[i] \in Seq(S)
    BY LenProperties, ElementOfSeq, EmptySeq
  <1>1. PICK acc : Grows(acc, S, w, Len(w))
    BY GrowthExists
  <1> DEFINE fl == [i \in 1..n |-> acc[i]]
  <1>2. ASSUME NEW i \in 1..n PROVE fl[i] = G(fl, i)
    <2>1. fl[i] = acc[i - 1] \o w[i] /\ w[i] \in Seq(S)
      BY <1>0, <1>1 DEF Grows
    <2>2. CASE i = 1
      <3>1. acc[i - 1] = <<>>
        BY <1>1, <2>2 DEF Grows
      <3> QED
        BY <2>1, <2>2, <3>1, ConcatEmptySeq
    <2>3. CASE i # 1
      <3>1. i - 1 \in 1..n /\ fl[i - 1] = acc[i - 1]
        BY <1>0, <2>3
      <3> QED
        BY <2>1, <2>3, <3>1
    <2> QED
      BY <2>2, <2>3
  <1>3. fl = [i \in 1..n |-> G(fl, i)]
    <2>1. fl = [i \in 1..n |-> fl[i]]
      OBVIOUS
    <2> HIDE DEF fl, G
    <2> QED
      BY <1>2, <2>1
  <1> HIDE DEF fl
  <1>4. PICK flat : flat = [i \in 1..n |-> G(flat, i)] /\ FlattenSeq(w) = flat[n]
    <2>1. n # 0
      BY <1>0
    <2> QED
      BY <1>3, <2>1 DEF FlattenSeq
  <1>5. \A i \in 1..n : flat[i] = G(flat, i)
    <2> HIDE DEF G
    <2> QED
      BY <1>4
  <1> DEFINE T == {i \in 0..n : i = 0 \/ flat[i] = acc[i]}
  <1>6. 0 \in T
    BY <1>0
  <1>7. ASSUME NEW i \in 1..n, i - 1 \in T PROVE i \in T
    <2>1. acc[i] = acc[i - 1] \o w[i] /\ w[i] \in Seq(S)
      BY <1>0, <1>1 DEF Grows
    <2>2. CASE i = 1
      <3>1. acc[i - 1] = <<>>
        BY <1>1, <2>2 DEF Grows
      <3>2. flat[i] = w[i]
        BY <1>5, <2>2
      <3>3. acc[i] = w[i]
        BY <2>1, <3>1, ConcatEmptySeq
      <3> QED
        BY <3>2, <3>3
    <2>3. CASE i # 1
      <3>1. flat[i] = flat[i - 1] \o w[i]
        BY <1>5, <2>3
      <3>2. flat[i - 1] = acc[i - 1]
        <4>1. i - 1 # 0
          BY <1>0, <2>3
        <4> QED
          BY <1>7, <4>1
      <3>3. flat[i] = acc[i]
        BY <2>1, <3>1, <3>2
      <3> QED
        BY <3>3
    <2> QED
      BY <2>2, <2>3
  <1> HIDE DEF T
  <1>8. n \in T
    <2>1. \A i \in 0..n : i \in T
      BY <1>0, <1>6, <1>7, CountUp
    <2> QED
      BY <1>0, <2>1
  <1>9. flat[n] = acc[n]
    BY <1>0, <1>8 DEF T
  <1> QED
    BY <1>1, <1>4, <1>9

-----------------------------------------------------------------------------
(* Pieces of a sequence.                                                   *)

\* l is what all has behind its first p elements.
Piece(all, p, l) == p + Len(l) <= Len(all) /\ \A j \in 1..Len(l) : l[j] = all[p + j]

LEMMA SubSeqFacts ==
    ASSUME NEW S, NEW s \in Seq(S), NEW m \in Nat \ {0}, NEW n \in Nat, m <= n + 1, n <= Len(s)
    PROVE  /\ SubSeq(s, m, n) \in Seq(S) /\ Len(SubSeq(s, m, n)) = n - m + 1
           /\ \A i \in 1..(n - m + 1) : SubSeq(s, m, n)[i] = s[m + i - 1]
  <1>1. \A i \in m..n : s[i] \in S
    BY LenProperties, ElementOfSeq
  <1> QED
    BY <1>1, SubSeqProperties

LEMMA PieceJoin ==
    ASSUME NEW S, NEW all \in Seq(S), NEW p \in Nat, NEW l \in Seq(S), NEW m \in Seq(S),
           Piece(all, p, l), Piece(all, p + Len(l), m)
    PROVE  Piece(all, p, l \o m)
  <1>1. /\ Len(l) \in Nat /\ Len(m) \in Nat /\ Len(all) \in Nat
        /\ Len(l \o m) = Len(l) + Len(m)
        /\ \A i \in 1..(Len(l) + Len(m)) :
              (l \o m)[i] = IF i <= Len(l) THEN l[i] ELSE m[i - Len(l)]
    BY ConcatProperties, LenProperties
  <1>2. ASSUME NEW i \in 1..(Len(l) + Len(m)) PROVE (l \o m)[i] = all[p + i]
    <2>1. CASE i <= Len(l)
      BY <1>1, <2>1 DEF Piece
    <2>2. CASE ~(i <= Len(l))
      <3>1. i - Len(l) \in 1..Len(m) /\ (p + Len(l)) + (i - Len(l)) = p + i
        BY <1>1, <2>2
      <3>2. m[i - Len(l)] = all[(p + Len(l)) + (i - Len(l))]
        BY <3>1 DEF Piece
      <3> QED
        BY <1>1, <2>2, <3>1, <3>2
    <2> QED
      BY <2>1, <2>2
  <1> QED
    BY <1>1, <1>2 DEF Piece

\* The writes in w are, one after the other, what all has between p and q.
Written(all, p, w, q) ==
    \E cp \in [1..(Len(w) + 1) -> Nat] :
        /\ cp[1] = p /\ cp[Len(w) + 1] = q
        /\ \A k \in 1..Len(w) : cp[k + 1] = cp[k] + Len(w[k]) /\ Piece(all, cp[k], w[k])

LEMMA WrittenFlat ==
    ASSUME NEW S, NEW all \in Seq(S), NEW p \in Nat, NEW q \in Nat, NEW w \in Seq(Seq(S)), w # <<>>,
           Written(all, p, w, q)
    PROVE  /\ FlattenSeq(w) \in Seq(S)
           /\ Piece(all, p, FlattenSeq(w))
           /\ q = p + Len(FlattenSeq(w))
  <1>1. PICK cp \in [1..(Len(w) + 1) -> Nat] :
           /\ cp[1] = p /\ cp[Len(w) + 1] = q
           /\ \A k \in 1..Len(w) : cp[k + 1] = cp[k] + Len(w[k]) /\ Piece(all, cp[k], w[k])
    BY DEF Written
  <1>2. PICK acc : Grows(acc, S, w, Len(w)) /\ FlattenSeq(w) = acc[Len(w)]
    BY FlattenGrows
  <1> DEFINE n == Len(w)
             T == {i \in 0..n : Piece(all, p, acc[i]) /\ cp[i + 1] = p + Len(acc[i])}
  <1>3. /\ n \in Nat /\ \A i \in 0..n : acc[i] \in Seq(S)
        /\ \A i \in 1..n : w[i] \in Seq(S)
    BY <1>2, LenProperties, ElementOfSeq DEF Grows
  <1>5. ASSUME NEW i \in 1..n, i - 1 \in T PROVE i \in T
    <2>1. i - 1 \in 0..n /\ (i - 1) + 1 = i
      BY <1>3
    <2>2. Piece(all, p, acc[i - 1]) /\ cp[i] = p + Len(acc[i - 1])
      BY <1>5, <2>1
    <2>3. acc[i] = acc[i - 1] \o w[i] /\ acc[i - 1] \in Seq(S) /\ w[i] \in Seq(S)
      BY <1>2, <1>3, <2>1 DEF Grows
    <2>4. Piece(all, cp[i], w[i]) /\ cp[i + 1] = cp[i] + Len(w[i])
      BY <1>1
    <2>5. Piece(all, p, acc[i])
      BY <2>2, <2>3, <2>4, PieceJoin
    <2>6. Len(acc[i]) = Len(acc[i - 1]) + Len(w[i]) /\ Len(acc[i - 1]) \in Nat /\ Len(w[i]) \in Nat
      BY <2>3, ConcatProperties, LenProperties
    <2>7. cp[i + 1] = p + Len(acc[i])
      <3>1. \A a, b, c \in Nat : (a + b) + c = a + (b + c)
        OBVIOUS
      <3>2. (p + Len(acc[i - 1])) + Len(w[i]) = p + (Len(acc[i - 1]) + Len(w[i]))
        BY <2>6, <3>1
      <3> HIDE DEF n, T
      <3> QED
        BY <2>2, <2>4, <2>6, <3>2
    <2> QED
      BY <1>3, <2>5, <2>7
  <1>4. 0 \in T
    <2>1. acc[0] = <<>> /\ Len(<<>>) = 0 /\ cp[0 + 1] = p
      BY <1>1, <1>2 DEF Grows
    <2>2. Piece(all, p, <<>>)
      <3>1. n \in Nat \ {0} /\ Len(all) \in Nat
        BY EmptySeq, LenProperties
      <3>2. 1 \in 1..n
        BY <3>1
      <3>3. Piece(all, p, w[1]) /\ Len(w[1]) \in Nat
        BY <1>1, <1>3, <3>2, LenProperties
      <3>4. p + 0 <= Len(all)
        BY <3>1, <3>3 DEF Piece
      <3> QED
        BY <2>1, <3>4 DEF Piece
    <2>3. Piece(all, p, acc[0]) /\ cp[0 + 1] = p + Len(acc[0])
      BY <2>1, <2>2
    <2> QED
      BY <1>3, <2>3
  <1> HIDE DEF T
  <1>6. n \in T
    <2>1. \A i \in 0..n : i \in T
      BY <1>3, <1>4, <1>5, CountUp
    <2> QED
      BY <1>3, <2>1
  <1>7. Piece(all, p, acc[n]) /\ cp[n + 1] = p + Len(acc[n])
    BY <1>6 DEF T
  <1>8. acc[n] \in Seq(S)
    BY <1>3
  <1> QED
    BY <1>1, <1>2, <1>7, <1>8

-----------------------------------------------------------------------------
(***************************************************************************)
(* Registry.                                                               *)
(***************************************************************************)

\* The steps of a listing leave the registry alone.
LEMMA ListingReads ==
    ASSUME FirstPage \/ NextPage \/ Look \/ Reply \/ Rest
    PROVE  UNCHANGED <<kv, index, req, torn>>
  BY DEF FirstPage, NextPage, Look, Reply, Rest

-----------------------------------------------------------------------------
(* Task keys.                                                              *)

Unique(tasks) == \A t, u \in tasks : t.key = u.key => t = u

\* dedupTasks leaves one descriptor for each key.
LEMMA DedupUnique == ASSUME NEW in \in Requests PROVE Unique(dedupTasks(in))
  <1> SUFFICES ASSUME NEW t \in dedupTasks(in), NEW u \in dedupTasks(in), t.key = u.key
               PROVE  t = u
    BY DEF Unique
  <1>1. DOMAIN in \subseteq Int
    BY DEF Requests
  <1>2. PICK i \in DOMAIN in : t = in[i] /\ \A k \in DOMAIN in : k > i => in[k].key # in[i].key
    BY DEF dedupTasks
  <1>3. PICK j \in DOMAIN in : u = in[j] /\ \A k \in DOMAIN in : k > j => in[k].key # in[j].key
    BY DEF dedupTasks
  <1>4. ~ i > j /\ ~ j > i
    BY <1>2, <1>3
  <1>5. i = j
    BY <1>1, <1>4
  <1> QED
    BY <1>2, <1>3, <1>5

\* What a request upserts replaces what has the same key.
LEMMA UpsertedUnique ==
    ASSUME NEW tasks, Unique(tasks), NEW in \in Requests, NEW gone
    PROVE  Unique(Upserted(tasks, in, gone))
  BY DedupUnique DEF Unique, Upserted

\* A record has at most one descriptor for a task key.
THEOREM TasksAreUnique == RSpec => []UniqueTasks
  <1> DEFINE Inv == UniqueTasks /\ DOMAIN kv = Workers
                    /\ \A w \in Workers : kv[w] # NoRecord => Unique(kv[w].tasks)
  <1> USE NoRecordAssumption
  <1>1. RInit => Inv
    BY DEF RInit, UniqueTasks, Known
  <1>2. ASSUME Inv, [RNext]_rvars PROVE Inv'
    <2>1. ASSUME NEW w \in Workers, NEW r, kv' = [kv EXCEPT ![w] = r],
                 r # NoRecord => Unique(r.tasks)
          PROVE  Inv'
      BY <1>2, <2>1 DEF UniqueTasks, Unique, Known
    <2>2. ASSUME UNCHANGED kv PROVE Inv'
      BY <1>2, <2>2 DEF UniqueTasks, Known
    <2>3. ASSUME NEW h \in Handlers, NEW w \in Workers, Register(h, w) PROVE Inv'
      <3>1. PICK in \in Requests, ls \in SUBSET Labels :
                kv' = [kv EXCEPT ![w] = [tasks |-> dedupTasks(in), labels |-> ls]]
        BY <2>3 DEF Register
      <3> QED
        BY <2>1, <3>1, DedupUnique
    <2>4. ASSUME NEW h \in Handlers, NEW w \in Workers, Update(h, w) PROVE Inv'
      <3>1. CASE UNCHANGED kv
        BY <2>2, <3>1
      <3>2. ASSUME kv[w] # NoRecord, NEW in \in Requests, NEW gone \in SUBSET TaskKeys, NEW ls,
                   kv' = [kv EXCEPT ![w] =
                            [tasks  |-> IF in = <<>> /\ gone = {} THEN kv[w].tasks
                                                  ELSE Upserted(kv[w].tasks, in, gone),
                             labels |-> ls]]
            PROVE  Inv'
        <4>1. Unique(kv[w].tasks)
          BY <1>2, <3>2
        <4>2. Unique(Upserted(kv[w].tasks, in, gone))
          BY <4>1, UpsertedUnique
        <4> QED
          BY <2>1, <3>2, <4>1, <4>2
      <3> QED
        BY <2>4, <3>1, <3>2 DEF Update
    <2>5. ASSUME NEW h \in Handlers, NEW w \in Workers, Deregister(h, w) PROVE Inv'
      BY <2>1, <2>5 DEF Deregister
    <2>6. ASSUME NEW h \in Handlers, NEW w \in Workers, DeregisterTasks(h, w) PROVE Inv'
      <3>1. kv[w] # NoRecord /\ Unique(kv[w].tasks)
        BY <1>2, <2>6 DEF DeregisterTasks
      <3>2. PICK gone \in (SUBSET TaskKeys) \ {{}} :
                kv' = [kv EXCEPT ![w] = [tasks  |-> {t \in kv[w].tasks : t.key \notin gone},
                                         labels |-> kv[w].labels]]
        BY <2>6 DEF DeregisterTasks
      <3>3. Unique({t \in kv[w].tasks : t.key \notin gone})
        BY <3>1 DEF Unique
      <3> QED
        BY <2>1, <3>2, <3>3
    <2>7. ASSUME NEW h \in Handlers, Index(h) \/ Unindex(h) PROVE Inv'
      BY <2>2, <2>7 DEF Index, Unindex
    <2>8. CASE FirstPage \/ NextPage \/ Look \/ Reply \/ Rest
      BY <2>2, <2>8, ListingReads
    <2>9. CASE UNCHANGED rvars
      BY <2>2, <2>9 DEF rvars
    <2> QED
      BY <1>2, <2>3, <2>4, <2>5, <2>6, <2>7, <2>8, <2>9 DEF RNext
  <1> QED
    BY <1>1, <1>2, PTL DEF RSpec

-----------------------------------------------------------------------------
(* The index.                                                              *)

\* Handler h is about to enter w in the index.
Enters(h, w) == req[h].pc = "index" /\ req[h].worker = w

\* A worker with a record, unless it was registered in the middle of a
\* Deregister: no handler is about to take it out of the index, and it is there
\* or a handler is about to enter it.
Found(w) ==
    /\ Leaving(w) = {}
    /\ w \in index \/ \E h \in Handlers : Enters(h, w)

IndexInv ==
    /\ DOMAIN kv = Workers
    /\ DOMAIN req = Handlers
    /\ \A w \in Known \ torn : Found(w)

\* A worker is found by listings from the moment its registration is answered,
\* whichever sessions the requests about it come from, unless it is registered
\* between the two steps of a Deregister: apart from that the record and the
\* place in the index, written under different locks, do not drift apart.
THEOREM RegisteredIsIndexed == RSpec => []RecordIndexed
  <1>1. RInit => IndexInv
    BY DEF RInit, IndexInv, Known
  <1>2. ASSUME IndexInv, [RNext]_rvars PROVE IndexInv'
    <2>1. ASSUME NEW h \in Handlers, NEW w \in Workers, req[h].pc = "idle",
                 DOMAIN kv' = Workers, Known' \subseteq Known \cup {w}, Goes(h, "index", w),
                 torn' \in {torn, torn \cup {w}},
                 w \in Known' \ torn' => Leaving(w) = {},
                 UNCHANGED index
          PROVE  IndexInv'
      <3>1. \A g \in Handlers : g # h => req'[g] = req[g]
        BY <1>2, <2>1 DEF IndexInv, Goes
      <3>2. req'[h] = [pc |-> "index", worker |-> w] /\ DOMAIN req' = Handlers
        BY <1>2, <2>1 DEF IndexInv, Goes
      <3>3. ASSUME NEW v \in Known' \ torn' PROVE Found(v)'
        <4>1. Leaving(v)' \subseteq Leaving(v)
          BY <3>1, <3>2 DEF Leaving
        <4>2. CASE v = w
          BY <2>1, <3>2, <3>3, <4>1, <4>2 DEF Found, Enters
        <4>3. CASE v # w
          <5>1. Found(v)
            BY <1>2, <2>1, <3>3, <4>3 DEF IndexInv
          <5>2. ASSUME NEW g \in Handlers, Enters(g, v) PROVE Enters(g, v)'
            BY <2>1, <3>1, <5>2 DEF Enters
          <5> QED
            BY <2>1, <4>1, <5>1, <5>2 DEF Found
        <4> QED
          BY <4>2, <4>3
      <3> QED
        BY <2>1, <3>2, <3>3 DEF IndexInv
    <2>2. ASSUME NEW h \in Handlers, NEW w \in Workers, Register(h, w) PROVE IndexInv'
      <3>1. PICK in \in Requests, ls \in SUBSET Labels :
                kv' = [kv EXCEPT ![w] = [tasks |-> dedupTasks(in), labels |-> ls]]
        BY <2>2 DEF Register
      <3>2. DOMAIN kv' = Workers /\ Known' \subseteq Known \cup {w}
        BY <1>2, <3>1 DEF IndexInv, Known
      <3>3. torn' = IF Leaving(w) # {} THEN torn \cup {w} ELSE torn
        BY <2>2 DEF Register
      <3> QED
        BY <2>1, <2>2, <3>2, <3>3 DEF Register, Starts
    <2>3. ASSUME NEW h \in Handlers, NEW w \in Workers, Update(h, w) PROVE IndexInv'
      <3>1. kv' = kv \/ (kv[w] # NoRecord /\ \E r : kv' = [kv EXCEPT ![w] = r])
        BY <2>3 DEF Update
      <3>2. DOMAIN kv' = Workers /\ Known' \subseteq Known
        BY <1>2, <3>1 DEF IndexInv, Known
      <3>3. w \in Known' \ torn => Leaving(w) = {}
        BY <1>2, <3>2 DEF IndexInv, Found
      <3> QED
        BY <2>1, <2>3, <3>2, <3>3 DEF Update, Starts
    <2>4. ASSUME NEW h \in Handlers, Index(h) PROVE IndexInv'
      <3>1. \A g \in Handlers : req'[g] = IF g = h THEN Idle ELSE req[g]
        BY <1>2, <2>4 DEF IndexInv, Index
      <3>2. Known' = Known /\ DOMAIN kv' = Workers /\ DOMAIN req' = Handlers
        BY <1>2, <2>4 DEF IndexInv, Index, Known
      <3>3. PICK w : w = req[h].worker
        OBVIOUS
      <3>4. /\ index' = index \cup {w}
            /\ torn' = IF Leaving(w) = {} THEN torn \ {w} ELSE torn
        BY <2>4, <3>3 DEF Index
      <3>5. ASSUME NEW v \in Known' \ torn' PROVE Found(v)'
        <4>1. Leaving(v)' \subseteq Leaving(v)
          BY <3>1 DEF Leaving, Idle
        <4>2. CASE v = w
          <5>1. Leaving(v) = {}
            BY <1>2, <3>2, <3>4, <3>5, <4>2 DEF IndexInv, Found
          <5> QED
            BY <3>4, <4>1, <4>2, <5>1 DEF Found
        <4>3. CASE v # w
          <5>1. Found(v)
            BY <1>2, <3>2, <3>4, <3>5, <4>3 DEF IndexInv
          <5>2. ASSUME NEW g \in Handlers, Enters(g, v) PROVE Enters(g, v)'
            BY <3>1, <3>3, <4>3, <5>2 DEF Enters
          <5> QED
            BY <3>4, <4>1, <5>1, <5>2 DEF Found
        <4> QED
          BY <4>2, <4>3
      <3> QED
        BY <3>2, <3>5 DEF IndexInv
    <2>5. ASSUME NEW h \in Handlers, NEW w \in Workers, Deregister(h, w) PROVE IndexInv'
      <3>1. \A g \in Handlers : req'[g] = IF g = h THEN [pc |-> "unindex", worker |-> w] ELSE req[g]
        BY <1>2, <2>5 DEF IndexInv, Deregister, Goes
      <3>2. /\ Known' = Known \ {w} /\ index' = index /\ torn' = torn
            /\ DOMAIN kv' = Workers /\ DOMAIN req' = Handlers
        BY <1>2, <2>5 DEF IndexInv, Deregister, Known, Goes
      <3>3. req[h].pc = "idle"
        BY <2>5 DEF Deregister, Starts
      <3>4. ASSUME NEW v \in Known' \ torn' PROVE Found(v)'
        <4>1. v # w /\ Found(v)
          BY <1>2, <3>2, <3>4 DEF IndexInv
        <4>2. Leaving(v)' \subseteq Leaving(v)
          BY <3>1, <4>1 DEF Leaving
        <4>3. ASSUME NEW g \in Handlers, Enters(g, v) PROVE Enters(g, v)'
          BY <3>1, <3>3, <4>3 DEF Enters
        <4> QED
          BY <3>2, <4>1, <4>2, <4>3 DEF Found
      <3> QED
        BY <3>2, <3>4 DEF IndexInv
    <2>6. ASSUME NEW h \in Handlers, Unindex(h) PROVE IndexInv'
      <3>1. \A g \in Handlers : req'[g] = IF g = h THEN Idle ELSE req[g]
        BY <1>2, <2>6 DEF IndexInv, Unindex
      <3>2. Known' = Known /\ torn' = torn /\ DOMAIN kv' = Workers /\ DOMAIN req' = Handlers
        BY <1>2, <2>6 DEF IndexInv, Unindex, Known
      <3>3. /\ req[h].pc = "unindex" /\ h \in Leaving(req[h].worker)
            /\ index' = index \ {req[h].worker}
        BY <2>6 DEF Unindex, Leaving
      <3>4. ASSUME NEW v \in Known' \ torn' PROVE Found(v)'
        <4>1. Found(v)
          BY <1>2, <3>2, <3>4 DEF IndexInv
        <4>2. v # req[h].worker
          BY <3>3, <4>1 DEF Found
        <4>3. Leaving(v)' \subseteq Leaving(v)
          BY <3>1 DEF Leaving, Idle
        <4>4. ASSUME NEW g \in Handlers, Enters(g, v) PROVE Enters(g, v)'
          BY <3>1, <3>3, <4>4 DEF Enters
        <4> QED
          BY <3>3, <4>1, <4>2, <4>3, <4>4 DEF Found
      <3> QED
        BY <3>2, <3>4 DEF IndexInv
    <2>7. ASSUME Known' \subseteq Known, DOMAIN kv' = Workers, UNCHANGED <<index, req, torn>>
          PROVE  IndexInv'
      BY <1>2, <2>7 DEF IndexInv, Found, Leaving, Enters
    <2>8. ASSUME NEW h \in Handlers, NEW w \in Workers, DeregisterTasks(h, w) PROVE IndexInv'
      <3>1. PICK r : kv' = [kv EXCEPT ![w] = r] /\ kv[w] # NoRecord
        BY <2>8 DEF DeregisterTasks
      <3>2. Known' \subseteq Known /\ DOMAIN kv' = Workers
        BY <1>2, <3>1 DEF IndexInv, Known
      <3> QED
        BY <2>7, <2>8, <3>2 DEF DeregisterTasks
    <2>9. CASE FirstPage \/ NextPage \/ Look \/ Reply \/ Rest
      BY <1>2, <2>7, <2>9, ListingReads DEF IndexInv, Known
    <2>10. CASE UNCHANGED rvars
      BY <1>2, <2>7, <2>10 DEF IndexInv, Known, rvars
    <2> QED
      BY <1>2, <2>2, <2>3, <2>4, <2>5, <2>6, <2>8, <2>9, <2>10 DEF RNext
  <1>3. IndexInv => RecordIndexed
    BY DEF IndexInv, Found, Enters, RecordIndexed, Pending
  <1> QED
    BY <1>1, <1>2, <1>3, PTL DEF RSpec

-----------------------------------------------------------------------------
(* Listings.                                                               *)

\* Nobody changes the registry while a listing is quiet.
QuietInv ==
    /\ list.quiet => \A h \in Handlers : req[h].pc = "idle"
    /\ \A h \in Handlers : req[h].pc # "idle" => req[h].worker \in Workers

IndexFinite == index \subseteq Workers /\ IsFiniteSet(index)

\* A page takes at least one worker.
ListOK == list \in Listing /\ (list.pc # "rest" => list.size > 0)

\* A client without a filter follows the tokens ...
Unfiltered == list.quiet /\ list.need = {} /\ list.fn = NoTask

\* ... and every id it meets has a record.
Walking == Unfiltered /\ index \subseteq Known

\* Of the first n ids of the index, those that have a record are in S.
Reached(S, n) == \A i \in 1..n : Sorted(index)[i] \in Known => Sorted(index)[i] \in S

Indexed(S) == S \subseteq index \cap Known

\* While a page is put together: of total ids some have been looked at, and
\* the client and the page have those of them that have a record.  What is
\* matched may lag behind, but not before the page starts.
CoverInv ==
    LET n == Cardinality(index)
        p == n - Len(list.ids)
    IN  /\ list.total = n /\ list.start <= n /\ Len(list.ids) <= n /\ list.matched <= p
        /\ list.matched < list.start => p = list.matched
        /\ \A i \in 1..Len(list.ids) : list.ids[i] = Sorted(index)[p + i]
        /\ Indexed(ToSet(list.got) \cup ToSet(list.out))
        /\ Reached(ToSet(list.got), list.start)
        /\ Reached(ToSet(list.got) \cup ToSet(list.out), p)

\* After a reply the client has what has a record up to its token, or all.
CoveredInv ==
    LET n == Cardinality(index)
    IN  /\ Indexed(ToSet(list.got))
        /\ IF list.token = NoToken THEN Reached(ToSet(list.got), n)
           ELSE list.token <= n /\ Reached(ToSet(list.got), list.token)

\* s is the first n ids of the index.
FirstIds(s, n) == Len(s) = n /\ \A i \in 1..n : s[i] = Sorted(index)[i]

\* While a page is put together: the client has the ids before the page, the
\* page those from there to the last that was matched, and the rest is to come.
PageInv ==
    LET n == Cardinality(index)
    IN  /\ list.total = n /\ list.start <= n /\ list.matched <= n
        /\ FirstIds(list.got, list.start)
        /\ Len(list.out) = IF list.matched < list.start THEN 0 ELSE list.matched - list.start
        /\ \A i \in 1..Len(list.out) : list.out[i] = Sorted(index)[list.start + i]
        /\ Len(list.ids) = n - list.matched
        /\ \A i \in 1..Len(list.ids) : list.ids[i] = Sorted(index)[list.matched + i]

\* After a reply the client has the ids up to its token, or all of them.
ReplyInv ==
    IF list.token = NoToken THEN FirstIds(list.got, Cardinality(index))
    ELSE list.token < Cardinality(index) /\ FirstIds(list.got, list.token)

WalkInv ==
    /\ DOMAIN kv = Workers /\ DOMAIN req = Handlers
    /\ QuietInv /\ IndexFinite /\ ListOK
    /\ Walking /\ list.pc = "scan" => PageInv
    /\ Walking /\ list.pc = "replied" => ReplyInv
    /\ Unfiltered /\ list.pc = "scan" => CoverInv
    /\ Unfiltered /\ list.pc = "replied" => CoveredInv

\* s lists T in ascending order.
Ascending(s, T) ==
    /\ s \in [1..Cardinality(T) -> T]
    /\ \A i, j \in 1..Cardinality(T) : i < j => s[i] < s[j]

\* Every finite set of numbers can be sorted: put the least one first.
LEMMA AscendingExists ==
    ASSUME NEW T \in SUBSET Nat, IsFiniteSet(T)
    PROVE  \E s : Ascending(s, T)
  <1> DEFINE Bad(U) == U \in SUBSET Nat /\ IsFiniteSet(U) /\ ~\E s : Ascending(s, U)
             B == {n \in Nat : \E U : Bad(U) /\ Cardinality(U) = n}
  <1> SUFFICES ASSUME Bad(T) PROVE FALSE
    OBVIOUS
  <1>1. B \subseteq Nat /\ B # {}
    BY FS_CardinalityType
  <1>2. PICK n \in B : \A k \in B : n <= k
    BY <1>1, LeastNumber
  <1>3. PICK U : Bad(U) /\ Cardinality(U) = n
    BY <1>2
  <1>4. n \in Nat /\ U \in SUBSET Nat /\ IsFiniteSet(U)
    BY <1>2, <1>3
  <1>5. CASE n = 0
    <2>1. Ascending([i \in 1..0 |-> 0], U)
      BY <1>3, <1>5 DEF Ascending
    <2> QED
      BY <1>3, <2>1
  <1>6. CASE n # 0
    <2>1. U # {}
      BY <1>3, <1>6, FS_EmptySet
    <2>2. PICK a \in U : \A y \in U : a <= y
      BY <1>4, <2>1, LeastNumber
    <2>3. /\ IsFiniteSet(U \ {a}) /\ U \ {a} \in SUBSET Nat
          /\ Cardinality(U \ {a}) = n - 1
      BY <1>3, <1>4, <2>2, FS_RemoveElement
    <2>4. n - 1 \in Nat /\ ~(n <= n - 1)
      BY <1>4, <1>6
    <2>5. n - 1 \notin B
      BY <1>2, <2>4
    <2>6. PICK s : Ascending(s, U \ {a})
      BY <2>3, <2>4, <2>5
    <2>7. /\ s \in [1..(n - 1) -> U \ {a}]
          /\ \A i, j \in 1..(n - 1) : i < j => s[i] < s[j]
      BY <2>3, <2>6 DEF Ascending
    <2> DEFINE t == [i \in 1..n |-> IF i = 1 THEN a ELSE s[i - 1]]
    <2>8. t \in [1..n -> U]
      BY <1>4, <2>2, <2>7
    <2>9. ASSUME NEW i \in 1..n, NEW j \in 1..n, i < j PROVE t[i] < t[j]
      <3>1. j # 1 /\ j - 1 \in 1..(n - 1) /\ t[j] = s[j - 1]
        BY <1>4, <2>9
      <3>2. CASE i = 1
        <4>1. s[j - 1] \in U /\ s[j - 1] # a
          BY <2>7, <3>1
        <4>2. a \in Nat /\ s[j - 1] \in Nat /\ a <= s[j - 1] /\ t[i] = a
          BY <1>4, <2>2, <3>2, <4>1
        <4> QED
          BY <3>1, <4>1, <4>2
      <3>3. CASE i # 1
        <4>1. i - 1 \in 1..(n - 1) /\ t[i] = s[i - 1] /\ i - 1 < j - 1
          BY <1>4, <2>9, <3>3
        <4> QED
          BY <2>7, <3>1, <4>1
      <3> QED
        BY <3>2, <3>3
    <2> HIDE DEF t
    <2>10. Ascending(t, U)
      BY <1>3, <2>8, <2>9 DEF Ascending
    <2> QED
      BY <1>3, <2>10
  <1> QED
    BY <1>5, <1>6

\* So Sorted lists the set.
LEMMA SortedLists ==
    ASSUME NEW T \in SUBSET Nat, IsFiniteSet(T)
    PROVE  /\ Cardinality(T) \in Nat
           /\ Ascending(Sorted(T), T)
           /\ Sorted(T) \in Seq(T) /\ Len(Sorted(T)) = Cardinality(T)
  <1>1. Cardinality(T) \in Nat
    BY FS_CardinalityType
  <1>2. PICK s : Ascending(s, T)
    BY AscendingExists
  <1>3. Ascending(Sorted(T), T)
    <2>1. /\ s \in [1..Cardinality(T) -> T]
          /\ \A i, j \in DOMAIN s : i < j => s[i] < s[j]
      BY <1>2 DEF Ascending
    <2>2. /\ Sorted(T) \in [1..Cardinality(T) -> T]
          /\ \A i, j \in DOMAIN Sorted(T) : i < j => Sorted(T)[i] < Sorted(T)[j]
      BY <2>1 DEF Sorted
    <2> QED
      BY <2>2 DEF Ascending
  <1>4. Sorted(T) \in [1..Cardinality(T) -> T]
    BY <1>3 DEF Ascending
  <1>5. Sorted(T) \in Seq(T) /\ Len(Sorted(T)) = Cardinality(T)
    BY <1>1, <1>4
  <1> QED
    BY <1>1, <1>3, <1>5

\* Every element has its place.
LEMMA SortedAll ==
    ASSUME NEW T \in SUBSET Nat, IsFiniteSet(T)
    PROVE  /\ \A x \in T : \E i \in 1..Cardinality(T) : Sorted(T)[i] = x
           /\ \A i \in 1..Cardinality(T) : Sorted(T)[i] \in T
  <1> DEFINE n == Cardinality(T)
             s == Sorted(T)
  <1>1. n \in Nat /\ s \in [1..n -> T] /\ \A i, j \in 1..n : i < j => s[i] < s[j]
    BY SortedLists DEF Ascending
  <1>2. IsFiniteSet(1..n) /\ Cardinality(1..n) = n
    BY <1>1, FS_Interval
  <1> HIDE DEF s
  <1>3. IsInjective(s)
    <2> SUFFICES ASSUME NEW i \in 1..n, NEW j \in 1..n, i # j, s[i] = s[j] PROVE FALSE
      BY <1>1 DEF IsInjective
    <2>1. s[i] \in T /\ ~(s[i] < s[j]) /\ ~(s[j] < s[i])
      <3>1. s[i] \in T /\ s[i] \in Nat
        BY <1>1
      <3> QED
        BY <3>1
    <2>2. i < j \/ j < i
      OBVIOUS
    <2> QED
      BY <1>1, <2>1, <2>2
  <1>4. s \in Injection(1..n, T)
    BY <1>1, <1>3 DEF Injection
  <1>5. s \in Surjection(1..n, T)
    BY <1>2, <1>4, FS_Injection
  <1> QED
    BY <1>1, <1>5 DEF Surjection, s

\* Where a page starts.
LEMMA ScanningStarts ==
    ASSUME IndexFinite, NEW l \in Listing, NEW start \in Nat
    PROVE  LET s == Scanning(l, start)
           IN  /\ s \in Listing
               /\ s.pc = "scan" /\ s.start = start /\ s.matched = 0 /\ s.out = <<>>
               /\ s.ids = Sorted(index) /\ s.total = Cardinality(index)
               /\ s.got = l.got /\ s.need = l.need /\ s.fn = l.fn /\ s.quiet = l.quiet
               /\ s.size = l.size
  <1>1. /\ index \in SUBSET Nat /\ IsFiniteSet(index)
    BY RegistryAssumption DEF IndexFinite
  <1>2. Sorted(index) \in Seq(index) /\ Cardinality(index) \in Nat
    BY <1>1, SortedLists
  <1>3. Sorted(index) \in Seq(Workers)
    BY <1>2 DEF IndexFinite
  <1>4. <<>> \in Seq(Workers)
    OBVIOUS
  <1> DEFINE ids == Sorted(index)
             n == Cardinality(index)
             a == [l EXCEPT !.pc = "scan", !.start = start]
             b == [a EXCEPT !.ids = ids, !.total = n]
             d == [b EXCEPT !.matched = 0, !.out = <<>>]
             s == [d EXCEPT !.pages = @ + 1]
  <1>5. Scanning(l, start) = s
    BY DEF Scanning
  <1>6. n \in Nat /\ ids \in Seq(Workers)
    BY <1>2, <1>3
  <1> HIDE DEF ids, n
  <1>7. s \in Listing
    <2>1. a \in Listing
      BY DEF Listing
    <2> HIDE DEF a
    <2>2. b \in Listing
      BY <1>6, <2>1 DEF Listing
    <2> HIDE DEF b
    <2>3. d \in Listing
      BY <1>4, <2>2 DEF Listing
    <2> HIDE DEF d
    <2>4. PICK p \in Nat : p = d.pages + 1
      BY <2>3 DEF Listing
    <2>5. s = [d EXCEPT !.pages = p]
      BY <2>4
    <2> HIDE DEF s
    <2> QED
      BY <2>3, <2>5 DEF Listing
  <1>8. /\ s.pc = "scan" /\ s.start = start /\ s.matched = 0 /\ s.out = <<>>
        /\ s.ids = ids /\ s.total = n
        /\ s.got = l.got /\ s.need = l.need /\ s.fn = l.fn /\ s.quiet = l.quiet
        /\ s.size = l.size
    BY DEF Listing
  <1> HIDE DEF s
  <1> QED
    BY <1>5, <1>7, <1>8 DEF ids, n

LEMMA InitWalk == RInit => WalkInv
  <1> SUFFICES ASSUME RInit PROVE WalkInv
    OBVIOUS
  <1>1. Resting \in Listing
    BY DEF Resting, Listing
  <1>2. IndexFinite
    BY FS_EmptySet DEF RInit, IndexFinite
  <1>3. list = Resting /\ Resting.pc = "rest" /\ Resting.quiet = FALSE
    BY DEF RInit, Resting
  <1>4. QuietInv
    BY <1>3 DEF RInit, QuietInv, Idle
  <1> QED
    BY <1>1, <1>2, <1>3, <1>4 DEF RInit, WalkInv, ListOK

\* A request ends the quiet of a listing.
LEMMA RequestWalk ==
    ASSUME WalkInv, NEW h \in Handlers, NEW w \in Workers,
           Register(h, w) \/ Update(h, w) \/ Deregister(h, w) \/ DeregisterTasks(h, w)
    PROVE  WalkInv'
  <1>1. Starts(h) /\ index' = index
    BY DEF Register, Update, Deregister, DeregisterTasks
  <1>2. ~list'.quiet /\ list' \in Listing /\ list'.pc = list.pc /\ list'.size = list.size
    BY <1>1 DEF Starts, WalkInv, ListOK, Listing
  <1>3. kv' = kv \/ \E r : kv' = [kv EXCEPT ![w] = r]
    BY DEF Register, Update, Deregister, DeregisterTasks
  <1>4. DOMAIN kv' = Workers
    BY <1>3 DEF WalkInv
  <1>5. req' = req \/ \E pc : Goes(h, pc, w)
    BY DEF Register, Update, Deregister, DeregisterTasks
  <1>6. DOMAIN req' = Handlers /\ \A g \in Handlers : req'[g] = req[g] \/ req'[g].worker = w
    BY <1>5 DEF WalkInv, Goes
  <1>7. QuietInv'
    BY <1>2, <1>6 DEF WalkInv, QuietInv
  <1> QED
    BY <1>1, <1>2, <1>4, <1>6, <1>7 DEF WalkInv, ListOK, IndexFinite, Walking, Unfiltered

\* The second steps of requests do not happen while a listing is quiet.
LEMMA IndexWalk ==
    ASSUME WalkInv, NEW h \in Handlers, Index(h) \/ Unindex(h)
    PROVE  WalkInv'
  <1>1. ~list.quiet /\ UNCHANGED <<kv, list>> /\ req[h].worker \in Workers
    BY DEF WalkInv, QuietInv, Index, Unindex
  <1>2. index' = index \cup {req[h].worker} \/ index' = index \ {req[h].worker}
    BY DEF Index, Unindex
  <1>3. IndexFinite'
    BY <1>1, <1>2, FS_AddElement, FS_RemoveElement DEF WalkInv, IndexFinite
  <1>4. \A g \in Handlers : req'[g] = IF g = h THEN Idle ELSE req[g]
    BY DEF WalkInv, Index, Unindex
  <1>5. DOMAIN req' = Handlers
    BY DEF WalkInv, Index, Unindex
  <1>6. QuietInv'
    BY <1>1, <1>4 DEF WalkInv, QuietInv, Idle
  <1> QED
    BY <1>1, <1>3, <1>5, <1>6 DEF WalkInv, ListOK, Walking, Unfiltered

\* The steps of the listing: what is to show of each.
LEMMA ListingWalk ==
    ASSUME WalkInv, UNCHANGED <<kv, index, req>>, ListOK',
           list'.quiet => \A h \in Handlers : req[h].pc = "idle",
           Walking' /\ list'.pc = "scan" => PageInv',
           Walking' /\ list'.pc = "replied" => ReplyInv',
           Unfiltered' /\ list'.pc = "scan" => CoverInv',
           Unfiltered' /\ list'.pc = "replied" => CoveredInv'
    PROVE  WalkInv'
  BY DEF WalkInv, QuietInv, IndexFinite

LEMMA FirstPageWalk == ASSUME WalkInv, FirstPage PROVE WalkInv'
  <1>1. PICK need \in SUBSET Labels, fn \in Names \cup {NoTask}, n \in PageSizes :
           list' = Scanning([Resting EXCEPT !.need = need, !.fn = fn,
                                            !.size = IF n = 0 THEN 100 ELSE n,
                                            !.quiet = \A h \in Handlers : req[h].pc = "idle"], 0)
    BY Zenon DEF FirstPage
  <1>2. UNCHANGED <<kv, index, req>>
    BY DEF FirstPage
  <1> DEFINE size == IF n = 0 THEN 100 ELSE n
             q == \A h \in Handlers : req[h].pc = "idle"
             l == [Resting EXCEPT !.need = need, !.fn = fn, !.size = size, !.quiet = q]
  <1>3. size \in Nat /\ size > 0
    BY RegistryAssumption
  <1>4. q \in BOOLEAN
    OBVIOUS
  <1> HIDE DEF size, q
  <1>5. l \in Listing /\ l.got = <<>> /\ l.size = size /\ l.quiet = q
    <2> DEFINE r == [Resting EXCEPT !.need = need, !.fn = fn]
    <2>1. Resting \in Listing /\ Resting.got = <<>>
      BY DEF Resting, Listing
    <2>2. r \in Listing /\ r.got = <<>>
      BY <2>1 DEF Listing
    <2>3. l = [r EXCEPT !.size = size, !.quiet = q]
      OBVIOUS
    <2> HIDE DEF r, l
    <2> QED
      BY <1>3, <1>4, <2>2, <2>3 DEF Listing
  <1>6. list' = Scanning(l, 0)
    BY <1>1 DEF size, q
  <1> HIDE DEF l
  <1>7. /\ list' \in Listing /\ list'.pc = "scan" /\ list'.start = 0 /\ list'.matched = 0
        /\ list'.out = <<>> /\ list'.ids = Sorted(index) /\ list'.total = Cardinality(index)
        /\ list'.got = <<>> /\ list'.quiet = q /\ list'.size = size
    BY <1>5, <1>6, ScanningStarts DEF WalkInv
  <1>8. index \in SUBSET Nat /\ IsFiniteSet(index)
    BY RegistryAssumption DEF WalkInv, IndexFinite
  <1>9. Cardinality(index) \in Nat /\ Len(Sorted(index)) = Cardinality(index)
    BY <1>8, SortedLists
  <1>10. PageInv'
    BY <1>2, <1>7, <1>9 DEF PageInv, FirstIds
  <1>11. ListOK'
    BY <1>3, <1>7 DEF ListOK
  <1>12. list'.quiet => \A h \in Handlers : req[h].pc = "idle"
    BY <1>7 DEF q
  <1>13. CoverInv'
    <2>1. ToSet(list'.got) = {} /\ ToSet(list'.out) = {}
      BY <1>7 DEF ToSet
    <2> QED
      BY <1>2, <1>7, <1>9, <2>1 DEF CoverInv, Indexed, Reached
  <1> QED
    BY <1>2, <1>7, <1>10, <1>11, <1>12, <1>13, ListingWalk

LEMMA NextPageWalk == ASSUME WalkInv, NextPage PROVE WalkInv'
  <1>1. /\ list.pc = "replied" /\ list.token # NoToken /\ list' = Scanning(list, list.token)
        /\ UNCHANGED <<kv, index, req>>
    BY DEF NextPage
  <1>2. list \in Listing /\ list.token \in Nat /\ list.size > 0
    BY <1>1 DEF WalkInv, ListOK, Listing
  <1>3. /\ list' \in Listing /\ list'.pc = "scan" /\ list'.start = list.token /\ list'.matched = 0
        /\ list'.out = <<>> /\ list'.ids = Sorted(index) /\ list'.total = Cardinality(index)
        /\ list'.got = list.got /\ list'.quiet = list.quiet /\ list'.size = list.size
        /\ list'.need = list.need /\ list'.fn = list.fn
    BY <1>1, <1>2, ScanningStarts DEF WalkInv
  <1>4. index \in SUBSET Nat /\ IsFiniteSet(index)
    BY RegistryAssumption DEF WalkInv, IndexFinite
  <1>5. Cardinality(index) \in Nat /\ Len(Sorted(index)) = Cardinality(index)
    BY <1>4, SortedLists
  <1>6. ASSUME Walking' PROVE PageInv'
    <2>1. Walking
      BY <1>1, <1>3, <1>6 DEF Walking, Unfiltered, Known
    <2>2. list.token < Cardinality(index) /\ FirstIds(list.got, list.token)
      BY <1>1, <2>1 DEF WalkInv, ReplyInv
    <2> QED
      BY <1>1, <1>2, <1>3, <1>5, <2>2 DEF PageInv, FirstIds
  <1>7. ListOK'
    BY <1>2, <1>3 DEF ListOK
  <1>8. list'.quiet => \A h \in Handlers : req[h].pc = "idle"
    BY <1>3 DEF WalkInv, QuietInv
  <1>9. ASSUME Unfiltered' PROVE CoverInv'
    <2>1. Unfiltered
      BY <1>3, <1>9 DEF Unfiltered
    <2>2. /\ list.token <= Cardinality(index) /\ Indexed(ToSet(list.got))
          /\ Reached(ToSet(list.got), list.token)
      BY <1>1, <2>1 DEF WalkInv, CoveredInv
    <2>3. ToSet(list'.got) = ToSet(list.got) /\ ToSet(list'.out) = {}
      BY <1>3 DEF ToSet
    <2>4. Known' = Known
      BY <1>1 DEF Known
    <2> QED
      BY <1>1, <1>2, <1>3, <1>5, <2>2, <2>3, <2>4 DEF CoverInv, Indexed, Reached
  <1> QED
    BY <1>1, <1>3, <1>6, <1>7, <1>8, <1>9, ListingWalk

LEMMA RestWalk == ASSUME WalkInv, Rest PROVE WalkInv'
  <1>1. list' = Resting /\ UNCHANGED <<kv, index, req>>
    BY DEF Rest
  <1>2. Resting \in Listing /\ Resting.pc = "rest" /\ Resting.quiet = FALSE
    BY DEF Resting, Listing
  <1> QED
    BY <1>1, <1>2, ListingWalk DEF ListOK

LEMMA Appended ==
    ASSUME NEW S, NEW s \in Seq(S), NEW x \in S
    PROVE  ToSet(Append(s, x)) = ToSet(s) \cup {x}
  <1>1. PICK n \in Nat : n = Len(s)
    OBVIOUS
  <1>2. /\ DOMAIN s = 1..n /\ DOMAIN Append(s, x) = 1..(n + 1)
        /\ \A i \in 1..n : Append(s, x)[i] = s[i]
        /\ Append(s, x)[n + 1] = x
    BY <1>1, AppendProperties
  <1>3. \A i \in 1..(n + 1) : i \in 1..n \/ i = n + 1
    OBVIOUS
  <1>4. 1..n \subseteq 1..(n + 1) /\ n + 1 \in 1..(n + 1)
    OBVIOUS
  <1> QED
    BY <1>2, <1>3, <1>4 DEF ToSet

LEMMA Joins ==
    ASSUME NEW S, NEW s \in Seq(S), NEW t \in Seq(S)
    PROVE  ToSet(s \o t) = ToSet(s) \cup ToSet(t)
  <1>1. PICK n \in Nat, m \in Nat : n = Len(s) /\ m = Len(t)
    OBVIOUS
  <1>2. /\ DOMAIN s = 1..n /\ DOMAIN t = 1..m /\ DOMAIN (s \o t) = 1..(n + m)
        /\ \A i \in 1..(n + m) : (s \o t)[i] = IF i <= n THEN s[i] ELSE t[i - n]
    BY <1>1, ConcatProperties
  <1>3. \A i \in 1..(n + m) : IF i <= n THEN i \in 1..n ELSE i - n \in 1..m
    OBVIOUS
  <1>4. ToSet(s \o t) \subseteq ToSet(s) \cup ToSet(t)
    BY <1>2, <1>3 DEF ToSet
  <1>5. ASSUME NEW i \in 1..n PROVE s[i] \in ToSet(s \o t)
    <2>1. i \in 1..(n + m) /\ i <= n
      OBVIOUS
    <2> QED
      BY <1>2, <2>1 DEF ToSet
  <1>6. ASSUME NEW j \in 1..m PROVE t[j] \in ToSet(s \o t)
    <2>1. j + n \in 1..(n + m) /\ ~(j + n <= n) /\ (j + n) - n = j
      OBVIOUS
    <2> QED
      BY <1>2, <2>1 DEF ToSet
  <1> QED
    BY <1>2, <1>4, <1>5, <1>6 DEF ToSet

\* The next id is passed over or, having a record, taken into the page.
LEMMA LookWalk == ASSUME WalkInv, Look PROVE WalkInv'
  <1>1. /\ list.pc = "scan" /\ list.ids # <<>> /\ ~PageFull
        /\ UNCHANGED <<kv, index, req>>
    BY DEF Look
  <1>2. list \in Listing /\ list.size > 0
    BY <1>1 DEF WalkInv, ListOK
  <1>3. /\ list.matched \in Nat /\ list.start \in Nat /\ list.total \in Nat
        /\ list.ids \in Seq(Workers) /\ list.out \in Seq(Workers) /\ list.got \in Seq(Workers)
    BY <1>2 DEF Listing
  <1>4. PICK w : w = Head(list.ids)
    OBVIOUS
  <1>5. PICK ids : ids = Tail(list.ids)
    OBVIOUS
  <1>6. /\ w \in Workers /\ w = list.ids[1] /\ ids \in Seq(Workers) /\ Len(list.ids) > 0
        /\ Len(ids) = Len(list.ids) - 1 /\ \A i \in 1..Len(ids) : ids[i] = list.ids[i + 1]
        /\ Len(ids) \in Nat /\ Len(list.ids) \in Nat /\ Len(list.out) \in Nat
    <2>1. /\ w \in Workers /\ ids \in Seq(Workers) /\ Len(ids) = Len(list.ids) - 1
          /\ \A i \in 1..Len(ids) : ids[i] = list.ids[i + 1]
      BY <1>1, <1>3, <1>4, <1>5, HeadTailProperties
    <2>2. Len(list.ids) \in Nat \ {0}
      BY <1>1, <1>3, EmptySeq
    <2>3. w = list.ids[1]
      BY <1>3, <1>4, <2>2
    <2>4. Len(ids) \in Nat /\ Len(list.out) \in Nat
      BY <1>3, <2>1, LenProperties
    <2> QED
      BY <2>1, <2>2, <2>3, <2>4
  <1> DEFINE found == ~BeforePage /\ Matches(w)
  <1>7. PICK k : k = IF BeforePage \/ found THEN list.matched + 1 ELSE list.matched
    OBVIOUS
  <1>8. PICK listed : listed = IF found THEN Append(list.out, w) ELSE list.out
    OBVIOUS
  <1>9. list' = [list EXCEPT !.ids = ids, !.matched = k, !.out = listed]
    BY <1>4, <1>5, <1>7, <1>8 DEF Look
  <1>0. list.matched \in Nat /\ list.start \in Nat
    BY <1>3
  <1>10. k \in Nat /\ listed \in Seq(Workers)
    <2>1. k \in Nat
      BY <1>0, <1>7
    <2>2. Append(list.out, w) \in Seq(Workers)
      BY <1>3, <1>6, AppendProperties
    <2> QED
      BY <1>3, <1>8, <2>1, <2>2
  <1>11. list' \in Listing
    <2> DEFINE a == [list EXCEPT !.ids = ids, !.matched = k]
    <2>1. a \in Listing
      BY <1>2, <1>6, <1>10 DEF Listing
    <2>2. list' = [a EXCEPT !.out = listed]
      BY <1>9
    <2> HIDE DEF a
    <2> QED
      BY <1>10, <2>1, <2>2 DEF Listing
  <1>12. /\ list'.ids = ids /\ list'.matched = k /\ list'.out = listed
         /\ list'.pc = "scan" /\ list'.start = list.start /\ list'.total = list.total
         /\ list'.got = list.got /\ list'.quiet = list.quiet /\ list'.size = list.size
         /\ list'.need = list.need /\ list'.fn = list.fn
    BY <1>1, <1>2, <1>9 DEF Listing
  <1>13. ASSUME Walking' PROVE PageInv'
    <2>1. Walking
      BY <1>1, <1>12, <1>13 DEF Walking, Unfiltered, Known
    <2>2. PageInv
      BY <1>1, <2>1 DEF WalkInv
    <2> DEFINE n == Cardinality(index)
               s == Sorted(index)
    <2>3. n \in Nat /\ s \in [1..n -> index]
      BY SortedLists, RegistryAssumption DEF WalkInv, IndexFinite, Ascending
    <2>4. /\ list.total = n /\ list.start <= n /\ list.matched <= n
          /\ Len(list.ids) = n - list.matched
          /\ \A i \in 1..Len(list.ids) : list.ids[i] = s[list.matched + i]
          /\ Len(list.out) = IF list.matched < list.start THEN 0 ELSE list.matched - list.start
          /\ \A i \in 1..Len(list.out) : list.out[i] = s[list.start + i]
          /\ FirstIds(list.got, list.start)
      BY <2>2 DEF PageInv
    <2> HIDE DEF n, s
    <2>5. list.matched + 1 <= n /\ w = s[list.matched + 1]
      <3>1. list.matched + 1 <= n
        BY <1>0, <1>6, <2>3, <2>4
      <3>2. 1 \in 1..Len(list.ids)
        BY <1>6
      <3> QED
        BY <1>6, <2>4, <3>1, <3>2
    <2>6. w \in index
      BY <1>3, <2>3, <2>5
    <2>7. Matches(w)
      BY <2>1, <2>6 DEF Walking, Unfiltered, Known, Matches
    <2>8. k = list.matched + 1 /\ (found <=> ~(list.matched < list.start))
      BY <1>7, <2>7 DEF BeforePage
    <2>9. Len(ids) = n - k /\ \A i \in 1..Len(ids) : ids[i] = s[k + i]
      <3>1. Len(ids) = n - k
        BY <1>3, <1>6, <2>3, <2>4, <2>8
      <3>2. ASSUME NEW i \in 1..Len(ids) PROVE ids[i] = s[k + i]
        <4>1. i + 1 \in 1..Len(list.ids) /\ list.matched + (i + 1) = k + i
          <5>1. PICK a \in Nat, b \in Nat, e \in Nat :
                    a = list.matched /\ b = Len(ids) /\ e = Len(list.ids)
            BY <1>0, <1>6
          <5>2. k = a + 1 /\ b = e - 1 /\ i \in 1..b
            BY <1>6, <2>8, <5>1
          <5>3. i + 1 \in 1..e /\ a + (i + 1) = k + i
            BY <5>2
          <5> QED
            BY <5>1, <5>3
        <4> QED
          BY <1>6, <2>4, <4>1
      <3> QED
        BY <3>1, <3>2
    <2>10. /\ Len(listed) = IF k < list.start THEN 0 ELSE k - list.start
           /\ \A i \in 1..Len(listed) : listed[i] = s[list.start + i]
      <3>1. CASE list.matched < list.start
        <4>1. listed = list.out /\ Len(list.out) = 0
          BY <1>8, <2>4, <2>8, <3>1
        <4> QED
          BY <1>3, <2>8, <3>1, <4>1
      <3>2. CASE ~(list.matched < list.start)
        <4>1. listed = Append(list.out, w) /\ Len(list.out) = list.matched - list.start
          BY <1>8, <2>4, <2>8, <3>2
        <4>2. /\ Len(listed) = Len(list.out) + 1 /\ listed[Len(list.out) + 1] = w
              /\ \A i \in 1..Len(list.out) : listed[i] = list.out[i]
          BY <1>3, <1>6, <4>1, AppendProperties
        <4>0. PICK z \in Nat : z = Len(list.out)
          BY <1>6
        <4>3. ASSUME NEW i \in 1..Len(listed) PROVE listed[i] = s[list.start + i]
          <5>1. CASE i = Len(list.out) + 1
            <6>1. listed[i] = w /\ list.start + i = list.matched + 1
              BY <1>3, <4>0, <4>1, <4>2, <5>1
            <6> QED
              BY <2>5, <6>1
          <5>2. CASE i # Len(list.out) + 1
            <6>1. i \in 1..Len(list.out) /\ listed[i] = list.out[i]
              BY <4>0, <4>2, <5>2
            <6> QED
              BY <2>4, <6>1
          <5> QED
            BY <5>1, <5>2
        <4>4. Len(listed) = k - list.start /\ ~(k < list.start)
          <5>1. Len(listed) = z + 1 /\ z = list.matched - list.start
            BY <4>0, <4>1, <4>2
          <5> QED
            <6>1. PICK a \in Nat, b \in Nat : a = list.matched /\ b = list.start
              BY <1>0
            <6>2. k = a + 1 /\ ~(a < b) /\ Len(listed) = z + 1 /\ z = a - b
              BY <2>8, <3>2, <5>1, <6>1
            <6>3. Len(listed) = k - b /\ ~(k < b)
              BY <6>2
            <6> QED
              BY <6>1, <6>3
        <4> QED
          BY <4>3, <4>4
      <3> QED
        BY <3>1, <3>2
    <2>11. k <= n
      BY <2>5, <2>8
    <2>12. index' = index
      BY <1>1
    <2> QED
      BY <1>12, <2>4, <2>9, <2>10, <2>11, <2>12 DEF PageInv, FirstIds, n, s
  <1>14. ListOK'
    BY <1>2, <1>11, <1>12 DEF ListOK
  <1>15. list'.quiet => \A h \in Handlers : req[h].pc = "idle"
    BY <1>12 DEF WalkInv, QuietInv
  <1>16. ASSUME Unfiltered' PROVE CoverInv'
    <2>1. Unfiltered
      BY <1>12, <1>16 DEF Unfiltered
    <2>2. CoverInv /\ Known' = Known /\ index' = index
      BY <1>1, <2>1 DEF WalkInv, Known
    <2> DEFINE n == Cardinality(index)
               s == Sorted(index)
    <2>3. n \in Nat /\ s \in [1..n -> index]
      BY SortedLists, RegistryAssumption DEF WalkInv, IndexFinite, Ascending
    <2>4. PICK p : p = n - Len(list.ids)
      OBVIOUS
    <2>5. /\ list.total = n /\ list.start <= n /\ Len(list.ids) <= n /\ list.matched <= p
          /\ list.matched < list.start => p = list.matched
          /\ \A i \in 1..Len(list.ids) : list.ids[i] = s[p + i]
          /\ Indexed(ToSet(list.got) \cup ToSet(list.out))
          /\ Reached(ToSet(list.got), list.start)
          /\ Reached(ToSet(list.got) \cup ToSet(list.out), p)
      BY <2>2, <2>4 DEF CoverInv
    <2> HIDE DEF n
    <2>6. p \in Nat /\ p + 1 <= n /\ Len(ids) = n - (p + 1) /\ Len(ids) <= n
      BY <1>6, <2>3, <2>4, <2>5
    <2>7. w = s[p + 1] /\ w \in index
      <3>1. 1 \in 1..Len(list.ids) /\ p + 1 \in 1..n
        BY <1>6, <2>6
      <3> QED
        BY <1>6, <2>3, <2>5, <3>1
    <2>8. \A i \in 1..Len(ids) : ids[i] = s[(p + 1) + i]
      <3> SUFFICES ASSUME NEW i \in 1..Len(ids) PROVE ids[i] = s[(p + 1) + i]
        OBVIOUS
      <3>1. i + 1 \in 1..Len(list.ids) /\ p + (i + 1) = (p + 1) + i
        BY <1>6, <2>6
      <3> QED
        BY <1>6, <2>5, <3>1
    <2>9. Matches(w) <=> w \in Known
      BY <1>6, <2>1 DEF Unfiltered, Matches, Known
    <2>10. k <= p + 1 /\ (k < list.start => p + 1 = k)
      <3>1. CASE list.matched < list.start
        BY <1>0, <1>7, <2>5, <2>6, <3>1 DEF BeforePage
      <3>2. CASE ~(list.matched < list.start)
        BY <1>0, <1>7, <2>5, <2>6, <3>2
      <3> QED
        BY <3>1, <3>2
    <2>11. ToSet(listed) = IF found THEN ToSet(list.out) \cup {w} ELSE ToSet(list.out)
      <3>1. ToSet(Append(list.out, w)) = ToSet(list.out) \cup {w}
        BY <1>3, <1>6, Appended
      <3> HIDE DEF found
      <3> QED
        BY <1>8, <3>1
    <2>12. Indexed(ToSet(list.got) \cup ToSet(listed))
      BY <2>5, <2>7, <2>9, <2>11 DEF Indexed
    <2>13. Reached(ToSet(list.got) \cup ToSet(listed), p + 1)
      <3> SUFFICES ASSUME NEW i \in 1..(p + 1), s[i] \in Known
                   PROVE  s[i] \in ToSet(list.got) \cup ToSet(listed)
        BY DEF Reached
      <3>1. CASE i \in 1..p
        BY <2>5, <2>11, <3>1 DEF Reached
      <3>2. CASE i \notin 1..p
        <4>1. i = p + 1 /\ s[i] = w
          BY <2>6, <2>7, <3>2
        <4>2. CASE list.matched < list.start
          <5>1. i \in 1..list.start
            BY <1>0, <2>5, <2>6, <4>1, <4>2
          <5> QED
            BY <2>5, <5>1 DEF Reached
        <4>3. CASE ~(list.matched < list.start)
          <5>1. found
            BY <2>9, <4>1, <4>3 DEF BeforePage
          <5> QED
            BY <2>11, <4>1, <5>1
        <4> QED
          BY <4>2, <4>3
      <3> QED
        BY <3>1, <3>2
    <2>14. n - Len(ids) = p + 1
      <3>1. PICK a \in Nat : a = n
        BY <2>3
      <3>2. a - (a - (p + 1)) = p + 1
        BY <2>6
      <3> QED
        BY <2>6, <3>1, <3>2
    <2> QED
      BY <1>12, <2>2, <2>5, <2>6, <2>8, <2>10, <2>12, <2>13, <2>14
      DEF CoverInv, Indexed, Reached, n, s
  <1> QED
    BY <1>1, <1>12, <1>13, <1>14, <1>15, <1>16, ListingWalk

\* A page ends when it is full or there are no more ids; either way the client
\* has the ids up to the last that was matched.
LEMMA ReplyWalk == ASSUME WalkInv, Reply PROVE WalkInv'
  <1>1. /\ list.pc = "scan" /\ (list.ids = <<>> \/ PageFull)
        /\ UNCHANGED <<kv, index, req>>
    BY DEF Reply
  <1>2. list \in Listing /\ list.size > 0
    BY <1>1 DEF WalkInv, ListOK
  <1>3. /\ list.matched \in Nat /\ list.start \in Nat /\ list.total \in Nat /\ list.size \in Nat
        /\ list.ids \in Seq(Workers) /\ list.out \in Seq(Workers) /\ list.got \in Seq(Workers)
    BY <1>2 DEF Listing
  <1>4. PICK got : got = list.got \o list.out
    OBVIOUS
  <1>5. PICK tok : tok = Token
    OBVIOUS
  <1>6. got \in Seq(Workers) /\ tok \in Nat \cup {NoToken}
    BY <1>3, <1>4, <1>5 DEF Token
  <1>7. list' = [list EXCEPT !.pc = "replied", !.token = tok, !.got = got]
    BY <1>4, <1>5 DEF Reply
  <1>8. list' \in Listing
    <2> DEFINE a == [list EXCEPT !.pc = "replied", !.token = tok]
    <2>1. a \in Listing
      BY <1>2, <1>6 DEF Listing
    <2>2. list' = [a EXCEPT !.got = got]
      BY <1>7
    <2> HIDE DEF a
    <2> QED
      BY <1>6, <2>1, <2>2 DEF Listing
  <1>9. /\ list'.pc = "replied" /\ list'.token = tok /\ list'.got = got
        /\ list'.quiet = list.quiet /\ list'.size = list.size
        /\ list'.need = list.need /\ list'.fn = list.fn
    BY <1>2, <1>7 DEF Listing
  <1>10. ASSUME Walking' PROVE ReplyInv'
    <2>1. Walking
      BY <1>1, <1>9, <1>10 DEF Walking, Unfiltered, Known
    <2>2. PageInv
      BY <1>1, <2>1 DEF WalkInv
    <2> DEFINE n == Cardinality(index)
               s == Sorted(index)
    <2>3. n \in Nat
      BY SortedLists, RegistryAssumption DEF WalkInv, IndexFinite
    <2>4. /\ list.total = n /\ list.start <= n /\ list.matched <= n
          /\ Len(list.ids) = n - list.matched
          /\ Len(list.out) = IF list.matched < list.start THEN 0 ELSE list.matched - list.start
          /\ \A i \in 1..Len(list.out) : list.out[i] = s[list.start + i]
          /\ Len(list.got) = list.start
          /\ \A i \in 1..list.start : list.got[i] = s[i]
      BY <2>2 DEF PageInv, FirstIds
    <2> HIDE DEF n, s
    <2>5. ~(list.matched < list.start)
      <3>1. CASE list.ids = <<>>
        BY <1>3, <2>3, <2>4, <3>1
      <3>2. CASE PageFull
        BY <1>2, <1>3, <2>4, <3>2 DEF PageFull
      <3> QED
        BY <1>1, <3>1, <3>2
    <2>6. Len(list.out) = list.matched - list.start
      BY <2>4, <2>5
    <2>7. /\ Len(got) = list.matched
          /\ \A i \in 1..list.matched :
                got[i] = IF i <= list.start THEN list.got[i] ELSE list.out[i - list.start]
      <3>1. /\ Len(got) = Len(list.got) + Len(list.out)
            /\ \A i \in 1..(Len(list.got) + Len(list.out)) :
                  got[i] = IF i <= Len(list.got) THEN list.got[i] ELSE list.out[i - Len(list.got)]
        BY <1>3, <1>4, ConcatProperties
      <3>2. Len(list.got) + Len(list.out) = list.matched
        <4>1. list.start + (list.matched - list.start) = list.matched
          BY <1>3
        <4> QED
          BY <2>4, <2>6, <4>1
      <3> QED
        BY <2>4, <3>1, <3>2
    <2>8. ASSUME NEW i \in 1..list.matched PROVE got[i] = s[i]
      <3>1. CASE i <= list.start
        <4>1. got[i] = list.got[i] /\ i \in 1..list.start
          BY <1>3, <2>7, <3>1
        <4> QED
          BY <2>4, <4>1
      <3>2. CASE ~(i <= list.start)
        <4>0. i - list.start \in 1..(list.matched - list.start)
          <5>1. PICK a \in Nat, b \in Nat : a = list.matched /\ b = list.start
            BY <1>3
          <5>2. i - b \in 1..(a - b)
            BY <3>2, <5>1
          <5> QED
            BY <5>1, <5>2
        <4>1. PICK j \in 1..Len(list.out) : j = i - list.start
          BY <2>6, <4>0
        <4>2. got[i] = list.out[j] /\ list.start + j = i
          BY <1>3, <2>7, <3>2, <4>1
        <4> QED
          BY <2>4, <4>1, <4>2
      <3> QED
        BY <3>1, <3>2
    <2>9. IF tok = NoToken THEN list.matched = n ELSE tok = list.matched /\ tok < n
      BY <1>3, <1>5, <2>3, <2>4, RegistryAssumption DEF Token
    <2> QED
      BY <1>1, <1>9, <2>7, <2>8, <2>9 DEF ReplyInv, FirstIds, n, s
  <1>11. ListOK'
    BY <1>2, <1>8, <1>9 DEF ListOK
  <1>12. list'.quiet => \A h \in Handlers : req[h].pc = "idle"
    BY <1>9 DEF WalkInv, QuietInv
  <1>13. ASSUME Unfiltered' PROVE CoveredInv'
    <2>1. Unfiltered
      BY <1>9, <1>13 DEF Unfiltered
    <2>2. CoverInv /\ Known' = Known /\ index' = index
      BY <1>1, <2>1 DEF WalkInv, Known
    <2>3. PICK n : n = Cardinality(index)
      OBVIOUS
    <2>4. n \in Nat
      BY <2>3, SortedLists, RegistryAssumption DEF WalkInv, IndexFinite
    <2>5. PICK p : p = n - Len(list.ids)
      OBVIOUS
    <2>6. /\ list.total = n /\ Len(list.ids) <= n /\ list.matched <= p
          /\ Indexed(ToSet(list.got) \cup ToSet(list.out))
          /\ Reached(ToSet(list.got) \cup ToSet(list.out), p)
      BY <2>2, <2>3, <2>5 DEF CoverInv
    <2>7. p \in Nat /\ p <= n
      BY <1>3, <2>4, <2>5, <2>6, LenProperties
    <2>8. ToSet(got) = ToSet(list.got) \cup ToSet(list.out)
      BY <1>3, <1>4, Joins
    <2>9. IF tok = NoToken THEN p = n ELSE tok = list.matched /\ tok <= n
      BY <1>3, <1>5, <2>4, <2>6, <2>7, RegistryAssumption DEF Token
    <2>10. \A i \in 1..list.matched : i \in 1..p
      BY <1>3, <2>6, <2>7
    <2>11. Reached(ToSet(got), p) /\ Reached(ToSet(got), list.matched)
      BY <2>6, <2>8, <2>10 DEF Reached
    <2> QED
      BY <1>9, <2>2, <2>3, <2>6, <2>8, <2>9, <2>11 DEF CoveredInv, Indexed, Reached
  <1> QED
    BY <1>1, <1>9, <1>10, <1>11, <1>12, <1>13, ListingWalk

\* A client without a filter that follows the tokens to the end gets every
\* worker of the index that has a record, for every number of workers and every
\* page size, if nobody changes the registry meanwhile; and it gets each once
\* and in order if all of the index have a record.
THEOREM WalkIsComplete == RSpec => []WalkComplete
  <1>1. RInit => WalkInv
    BY InitWalk
  <1>2. ASSUME WalkInv, [RNext]_rvars PROVE WalkInv'
    <2>1. CASE UNCHANGED rvars
      BY <1>2, <2>1 DEF rvars, WalkInv, QuietInv, IndexFinite, ListOK, Walking, Unfiltered, Known,
                        PageInv, ReplyInv, FirstIds, CoverInv, CoveredInv, Indexed, Reached
    <2> QED
      BY <1>2, <2>1, RequestWalk, IndexWalk, FirstPageWalk, NextPageWalk, LookWalk,
         ReplyWalk, RestWalk DEF RNext
  <1>3. WalkInv => WalkComplete
    <2> SUFFICES ASSUME WalkInv, list.pc = "replied", list.token = NoToken,
                        list.quiet, list.need = {}, list.fn = NoTask
                 PROVE  /\ ToSet(list.got) = index \cap Known
                        /\ index \subseteq Known => list.got = Sorted(index)
      BY DEF WalkComplete
    <2>1. index \in SUBSET Nat /\ IsFiniteSet(index)
      BY RegistryAssumption DEF WalkInv, IndexFinite
    <2>2. ToSet(list.got) = index \cap Known
      <3>1. Indexed(ToSet(list.got)) /\ Reached(ToSet(list.got), Cardinality(index))
        BY DEF WalkInv, Unfiltered, CoveredInv
      <3>2. \A x \in index : \E i \in 1..Cardinality(index) : Sorted(index)[i] = x
        BY <2>1, SortedAll
      <3>3. index \cap Known \subseteq ToSet(list.got)
        BY <3>1, <3>2 DEF Reached
      <3> QED
        BY <3>1, <3>3 DEF Indexed
    <2>3. ASSUME index \subseteq Known PROVE list.got = Sorted(index)
      <3>1. FirstIds(list.got, Cardinality(index))
        BY <2>3 DEF WalkInv, Walking, Unfiltered, ReplyInv
      <3>2. list.got \in Seq(Workers)
        BY DEF WalkInv, ListOK, Listing
      <3>3. Sorted(index) \in Seq(index) /\ Len(Sorted(index)) = Cardinality(index)
        BY <2>1, SortedLists
      <3> QED
        BY <3>1, <3>2, <3>3 DEF FirstIds
    <2> QED
      BY <2>2, <2>3
  <1> QED
    BY <1>1, <1>2, <1>3, PTL DEF RSpec

-----------------------------------------------------------------------------
(***************************************************************************)
(* Envelope.                                                               *)
(***************************************************************************)

LEMMA Widths ==
    /\ FragWidth \in Nat \ {0} /\ ByteWidth \in Nat \ {0} /\ LenWidth \in Nat \ {0}
    /\ LenLimit \in Nat /\ LenLimit < LenWidth
    /\ Sizes \subseteq Nat /\ Chunks \subseteq Nat \ {0} /\ Priorities \subseteq Nat
    /\ MaxBodies \in Nat /\ Msgs \cap BodyKinds = {}
  BY EnvelopeAssumption

\* The number of chunks of c that s units make.
LEMMA Chunked ==
    ASSUME NEW s \in Nat, NEW c \in Nat \ {0}
    PROVE  /\ FragmentCount(s, c) \in Nat /\ s <= FragmentCount(s, c) * c
           /\ FragmentCount(s, c) >= 1 => (FragmentCount(s, c) - 1) * c < s
  <1>1. PICK n : n = (s + c - 1) \div c
    OBVIOUS
  <1>2. n \in Int /\ n * c <= s + c - 1 /\ s + c - 1 < n * c + c
    BY <1>1
  <1> QED
    BY <1>1, <1>2 DEF FragmentCount

LEMMA Remainders ==
    ASSUME NEW x \in Nat, NEW w \in Nat \ {0}
    PROVE  x % w \in 0..(w - 1) /\ x % w <= x /\ (x < w => x % w = x)
  OBVIOUS

-----------------------------------------------------------------------------
(* What becomes of one message.                                            *)

LEMMA HeaderFacts ==
    ASSUME NEW m \in Msgs \cup BodyKinds, NEW n \in Nat
    PROVE  /\ Content(m, n) \in Seq(Unit) /\ Len(Content(m, n)) = n
           /\ Header(m, n) \in EnvelopeHeader /\ Header(m, n).corr = m
           /\ Header(m, n).index = 0 /\ Header(m, n).total = 0 /\ Header(m, n).flags = {}
           /\ Header(m, n).prio = 0 /\ Header(m, n).len = n % LenWidth
  <1>1. \A i \in 1..n : <<m, i>> \in Unit
    BY DEF Unit
  <1>2. Content(m, n) \in Seq(Unit) /\ Len(Content(m, n)) = n
    BY <1>1 DEF Content
  <1>3. n % LenWidth \in 0..(LenWidth - 1) /\ 0 \in 0..(ByteWidth - 1) /\ 0 \in 0..(FragWidth - 1)
    BY Widths, Remainders
  <1>4. "task" \in MsgType /\ {} \in SUBSET {"fragment", "last"}
    BY DEF MsgType
  <1> QED
    BY <1>2, <1>3, <1>4 DEF Header, EnvelopeHeader

\* The pieces of a payload that Fragments makes are consecutive.
LEMMA Cuts ==
    ASSUME NEW s \in Nat, NEW c \in Nat \ {0}, NEW n \in Nat, n = FragmentCount(s, c),
           NEW k \in 1..n
    PROVE  /\ (k - 1) * c \in Nat /\ (k - 1) * c < s /\ k * c \in Nat
           /\ (k - 1) * c + c = k * c
           /\ k < n => k * c < s
           /\ k = n => k * c >= s
  <1>1. s <= n * c /\ (n - 1) * c < s
    BY Chunked
  <1>2. (k - 1) * c \in Nat /\ k * c \in Nat /\ (k - 1) * c + c = k * c
    OBVIOUS
  <1>3. (k - 1) * c <= (n - 1) * c
    <2>1. (n - k) * c >= 0
      OBVIOUS
    <2>2. (n - 1) * c = (k - 1) * c + (n - k) * c
      OBVIOUS
    <2>3. (n - k) * c \in Int /\ (n - 1) * c \in Int
      OBVIOUS
    <2> QED
      BY <1>2, <2>1, <2>2, <2>3
  <1>4. k < n => k * c <= (n - 1) * c
    <2>1. SUFFICES ASSUME k < n PROVE k * c <= (n - 1) * c
      OBVIOUS
    <2>2. (n - 1 - k) * c >= 0 /\ (n - 1 - k) * c \in Int /\ (n - 1) * c \in Int
      BY <2>1
    <2>3. (n - 1) * c = k * c + (n - 1 - k) * c
      OBVIOUS
    <2> QED
      BY <1>2, <2>2, <2>3
  <1>5. (n - 1) * c \in Int
    OBVIOUS
  <1> QED
    BY <1>1, <1>2, <1>3, <1>4, <1>5

NewEnv(m, s) == [hdr |-> Header(m, s), data |-> Content(m, s)]

LEMMA NewEnvFacts ==
    ASSUME NEW m \in Msgs, NEW s \in Nat, NEW e, e = NewEnv(m, s)
    PROVE  /\ e \in Env /\ e.data \in Seq(Unit) /\ Len(e.data) = s /\ e.hdr \in EnvelopeHeader
           /\ e.hdr.corr = m /\ e.hdr.index = 0 /\ e.hdr.total = 0 /\ e.hdr.flags = {} /\ e.hdr.prio = 0
           /\ e.hdr.type = "task" /\ e.hdr.len = s % LenWidth
  <1>1. /\ Content(m, s) \in Seq(Unit) /\ Len(Content(m, s)) = s
        /\ Header(m, s) \in EnvelopeHeader /\ Header(m, s).corr = m
        /\ Header(m, s).index = 0 /\ Header(m, s).total = 0 /\ Header(m, s).flags = {}
        /\ Header(m, s).prio = 0 /\ Header(m, s).len = s % LenWidth /\ Header(m, s).type = "task"
    <2>1. Header(m, s).type = "task"
      BY DEF Header
    <2> QED
      BY <2>1, HeaderFacts
  <1> QED
    BY <1>1 DEF NewEnv, Env

\* A payload of at most one chunk is sent as it is.
LEMMA OneFragment ==
    ASSUME NEW m \in Msgs, NEW s \in Nat, NEW c \in Nat \ {0}, NEW e, e = NewEnv(m, s),
           FragmentCount(s, c) <= 1
    PROVE  Fragments(e, c) = <<e>>
  <1>1. FragmentCount(Len(e.data), c) = FragmentCount(s, c)
    BY NewEnvFacts
  <1> QED
    BY <1>1, Zenon DEF Fragments

\* The others are cut into n pieces that are numbered.
Numbered(F, m, e, s, c, n) ==
    /\ F \in Seq(Env) /\ Len(F) = n
    /\ \A k \in 1..n :
         /\ F[k].hdr.corr = m /\ F[k].hdr.type = "task" /\ F[k].hdr.prio = 0
         /\ "fragment" \in F[k].hdr.flags /\ F[k].hdr.flags \ {"fragment", "last"} = {}
         /\ F[k].hdr.index = (k - 1) % FragWidth /\ F[k].hdr.total = n % FragWidth
         /\ F[k].data = SubSeq(e.data, (k - 1) * c + 1, IF k * c < s THEN k * c ELSE s)

LEMMA SomeFragments ==
    ASSUME NEW m \in Msgs, NEW s \in Nat, NEW c \in Nat \ {0}, NEW e, e = NewEnv(m, s),
           NEW n \in Nat, n = FragmentCount(s, c), n > 1
    PROVE  Numbered(Fragments(e, c), m, e, s, c, n)
  <1>1. /\ e.data \in Seq(Unit) /\ Len(e.data) = s /\ e.hdr \in EnvelopeHeader
        /\ e.hdr.corr = m /\ e.hdr.flags = {} /\ e.hdr.prio = 0 /\ e.hdr.type = "task"
    BY NewEnvFacts
  <1>2. PICK h, d : h = e.hdr /\ d = e.data
    OBVIOUS
  <1> DEFINE flags(k) == h.flags \cup {"fragment"} \cup (IF k = n THEN {"last"} ELSE {})
             hdr(k) == [h EXCEPT !.index = (k - 1) % FragWidth, !.total = n % FragWidth, !.flags = flags(k)]
             data(k) == SubSeq(d, (k - 1) * c + 1, IF k * c < s THEN k * c ELSE s)
             F == Fragments(e, c)
  <1>3. F = [k \in 1..n |-> [hdr |-> hdr(k), data |-> data(k)]]
    <2>1. FragmentCount(Len(e.data), c) = n /\ ~(n <= 1)
      BY <1>1
    <2>2. Len(e.data) = s /\ e.hdr = h /\ e.data = d
      BY <1>1, <1>2
    <2> QED
      BY <2>1, <2>2, Zenon DEF Fragments
  <1>4. ASSUME NEW k \in 1..n PROVE data(k) \in Seq(Unit)
    <2>1. (k - 1) * c \in Nat /\ (k - 1) * c < s /\ k * c \in Nat /\ (k - 1) * c + c = k * c
      BY Cuts
    <2>2. PICK a \in Nat, b \in Nat : a = (k - 1) * c /\ b = k * c
      BY <2>1
    <2>3. PICK z : z = IF b < s THEN b ELSE s
      OBVIOUS
    <2>4. a + 1 \in Nat \ {0} /\ z \in Nat /\ a + 1 <= z + 1 /\ z <= Len(d)
      BY <1>1, <1>2, <2>1, <2>2, <2>3
    <2>5. SubSeq(d, a + 1, z) \in Seq(Unit)
      BY <1>1, <1>2, <2>4, SubSeqFacts
    <2> QED
      BY <2>2, <2>3, <2>5
  <1>5. ASSUME NEW k \in 1..n
        PROVE  /\ hdr(k) \in EnvelopeHeader /\ hdr(k).corr = m /\ hdr(k).prio = 0 /\ hdr(k).type = "task"
               /\ "fragment" \in hdr(k).flags
               /\ hdr(k).index = (k - 1) % FragWidth /\ hdr(k).total = n % FragWidth
    <2>1. k - 1 \in Nat /\ FragWidth \in Nat \ {0}
      BY Widths
    <2>2. (k - 1) % FragWidth \in 0..(FragWidth - 1) /\ n % FragWidth \in 0..(FragWidth - 1)
      BY <2>1, Remainders
    <2>3. flags(k) \in SUBSET {"fragment", "last"} /\ "fragment" \in flags(k)
      BY <1>1, <1>2
    <2> HIDE DEF flags
    <2> QED
      BY <1>1, <1>2, <2>2, <2>3 DEF EnvelopeHeader
  <1>6. ASSUME NEW k \in 1..n PROVE data(k) = SubSeq(e.data, (k - 1) * c + 1, IF k * c < s THEN k * c ELSE s)
    BY <1>2
  <1> HIDE DEF hdr, data, F
  <1>7. ASSUME NEW k \in 1..n PROVE [hdr |-> hdr(k), data |-> data(k)] \in Env
    BY <1>4, <1>5 DEF Env
  <1>8. F \in Seq(Env) /\ Len(F) = n
    BY <1>3, <1>7
  <1>9. \A k \in 1..n : F[k].hdr = hdr(k) /\ F[k].data = data(k)
    BY <1>3
  <1>10. ASSUME NEW k \in 1..n
         PROVE  /\ F[k].hdr.corr = m /\ F[k].hdr.type = "task" /\ F[k].hdr.prio = 0
                /\ "fragment" \in F[k].hdr.flags /\ F[k].hdr.flags \ {"fragment", "last"} = {}
                /\ F[k].hdr.index = (k - 1) % FragWidth
                /\ F[k].hdr.total = n % FragWidth
                /\ F[k].data = SubSeq(e.data, (k - 1) * c + 1, IF k * c < s THEN k * c ELSE s)
    <2>1. F[k].hdr = hdr(k) /\ F[k].data = data(k)
      BY <1>9
    <2>2. PICK g : g = hdr(k)
      OBVIOUS
    <2>3. /\ g \in EnvelopeHeader /\ g.corr = m /\ g.prio = 0 /\ g.type = "task"
          /\ "fragment" \in g.flags
          /\ g.index = (k - 1) % FragWidth /\ g.total = n % FragWidth
      BY <1>5, <2>2
    <2>4. g.flags \ {"fragment", "last"} = {}
      BY <2>3 DEF EnvelopeHeader
    <2>5. F[k].hdr = g
      BY <2>1, <2>2
    <2>6. F[k].data = SubSeq(e.data, (k - 1) * c + 1, IF k * c < s THEN k * c ELSE s)
      BY <1>6, <2>1
    <2> QED
      BY <2>3, <2>4, <2>5, <2>6, Zenon
  <1> QED
    BY <1>8, <1>10 DEF F, Numbered

FitsIn(s, c) ==
    FragmentCount(s, c) < FragWidth /\ (IF s < c THEN s ELSE c) <= LenLimit

\* The header as it arrives.
Kept(e) == [e.hdr EXCEPT !.len = Len(e.data) % LenWidth]

LEMMA KeptFacts ==
    ASSUME NEW e \in Env
    PROVE  /\ e.hdr \in EnvelopeHeader /\ e.data \in Seq(Unit) /\ Len(e.data) \in Nat
           /\ Kept(e) \in EnvelopeHeader
           /\ Kept(e).corr = e.hdr.corr /\ Kept(e).index = e.hdr.index /\ Kept(e).total = e.hdr.total
           /\ Kept(e).flags = e.hdr.flags /\ Kept(e).type = e.hdr.type /\ Kept(e).prio = e.hdr.prio
           /\ Kept(e).len = Len(e.data) % LenWidth
  <1>1. e.hdr \in EnvelopeHeader /\ e.data \in Seq(Unit)
    BY DEF Env
  <1>2. Len(e.data) \in Nat
    BY <1>1, LenProperties
  <1>3. Len(e.data) % LenWidth \in 0..(LenWidth - 1)
    BY <1>2, Widths, Remainders
  <1>4. PICK z \in 0..(LenWidth - 1), h \in EnvelopeHeader : z = Len(e.data) % LenWidth /\ h = e.hdr
    BY <1>1, <1>3
  <1>5. /\ [h EXCEPT !.len = z] \in EnvelopeHeader
        /\ [h EXCEPT !.len = z].corr = h.corr /\ [h EXCEPT !.len = z].index = h.index
        /\ [h EXCEPT !.len = z].total = h.total /\ [h EXCEPT !.len = z].flags = h.flags
        /\ [h EXCEPT !.len = z].type = h.type /\ [h EXCEPT !.len = z].prio = h.prio
        /\ [h EXCEPT !.len = z].len = z
    BY DEF EnvelopeHeader
  <1>6. Kept(e) = [h EXCEPT !.len = z]
    BY <1>4 DEF Kept
  <1> QED
    BY <1>1, <1>2, <1>4, <1>5, <1>6

LEMMA HeadersEqual ==
    ASSUME NEW g \in EnvelopeHeader, NEW h \in EnvelopeHeader,
           g.corr = h.corr, g.type = h.type, g.flags = h.flags, g.prio = h.prio, g.len = h.len,
           g.index = h.index, g.total = h.total
    PROVE  g = h
  BY DEF EnvelopeHeader

\* What is common to both.
FragmentsOf(F, m) ==
    /\ F \in Seq(Env) /\ Len(F) \in Nat \ {0}
    /\ \A k \in 1..Len(F) :
          F[k] \in Env /\ F[k].hdr.corr = m /\ F[k].hdr.type = "task" /\ F[k].hdr.prio = 0

LEMMA FragmentFacts ==
    ASSUME NEW m \in Msgs, NEW s \in Nat, NEW c \in Nat \ {0}
    PROVE  FragmentsOf(Fragments(NewEnv(m, s), c), m)
  <1> SUFFICES ASSUME NEW e, e = NewEnv(m, s), NEW F, F = Fragments(e, c) PROVE FragmentsOf(F, m)
    OBVIOUS
  <1>1. PICK n \in Nat : n = FragmentCount(s, c)
    BY Chunked
  <1>2. CASE n <= 1
    <2>1. F = <<e>>
      BY <1>1, <1>2, OneFragment
    <2>2. e \in Env /\ e.hdr.corr = m /\ e.hdr.type = "task" /\ e.hdr.prio = 0
      BY NewEnvFacts
    <2>3. F \in Seq(Env) /\ Len(F) = 1 /\ F[1] = e
      BY <2>1, <2>2
    <2> QED
      BY <2>2, <2>3 DEF FragmentsOf
  <1>3. CASE ~(n <= 1)
    <2>1. n > 1
      BY <1>3
    <2>2. Numbered(F, m, e, s, c, n)
      BY <1>1, <2>1, SomeFragments
    <2>3. F \in Seq(Env) /\ Len(F) = n /\ \A k \in 1..n : F[k] \in Env
      BY <2>2, ElementOfSeq DEF Numbered
    <2>4. \A k \in 1..n : F[k].hdr.corr = m /\ F[k].hdr.type = "task" /\ F[k].hdr.prio = 0
      BY <2>2 DEF Numbered
    <2> QED
      BY <2>1, <2>3, <2>4 DEF FragmentsOf
  <1> QED
    BY <1>2, <1>3

\* The fragments of a payload that fits are told apart by their numbers, and of a
\* length that a Conn reads.
FragmentOfFit(F, e, k) ==
    /\ F[k].hdr.index = k - 1
    /\ Len(F[k].data) <= LenLimit /\ Len(F[k].data) % LenWidth = Len(F[k].data)
    /\ Len(F) = 1 => F[k] = e /\ "fragment" \notin F[k].hdr.flags
    /\ Len(F) > 1 => "fragment" \in F[k].hdr.flags /\ F[k].hdr.total = Len(F)

LEMMA FragmentFits ==
    ASSUME NEW m \in Msgs, NEW s \in Nat, NEW c \in Nat \ {0}, FitsIn(s, c)
    PROVE  \A k \in 1..Len(Fragments(NewEnv(m, s), c)) :
              FragmentOfFit(Fragments(NewEnv(m, s), c), NewEnv(m, s), k)
  <1> SUFFICES ASSUME NEW e, e = NewEnv(m, s), NEW F, F = Fragments(e, c), NEW k \in 1..Len(F)
               PROVE  FragmentOfFit(F, e, k)
    BY Zenon
  <1>1. PICK n \in Nat : n = FragmentCount(s, c)
    BY Chunked
  <1>7. s <= n * c /\ (n >= 1 => (n - 1) * c < s)
    BY <1>1, Chunked
  <1>2. F \in Seq(Env) /\ Len(F) \in Nat \ {0} /\ F[k] \in Env
    BY FragmentFacts DEF FragmentsOf
  <1>3. F[k].data \in Seq(Unit) /\ Len(F[k].data) \in Nat
    BY <1>2, KeptFacts
  <1>4. Len(F[k].data) <= LenLimit => Len(F[k].data) % LenWidth = Len(F[k].data)
    <2>1. PICK z \in Nat : z = Len(F[k].data)
      BY <1>3
    <2>2. z <= LenLimit => z < LenWidth
      BY Widths
    <2>3. z <= LenLimit => z % LenWidth = z
      BY <2>2, Widths, Remainders
    <2> QED
      BY <2>1, <2>3
  <1>5. CASE n <= 1
    <2>1. F = <<e>>
      BY <1>1, <1>5, OneFragment
    <2>2. /\ Len(e.data) = s /\ e.hdr.index = 0 /\ e.hdr.flags = {}
      BY NewEnvFacts
    <2>3. Len(F) = 1 /\ F[1] = e
      BY <2>1
    <2>4. k = 1
      BY <2>3
    <2>5. s <= LenLimit
      <3>1. n = 0 \/ n = 1
        BY <1>5
      <3>2. s <= c
        BY <1>7, <3>1
      <3> QED
        BY <3>2, Widths DEF FitsIn
    <2> QED
      BY <1>4, <2>2, <2>3, <2>4, <2>5 DEF FragmentOfFit
  <1>6. CASE ~(n <= 1)
    <2>1. n > 1
      BY <1>6
    <2>2. /\ Len(F) = n
          /\ \A j \in 1..n :
               /\ "fragment" \in F[j].hdr.flags
               /\ F[j].hdr.index = (j - 1) % FragWidth /\ F[j].hdr.total = n % FragWidth
               /\ F[j].data = SubSeq(e.data, (j - 1) * c + 1, IF j * c < s THEN j * c ELSE s)
      <3>1. Numbered(F, m, e, s, c, n)
        BY <1>1, <2>1, SomeFragments
      <3> QED
        BY <3>1 DEF Numbered
    <2>3. n < FragWidth /\ c <= LenLimit
      <3>1. n < FragWidth
        BY <1>1 DEF FitsIn
      <3>2. c <= (n - 1) * c
        <4>1. PICK x \in Nat : x = n - 2
          BY <2>1
        <4>2. x * c \in Nat /\ (x + 1) * c = c + x * c /\ n - 1 = x + 1
          BY <4>1
        <4> QED
          BY <4>2
      <3>3. (n - 1) * c < s /\ (n - 1) * c \in Int
        <4>1. n - 1 \in Int /\ n >= 1
          BY <2>1
        <4> QED
          BY <1>7, <4>1
      <3>4. c < s
        BY <3>2, <3>3
      <3> QED
        BY <3>1, <3>4 DEF FitsIn
    <2>4. k - 1 \in Nat /\ k - 1 < FragWidth
      BY <2>2, <2>3, Widths
    <2>5. (k - 1) % FragWidth = k - 1 /\ n % FragWidth = n
      BY <2>3, <2>4, Widths, Remainders
    <2>6. Len(F[k].data) <= LenLimit
      <3>1. (k - 1) * c \in Nat /\ (k - 1) * c < s /\ k * c \in Nat /\ (k - 1) * c + c = k * c
        BY <1>1, <2>2, Cuts
      <3>2. PICK a \in Nat, b \in Nat : a = (k - 1) * c /\ b = k * c
        BY <3>1
      <3>3. PICK z : z = IF b < s THEN b ELSE s
        OBVIOUS
      <3>4. F[k].data = SubSeq(e.data, a + 1, z)
        BY <2>2, <3>2, <3>3
      <3>5. Len(e.data) = s /\ e.data \in Seq(Unit)
        BY NewEnvFacts
      <3>6. a + 1 \in Nat \ {0} /\ z \in Nat /\ a + 1 <= z + 1 /\ z <= Len(e.data) /\ z - (a + 1) + 1 <= c
        BY <3>1, <3>2, <3>3, <3>5
      <3>7. Len(SubSeq(e.data, a + 1, z)) = z - (a + 1) + 1
        BY <3>5, <3>6, SubSeqFacts
      <3>8. z - (a + 1) + 1 <= LenLimit
        BY <2>3, <3>6, Widths
      <3> QED
        BY <3>4, <3>7, <3>8
    <2>7. "fragment" \in F[k].hdr.flags /\ F[k].hdr.index = k - 1 /\ F[k].hdr.total = n
      BY <2>2, <2>5
    <2>8. Len(F) # 1
      BY <2>1, <2>2
    <2> QED
      BY <1>4, <2>2, <2>6, <2>7, <2>8 DEF FragmentOfFit
  <1> QED
    BY <1>5, <1>6

LEMMA FunSeq ==
    ASSUME NEW S, NEW n \in Nat, NEW w \in [1..n -> S]
    PROVE  w \in Seq(S) /\ Len(w) = n /\ (n > 0 => w # <<>>)
  OBVIOUS

LEMMA SubSeqPiece ==
    ASSUME NEW S, NEW d \in Seq(S), NEW a \in Nat, NEW z \in Nat, a <= z, z <= Len(d)
    PROVE  /\ SubSeq(d, a + 1, z) \in Seq(S) /\ Len(SubSeq(d, a + 1, z)) = z - a
           /\ Piece(d, a, SubSeq(d, a + 1, z))
  <1>1. PICK x : x = SubSeq(d, a + 1, z)
    OBVIOUS
  <1>2. a + 1 \in Nat \ {0} /\ a + 1 <= z + 1
    OBVIOUS
  <1>3. /\ x \in Seq(S) /\ Len(x) = z - (a + 1) + 1
        /\ \A i \in 1..(z - (a + 1) + 1) : x[i] = d[(a + 1) + i - 1]
    BY <1>1, <1>2, SubSeqFacts
  <1>4. Len(x) = z - a /\ Len(d) \in Nat
    BY <1>3, LenProperties
  <1>5. \A i \in 1..Len(x) : x[i] = d[a + i]
    BY <1>3
  <1>6. Piece(d, a, x)
    BY <1>4, <1>5 DEF Piece
  <1> QED
    BY <1>1, <1>3, <1>4, <1>6

Cut(d, s, c, k) == SubSeq(d, (k - 1) * c + 1, IF k * c < s THEN k * c ELSE s)

Follows(d, s, c, n, k, x) ==
    /\ x \in Seq(Unit) /\ Piece(d, (k - 1) * c, x)
    /\ Len(x) = (IF k = n THEN s ELSE k * c) - (k - 1) * c

\* Where a fragment's payload comes from.
LEMMA CutData ==
    ASSUME NEW d \in Seq(Unit), NEW s \in Nat, Len(d) = s, NEW c \in Nat \ {0}, NEW n \in Nat,
           n = FragmentCount(s, c), NEW k \in 1..n,
           NEW x, x = Cut(d, s, c, k)
    PROVE  Follows(d, s, c, n, k, x)
  <1>1. /\ (k - 1) * c \in Nat /\ (k - 1) * c < s /\ k * c \in Nat /\ (k - 1) * c + c = k * c
        /\ (k < n => k * c < s) /\ (k = n => k * c >= s)
    BY Cuts
  <1>2. PICK a \in Nat, b \in Nat : a = (k - 1) * c /\ b = k * c
    BY <1>1
  <1>3. a < s /\ a + c = b /\ (k < n => b < s) /\ (k = n => b >= s)
    BY <1>1, <1>2
  <1>4. PICK z : z = IF b < s THEN b ELSE s
    OBVIOUS
  <1>5. x = SubSeq(d, a + 1, z)
    BY <1>2, <1>4 DEF Cut
  <1>6. z \in Nat /\ a <= z /\ z <= Len(d) /\ z = (IF k = n THEN s ELSE b)
    BY <1>3, <1>4
  <1>7. x \in Seq(Unit) /\ Len(x) = z - a /\ Piece(d, a, x)
    <2>1. z \in Nat /\ a <= z /\ z <= Len(d)
      BY <1>6
    <2>2. /\ SubSeq(d, a + 1, z) \in Seq(Unit) /\ Len(SubSeq(d, a + 1, z)) = z - a
          /\ Piece(d, a, SubSeq(d, a + 1, z))
      BY <2>1, SubSeqPiece, Zenon
    <2> QED
      BY <1>5, <2>2, Zenon
  <1> QED
    BY <1>2, <1>6, <1>7 DEF Follows

\* All of them, one after the other, are the payload.
LEMMA CutsJoin ==
    ASSUME NEW d \in Seq(Unit), NEW s \in Nat, Len(d) = s, NEW c \in Nat \ {0}, NEW n \in Nat \ {0},
           n = FragmentCount(s, c), NEW w, w \in [1..n -> Seq(Unit)],
           \A k \in 1..n : w[k] = Cut(d, s, c, k)
    PROVE  FlattenSeq(w) = d
  <1>1. ASSUME NEW k \in 1..n
        PROVE  /\ Piece(d, (k - 1) * c, w[k])
               /\ Len(w[k]) = (IF k = n THEN s ELSE k * c) - (k - 1) * c
    <2>1. PICK x : x = w[k]
      OBVIOUS
    <2>2. x = Cut(d, s, c, k)
      BY <2>1
    <2>3. Piece(d, (k - 1) * c, x) /\ Len(x) = (IF k = n THEN s ELSE k * c) - (k - 1) * c
      <3>1. Follows(d, s, c, n, k, x)
        BY <2>2, CutData
      <3> QED
        BY <3>1, Zenon DEF Follows
    <2> QED
      BY <2>1, <2>3
  <1>2. w \in Seq(Seq(Unit)) /\ Len(w) = n /\ w # <<>>
    <2>1. n > 0
      OBVIOUS
    <2> QED
      BY <2>1, FunSeq
  <1> DEFINE cp == [k \in 1..(n + 1) |-> IF k = n + 1 THEN s ELSE (k - 1) * c]
  <1>3. cp \in [1..(n + 1) -> Nat]
    <2>1. ASSUME NEW k \in 1..(n + 1) PROVE (IF k = n + 1 THEN s ELSE (k - 1) * c) \in Nat
      <3>1. CASE k = n + 1
        BY <3>1
      <3>2. CASE k # n + 1
        <4>1. k - 1 \in Nat
          OBVIOUS
        <4>2. (k - 1) * c \in Nat
          BY <4>1
        <4> QED
          BY <3>2, <4>2
      <3> QED
        BY <3>1, <3>2
    <2> QED
      BY <2>1
  <1>4. cp[1] = 0
    <2>1. cp[1] = (1 - 1) * c
      OBVIOUS
    <2>2. (1 - 1) * c = 0
      OBVIOUS
    <2> QED
      BY <2>1, <2>2
  <1>5. cp[n + 1] = s
    OBVIOUS
  <1>6. ASSUME NEW k \in 1..n
        PROVE  cp[k + 1] = cp[k] + Len(w[k]) /\ Piece(d, cp[k], w[k])
    <2>1. cp[k] = (k - 1) * c
      OBVIOUS
    <2>2. cp[k + 1] = IF k = n THEN s ELSE k * c
      <3>1. k + 1 \in 1..(n + 1) /\ (k + 1 = n + 1 <=> k = n) /\ (k + 1) - 1 = k
        OBVIOUS
      <3>2. cp[k + 1] = IF k + 1 = n + 1 THEN s ELSE ((k + 1) - 1) * c
        BY <3>1
      <3> QED
        BY <3>1, <3>2
    <2>3. (k - 1) * c \in Nat /\ k * c \in Nat
      OBVIOUS
    <2>4. PICK a \in Nat, b \in Nat : a = (k - 1) * c /\ b = IF k = n THEN s ELSE k * c
      BY <2>3
    <2>5. Len(w[k]) = b - a
      BY <1>1, <2>4
    <2> HIDE DEF cp
    <2>6. cp[k + 1] = b /\ cp[k] = a
      BY <2>1, <2>2, <2>4
    <2>7. b = a + (b - a)
      OBVIOUS
    <2> QED
      BY <1>1, <2>1, <2>5, <2>6, <2>7
  <1> HIDE DEF cp
  <1>7. Written(d, 0, w, s)
    BY <1>2, <1>3, <1>4, <1>5, <1>6 DEF Written
  <1>8. /\ FlattenSeq(w) \in Seq(Unit) /\ Piece(d, 0, FlattenSeq(w))
        /\ s = 0 + Len(FlattenSeq(w))
    BY <1>2, <1>7, WrittenFlat
  <1>9. PICK f \in Seq(Unit) : f = FlattenSeq(w)
    BY <1>8
  <1>10. Len(f) \in Nat
    BY LenProperties
  <1>11. Len(f) = Len(d) /\ \A i \in 1..Len(f) : f[i] = d[i]
    <2>1. Len(f) = s
      BY <1>8, <1>9, <1>10
    <2>2. \A i \in 1..Len(f) : f[i] = d[0 + i] /\ 0 + i = i
      BY <1>8, <1>9 DEF Piece
    <2> QED
      BY <2>1, <2>2
  <1>12. f = d
    BY <1>11, SeqEqual
  <1> QED
    BY <1>9, <1>12

\* The fragments of a message as they come in.
Arrived(F) == [k \in 1..Len(F) |-> [hdr |-> Kept(F[k]), data |-> F[k].data]]

\* Put together, they are what was cut.
LEMMA Joined ==
    ASSUME NEW m \in Msgs, NEW s \in Nat, NEW c \in Nat \ {0}, NEW e, e = NewEnv(m, s),
           NEW n \in Nat, n = FragmentCount(s, c), n > 1,
           NEW F, F = Fragments(e, c)
    PROVE  Reassemble(Arrived(F)) = e
  <1>1. /\ e \in Env /\ e.data \in Seq(Unit) /\ Len(e.data) = s /\ e.hdr \in EnvelopeHeader
        /\ e.hdr.corr = m /\ e.hdr.index = 0 /\ e.hdr.total = 0 /\ e.hdr.flags = {} /\ e.hdr.prio = 0
        /\ e.hdr.type = "task" /\ e.hdr.len = s % LenWidth
    BY NewEnvFacts
  <1>2. Numbered(F, m, e, s, c, n)
    BY SomeFragments
  <1>3. F \in Seq(Env) /\ Len(F) = n
    BY <1>2, Zenon DEF Numbered
  <1>4. \A k \in 1..n : F[k] \in Env /\ F[k].data \in Seq(Unit)
    BY <1>3, ElementOfSeq, KeptFacts
  <1>5. \A k \in 1..n : F[k].data = Cut(e.data, s, c, k)
    BY <1>2, Zenon DEF Numbered, Cut
  <1> DEFINE G == Arrived(F)
             w == [i \in DOMAIN G |-> G[i].data]
  <1>6. DOMAIN G = 1..n /\ \A k \in 1..n : G[k].hdr = Kept(F[k]) /\ G[k].data = F[k].data
    BY <1>3 DEF Arrived
  <1> HIDE DEF G
  <1>7. w \in [1..n -> Seq(Unit)] /\ \A k \in 1..n : w[k] = Cut(e.data, s, c, k)
    BY <1>4, <1>5, <1>6
  <1> HIDE DEF w
  <1>8. FlattenSeq(w) = e.data
    <2>1. n \in Nat \ {0}
      OBVIOUS
    <2>2. PICK d, v : d = e.data /\ v = w
      OBVIOUS
    <2>3. d \in Seq(Unit) /\ Len(d) = s /\ v \in [1..n -> Seq(Unit)] /\ \A k \in 1..n : v[k] = Cut(d, s, c, k)
      BY <1>1, <1>7, <2>2
    <2>4. FlattenSeq(v) = d
      BY <2>1, <2>3, CutsJoin
    <2> QED
      BY <2>2, <2>4
  <1>9. PICK h : h = G[1].hdr
    OBVIOUS
  <1>10. /\ h \in EnvelopeHeader /\ h.corr = m /\ h.type = "task" /\ h.prio = 0
         /\ h.flags \ {"fragment", "last"} = {}
    <2>1. 1 \in 1..n /\ h = Kept(F[1]) /\ F[1] \in Env
      BY <1>4, <1>6, <1>9
    <2>2. /\ F[1].hdr.corr = m /\ F[1].hdr.type = "task" /\ F[1].hdr.prio = 0
          /\ F[1].hdr.flags \ {"fragment", "last"} = {}
      BY <1>2, <2>1, Zenon DEF Numbered
    <2> QED
      BY <2>1, <2>2, KeptFacts
  <1>11. PICK z : z = s % LenWidth
    OBVIOUS
  <1>12. z \in 0..(LenWidth - 1) /\ 0 \in 0..(FragWidth - 1)
    BY <1>11, Widths, Remainders
  <1>13. PICK g : g = [h EXCEPT !.flags = @ \ {"fragment", "last"}, !.index = 0, !.total = 0, !.len = z]
    OBVIOUS
  <1>14. g \in EnvelopeHeader
    BY <1>10, <1>12, <1>13 DEF EnvelopeHeader
  <1>15. /\ g.corr = m /\ g.type = "task" /\ g.prio = 0 /\ g.flags = {} /\ g.len = z
         /\ g.index = 0 /\ g.total = 0
    BY <1>10, <1>13 DEF EnvelopeHeader
  <1>16. g = e.hdr
    <2>1. PICK h2 : h2 = e.hdr
      OBVIOUS
    <2>2. /\ h2 \in EnvelopeHeader /\ g.corr = h2.corr /\ g.type = h2.type /\ g.flags = h2.flags
          /\ g.prio = h2.prio /\ g.len = h2.len /\ g.index = h2.index /\ g.total = h2.total
      BY <1>1, <1>11, <1>15, <2>1, Zenon
    <2>3. g = h2
      BY <1>14, <2>2, HeadersEqual
    <2> QED
      BY <2>1, <2>3
  <1>17. Reassemble(G) = [hdr |-> g, data |-> e.data]
    <2>1. Len(FlattenSeq(w)) % LenWidth = z
      BY <1>1, <1>8, <1>11
    <2> QED
      BY <1>8, <1>9, <1>13, <2>1, Zenon DEF Reassemble, w
  <1>18. e = [hdr |-> e.hdr, data |-> e.data]
    BY <1>1 DEF Env
  <1> QED
    BY <1>16, <1>17, <1>18 DEF G

\* What is known of a message: F are its fragments, and it may be delivered as an
\* element of D.  Before it is sent there are none.
Planned(m, D, F) ==
    /\ F \in Seq(Env)
    /\ \A k \in 1..Len(F) :
          /\ F[k] \in Env /\ F[k].hdr.corr = m /\ F[k].hdr.type = "task" /\ F[k].hdr.prio = 0
          /\ F[k].hdr.index = k - 1
          /\ Len(F[k].data) \in 0..LenLimit /\ Len(F[k].data) % LenWidth = Len(F[k].data)
    /\ Len(F) = 0 => D = {}
    /\ Len(F) = 1 => D = {F[1]} /\ "fragment" \notin F[1].hdr.flags /\ Kept(F[1]) = F[1].hdr
    /\ Len(F) > 1 => /\ D = {Reassemble(Arrived(F))}
                     /\ \A k \in 1..Len(F) : "fragment" \in F[k].hdr.flags /\ F[k].hdr.total = Len(F)

LEMMA NothingPlanned == ASSUME NEW m PROVE Planned(m, {}, <<>>)
  <1>1. <<>> \in Seq(Env) /\ Len(<<>>) = 0
    BY EmptySeq
  <1> QED
    BY <1>1 DEF Planned

LEMMA SendingPlanned ==
    ASSUME NEW m \in Msgs, NEW s \in Nat, NEW c \in Nat \ {0}, FitsIn(s, c)
    PROVE  Planned(m, {NewEnv(m, s)}, Fragments(NewEnv(m, s), c))
  <1> SUFFICES ASSUME NEW e, e = NewEnv(m, s), NEW F, F = Fragments(e, c) PROVE Planned(m, {e}, F)
    OBVIOUS
  <1>2. /\ F \in Seq(Env) /\ Len(F) \in Nat \ {0}
        /\ \A k \in 1..Len(F) :
              F[k] \in Env /\ F[k].hdr.corr = m /\ F[k].hdr.type = "task" /\ F[k].hdr.prio = 0
    <2>1. FragmentsOf(F, m)
      BY FragmentFacts
    <2> QED
      BY <2>1, Zenon DEF FragmentsOf
  <1>3. ASSUME NEW k \in 1..Len(F)
        PROVE  /\ F[k].hdr.index = k - 1
               /\ Len(F[k].data) <= LenLimit /\ Len(F[k].data) % LenWidth = Len(F[k].data)
               /\ Len(F) = 1 => F[k] = e /\ "fragment" \notin F[k].hdr.flags
               /\ Len(F) > 1 => "fragment" \in F[k].hdr.flags /\ F[k].hdr.total = Len(F)
    <2>1. FragmentOfFit(F, e, k)
      BY FragmentFits
    <2> QED
      BY <2>1, Zenon DEF FragmentOfFit
  <1>4. \A k \in 1..Len(F) : Len(F[k].data) \in 0..LenLimit
    <2>1. \A k \in 1..Len(F) : Len(F[k].data) \in Nat
      BY <1>2, KeptFacts
    <2>2. ASSUME NEW z \in Nat, z <= LenLimit PROVE z \in 0..LenLimit
      BY <2>2, Widths
    <2> QED
      BY <1>3, <2>1, <2>2
  <1>5. Len(F) # 0
    BY <1>2
  <1>6. ASSUME Len(F) = 1 PROVE F[1] = e /\ "fragment" \notin F[1].hdr.flags /\ Kept(F[1]) = F[1].hdr
    <2>1. F[1] = e /\ "fragment" \notin F[1].hdr.flags
      BY <1>3, <1>6
    <2>2. e \in Env /\ Len(e.data) = s /\ e.hdr.len = s % LenWidth
      BY NewEnvFacts
    <2>3. Kept(e) = e.hdr
      BY <2>2, KeptFacts, HeadersEqual
    <2> QED
      BY <2>1, <2>3
  <1>7. ASSUME Len(F) > 1 PROVE Reassemble(Arrived(F)) = e
    <2>1. PICK n \in Nat : n = FragmentCount(s, c)
      BY Chunked
    <2>2. n > 1
      <3>1. CASE n <= 1
        <4>1. F = <<e>>
          BY <2>1, <3>1, OneFragment
        <4>2. Len(F) = 1
          BY <4>1
        <4> QED
          BY <1>7, <4>2
      <3> QED
        BY <3>1
    <2> QED
      BY <2>1, <2>2, Joined
  <1>8. ASSUME Len(F) > 1, NEW k \in 1..Len(F)
        PROVE  "fragment" \in F[k].hdr.flags /\ F[k].hdr.total = Len(F)
    BY <1>3, <1>8
  <1>9. Planned(m, {e}, F)
    <2>1. \A k \in 1..Len(F) : F[k].hdr.index = k - 1 /\ Len(F[k].data) % LenWidth = Len(F[k].data)
      BY <1>3
    <2> QED
      BY <1>2, <1>4, <1>5, <1>6, <1>7, <1>8, <2>1, Zenon DEF Planned
  <1> QED
    BY <1>9

-----------------------------------------------------------------------------
(* Types of what is under way.                                             *)

HdrItem == [hdr : EnvelopeHeader]
UnitItem == [unit : Unit]

LEMMA ItemFacts ==
    /\ \A b \in HdrItem : "hdr" \in DOMAIN b /\ b.hdr \in EnvelopeHeader /\ b = [hdr |-> b.hdr]
    /\ \A b \in UnitItem : "hdr" \notin DOMAIN b /\ b.unit \in Unit
    /\ \A h \in EnvelopeHeader : [hdr |-> h] \in HdrItem
    /\ \A u \in Unit : [unit |-> u] \in UnitItem
    /\ \A b \in HdrItem \cup UnitItem : b \in HdrItem <=> "hdr" \in DOMAIN b
    /\ \A b \in UnitItem : b \notin HdrItem
  BY DEF HdrItem, UnitItem

LEMMA HeaderTypes ==
    ASSUME NEW h \in EnvelopeHeader
    PROVE  /\ h.corr \in Msgs \cup BodyKinds /\ h.type \in MsgType
           /\ h.flags \in SUBSET {"fragment", "last"}
           /\ h.prio \in 0..(ByteWidth - 1) /\ h.len \in 0..(LenWidth - 1) /\ h.len \in Nat
           /\ h.index \in 0..(FragWidth - 1) /\ h.total \in 0..(FragWidth - 1)
           /\ h.index \in Nat /\ h.total \in Nat /\ h.prio \in Nat
  BY Widths DEF EnvelopeHeader

\* The payload of an envelope as it is written.
Payload(e) == [i \in DOMAIN e.data |-> [unit |-> e.data[i]]]

LEMMA PacketFacts ==
    ASSUME NEW e \in Env
    PROVE  /\ MarshalBinary(e.hdr, Len(e.data)) = [hdr |-> Kept(e)]
           /\ [hdr |-> Kept(e)] \in HdrItem
           /\ Payload(e) \in Seq(UnitItem) /\ Len(Payload(e)) = Len(e.data)
           /\ \A j \in 1..Len(e.data) : Payload(e)[j] = [unit |-> e.data[j]]
  <1>1. MarshalBinary(e.hdr, Len(e.data)) = [hdr |-> Kept(e)]
    BY Zenon DEF MarshalBinary, Kept
  <1>2. Kept(e) \in EnvelopeHeader /\ e.data \in Seq(Unit)
    BY KeptFacts
  <1>3. PICK d : d = e.data
    OBVIOUS
  <1>4. d \in Seq(Unit) /\ Len(d) \in Nat /\ DOMAIN d = 1..Len(d) /\ \A i \in 1..Len(d) : d[i] \in Unit
    BY <1>2, <1>3, LenProperties, ElementOfSeq
  <1>5. Payload(e) = [i \in 1..Len(d) |-> [unit |-> d[i]]]
    BY <1>3, <1>4 DEF Payload
  <1>6. \A i \in 1..Len(d) : [unit |-> d[i]] \in UnitItem
    BY <1>4, ItemFacts
  <1>7. Payload(e) \in [1..Len(d) -> UnitItem]
    BY <1>5, <1>6
  <1>8. Payload(e) \in Seq(UnitItem) /\ Len(Payload(e)) = Len(d)
    BY <1>4, <1>7, FunSeq
  <1> QED
    BY <1>1, <1>2, <1>3, <1>5, <1>8, ItemFacts

LEMMA ProtoFacts ==
    ASSUME NEW e \in Env
    PROVE  /\ ToProtoEnvelope(e) \in ProtoMsg /\ ToProtoEnvelope(e).corr = e.hdr.corr
           /\ ToProtoEnvelope(e).index = e.hdr.index
  <1>1. e.hdr \in EnvelopeHeader /\ e.data \in Seq(Unit)
    BY KeptFacts
  <1>2. PICK h \in EnvelopeHeader, d \in Seq(Unit) : h = e.hdr /\ d = e.data
    BY <1>1
  <1>3. ToProtoEnvelope(e) = [corr |-> h.corr, type |-> h.type, flags |-> h.flags, prio |-> h.prio,
                              index |-> h.index, total |-> h.total, kind |-> "raw", data |-> d]
    BY <1>2, Zenon DEF ToProtoEnvelope, ProtoEnvelope
  <1>4. /\ h.corr \in Msgs \cup BodyKinds /\ h.type \in MsgType
        /\ h.flags \in SUBSET {"fragment", "last"} /\ h.prio \in Nat
        /\ h.index \in 0..(FragWidth - 1) /\ h.total \in 0..(FragWidth - 1)
    BY HeaderTypes
  <1> QED
    BY <1>2, <1>3, <1>4 DEF ProtoMsg

LEMMA KindTypes ==
    ASSUME NEW k \in BodyKinds \ {"raw", "none"}
    PROVE  TypeOf(k) \in MsgType
  BY EnvelopeAssumption DEF TypeOf, MsgType

LEMMA EncodeFacts == ASSUME NEW d \in Seq(Unit) PROVE EncodeBody(d) \in Seq(Unit)
  <1>1. <<"proto", 0>> \in Unit
    BY DEF Unit
  <1>2. <<<<"proto", 0>>>> \in Seq(Unit)
    BY <1>1
  <1> QED
    BY <1>2, ConcatProperties DEF EncodeBody

\* What FromProtoEnvelope makes of the body.
Body(p) == CASE p.kind = "raw"  -> p.data
             [] p.kind = "none" -> <<>>
             [] OTHER           -> EncodeBody(p.data)

LEMMA FromFacts ==
    ASSUME NEW p \in ProtoMsg
    PROVE  /\ FromProtoEnvelope(p) \in Env
           /\ FromProtoEnvelope(p).hdr.corr = p.corr
           /\ FromProtoEnvelope(p).hdr.index = p.index
  <1>1. /\ p.corr \in Msgs \cup BodyKinds /\ p.type \in MsgType /\ p.flags \in SUBSET {"fragment", "last"}
        /\ p.prio \in Nat /\ p.index \in 0..(FragWidth - 1) /\ p.total \in 0..(FragWidth - 1)
        /\ p.kind \in BodyKinds \cup {"raw"} /\ p.data \in Seq(Unit)
    BY DEF ProtoMsg
  <1>2. Body(p) \in Seq(Unit)
    <2>1. CASE p.kind = "raw"
      BY <1>1, <2>1 DEF Body
    <2>2. CASE p.kind = "none"
      BY <1>1, <2>2, EmptySeq DEF Body
    <2>3. CASE p.kind # "raw" /\ p.kind # "none"
      <3>1. Body(p) = EncodeBody(p.data)
        BY <2>3, Zenon DEF Body
      <3> QED
        BY <1>1, <3>1, EncodeFacts
    <2> QED
      BY <2>1, <2>2, <2>3
  <1>3. PICK d \in Seq(Unit) : d = Body(p)
    BY <1>2
  <1>4. PICK t : t = IF p.kind \in {"raw", "none"} THEN p.type ELSE TypeOf(p.kind)
    OBVIOUS
  <1>5. t \in MsgType
    BY <1>1, <1>4, KindTypes
  <1>6. /\ p.prio % ByteWidth \in 0..(ByteWidth - 1) /\ Len(d) % LenWidth \in 0..(LenWidth - 1)
        /\ p.index % FragWidth = p.index /\ p.total % FragWidth = p.total
    <2>1. Len(d) \in Nat
      BY LenProperties
    <2>2. \A x \in 0..(FragWidth - 1) : x \in Nat /\ x < FragWidth
      BY Widths
    <2> QED
      BY <1>1, <2>1, <2>2, Widths, Remainders
  <1>7. PICK x, y : x = p.prio % ByteWidth /\ y = Len(d) % LenWidth
    OBVIOUS
  <1>8. FromProtoEnvelope(p) =
          [hdr |-> [corr |-> p.corr, type |-> t, flags |-> p.flags, prio |-> x, len |-> y,
                    index |-> p.index, total |-> p.total], data |-> d]
    <2>1. FromProtoEnvelope(p) =
          [hdr |-> [corr |-> p.corr, type |-> t, flags |-> p.flags, prio |-> p.prio % ByteWidth,
                    len |-> Len(d) % LenWidth,
                    index |-> p.index % FragWidth, total |-> p.total % FragWidth], data |-> d]
      BY <1>3, <1>4, Zenon DEF FromProtoEnvelope, Body
    <2> QED
      BY <1>6, <1>7, <2>1, Zenon
  <1>9. x \in 0..(ByteWidth - 1) /\ y \in 0..(LenWidth - 1)
    BY <1>6, <1>7, Zenon
  <1>10. PICK h : h = [corr |-> p.corr, type |-> t, flags |-> p.flags, prio |-> x, len |-> y,
                       index |-> p.index, total |-> p.total]
    OBVIOUS
  <1>11. h \in EnvelopeHeader /\ h.corr = p.corr /\ h.index = p.index
    BY <1>1, <1>5, <1>9, <1>10 DEF EnvelopeHeader
  <1>12. FromProtoEnvelope(p) = [hdr |-> h, data |-> d]
    BY <1>8, <1>10, Zenon
  <1> QED
    BY <1>11, <1>12 DEF Env

\* What goes through a protobuf envelope is what goes over a Conn.
LEMMA RoundTrip ==
    ASSUME NEW e \in Env
    PROVE  FromProtoEnvelope(ToProtoEnvelope(e)) = [hdr |-> Kept(e), data |-> e.data]
  <1>1. e.hdr \in EnvelopeHeader /\ e.data \in Seq(Unit)
    BY KeptFacts
  <1>2. PICK h \in EnvelopeHeader, d \in Seq(Unit) : h = e.hdr /\ d = e.data
    BY <1>1
  <1>3. PICK p : p = ToProtoEnvelope(e)
    OBVIOUS
  <1>4. p = [corr |-> h.corr, type |-> h.type, flags |-> h.flags, prio |-> h.prio,
             index |-> h.index, total |-> h.total, kind |-> "raw", data |-> d]
    BY <1>2, <1>3, Zenon DEF ToProtoEnvelope, ProtoEnvelope
  <1>5. /\ p.corr = h.corr /\ p.type = h.type /\ p.flags = h.flags /\ p.prio = h.prio
        /\ p.index = h.index /\ p.total = h.total /\ p.kind = "raw" /\ p.data = d
    BY <1>4
  <1>6. /\ h.prio % ByteWidth = h.prio /\ h.index % FragWidth = h.index /\ h.total % FragWidth = h.total
    <2>1. \A x, w : w \in Nat \ {0} /\ x \in 0..(w - 1) => x \in Nat /\ x < w
      OBVIOUS
    <2> QED
      BY <2>1, HeaderTypes, Widths, Remainders
  <1>7. PICK y : y = Len(d) % LenWidth
    OBVIOUS
  <1>8. FromProtoEnvelope(p) =
          [hdr |-> [corr |-> h.corr, type |-> h.type, flags |-> h.flags, prio |-> h.prio, len |-> y,
                    index |-> h.index, total |-> h.total], data |-> d]
    <2>1. FromProtoEnvelope(p) =
            [hdr |-> [corr |-> p.corr, type |-> p.type, flags |-> p.flags, prio |-> p.prio % ByteWidth,
                      len |-> Len(p.data) % LenWidth,
                      index |-> p.index % FragWidth, total |-> p.total % FragWidth], data |-> p.data]
      <3>1. p.kind = "raw" /\ p.kind \in {"raw", "none"}
        BY <1>5
      <3> QED
        BY <3>1 DEF FromProtoEnvelope
    <2> QED
      BY <1>5, <1>6, <1>7, <2>1, Zenon
  <1>9. Kept(e) = [h EXCEPT !.len = y]
    BY <1>2, <1>7 DEF Kept
  <1>10. [h EXCEPT !.len = y] = [corr |-> h.corr, type |-> h.type, flags |-> h.flags, prio |-> h.prio,
                                len |-> y, index |-> h.index, total |-> h.total]
    BY DEF EnvelopeHeader
  <1> QED
    BY <1>2, <1>3, <1>8, <1>9, <1>10, Zenon

-----------------------------------------------------------------------------
(* The type invariant.                                                     *)

\* A header in conn is followed by the units it announces.
ConnShape ==
    \A i \in 1..Len(conn) : conn[i] \in HdrItem =>
        /\ i + conn[i].hdr.len <= Len(conn)
        /\ \A j \in 1..conn[i].hdr.len : conn[i + j] \in UnitItem

Origin == [size : Sizes, chunk : Chunks, env : Env]
HeldItem(n) == [ch : {"conn", "grpc"}, hdr : EnvelopeHeader, buf : 1..n]

LEMMA TypeParts ==
    ETypeOK <=>
      /\ origin \in [Msgs -> {NotSent} \cup Origin]
      /\ out \in Seq(Env) /\ grpc \in Seq(ProtoMsg) /\ bodies \in 0..MaxBodies
      /\ conn \in Seq(HdrItem \cup UnitItem) /\ connUp \in BOOLEAN
      /\ heap \in Seq(Seq(Unit)) /\ IsFiniteSet(held) /\ held \subseteq HeldItem(Len(heap))
      /\ delivered \subseteq Env
  BY Zenon DEF ETypeOK, Origin, HdrItem, UnitItem, HeldItem

LEMMA TypePartsNext ==
    ETypeOK' <=>
      /\ origin' \in [Msgs -> {NotSent} \cup Origin]
      /\ out' \in Seq(Env) /\ grpc' \in Seq(ProtoMsg) /\ bodies' \in 0..MaxBodies
      /\ conn' \in Seq(HdrItem \cup UnitItem) /\ connUp' \in BOOLEAN
      /\ heap' \in Seq(Seq(Unit)) /\ IsFiniteSet(held') /\ held' \subseteq HeldItem(Len(heap'))
      /\ delivered' \subseteq Env
  BY Zenon DEF ETypeOK, Origin, HdrItem, UnitItem, HeldItem

LEMMA TypeInit == EInit => ETypeOK /\ ConnShape
  <1> SUFFICES ASSUME EInit PROVE ETypeOK /\ ConnShape
    OBVIOUS
  <1>1. ETypeOK
    <2>1. /\ <<>> \in Seq(Env) /\ <<>> \in Seq(ProtoMsg) /\ <<>> \in Seq(HdrItem \cup UnitItem)
          /\ <<>> \in Seq(Seq(Unit)) /\ IsFiniteSet({})
      BY EmptySeq, FS_EmptySet
    <2>2. 0 \in 0..MaxBodies
      BY Widths
    <2> QED
      BY <2>1, <2>2, TypeParts DEF EInit
  <1>2. ConnShape
    BY EmptySeq DEF EInit, ConnShape
  <1> QED
    BY <1>1, <1>2

LEMMA TypeNew ==
    ASSUME ETypeOK, NEW m \in Msgs, NewEnvelope(m)
    PROVE  ETypeOK'
  <1>1. PICK s \in Sizes, c \in Chunks :
           /\ origin' = [origin EXCEPT ![m] = [size |-> s, chunk |-> c, env |-> NewEnv(m, s)]]
           /\ out' = out \o Fragments(NewEnv(m, s), c)
    BY Zenon DEF NewEnvelope, NewEnv
  <1>2. s \in Nat /\ c \in Nat \ {0}
    BY Widths
  <1>3. NewEnv(m, s) \in Env
    BY <1>2, NewEnvFacts
  <1>4. Fragments(NewEnv(m, s), c) \in Seq(Env)
    BY <1>2, FragmentFacts DEF FragmentsOf
  <1>5. [size |-> s, chunk |-> c, env |-> NewEnv(m, s)] \in Origin
    BY <1>3 DEF Origin
  <1>6. origin \in [Msgs -> {NotSent} \cup Origin] /\ out \in Seq(Env)
    BY TypeParts
  <1>7. origin' \in [Msgs -> {NotSent} \cup Origin]
    BY <1>1, <1>5, <1>6
  <1>8. out' \in Seq(Env)
    BY <1>1, <1>4, <1>6, ConcatProperties
  <1>9. UNCHANGED <<conn, connUp, grpc, bodies, heap, held, delivered>>
    BY DEF NewEnvelope
  <1> QED
    BY <1>7, <1>8, <1>9, TypeParts, TypePartsNext

LEMMA TypeConnSend ==
    ASSUME ETypeOK, ConnSend
    PROVE  ETypeOK'
  <1>1. out \in Seq(Env) /\ conn \in Seq(HdrItem \cup UnitItem) /\ out # <<>>
    BY TypeParts DEF ConnSend
  <1>2. PICK e \in Env : e = Head(out)
    BY <1>1, HeadTailProperties
  <1>3. conn' = Append(conn, [hdr |-> Kept(e)]) \o Payload(e) /\ out' = Tail(out)
    <2>1. conn' = Append(conn, MarshalBinary(e.hdr, Len(e.data))) \o Payload(e) /\ out' = Tail(out)
      BY <1>2, Zenon DEF ConnSend, Payload
    <2> QED
      BY <2>1, PacketFacts, Zenon
  <1>4. [hdr |-> Kept(e)] \in HdrItem \cup UnitItem /\ Payload(e) \in Seq(HdrItem \cup UnitItem)
    BY PacketFacts, SeqMonotonic
  <1>5. Append(conn, [hdr |-> Kept(e)]) \in Seq(HdrItem \cup UnitItem)
    BY <1>1, <1>4, AppendProperties
  <1>6. conn' \in Seq(HdrItem \cup UnitItem) /\ out' \in Seq(Env)
    BY <1>1, <1>3, <1>4, <1>5, ConcatProperties, HeadTailProperties
  <1>7. UNCHANGED <<origin, connUp, grpc, bodies, heap, held, delivered>>
    BY DEF ConnSend
  <1> QED
    BY <1>6, <1>7, TypeParts, TypePartsNext

LEMMA TypeStreamSend ==
    ASSUME ETypeOK, StreamSend
    PROVE  ETypeOK'
  <1>1. out \in Seq(Env) /\ grpc \in Seq(ProtoMsg) /\ out # <<>>
    BY TypeParts DEF StreamSend
  <1>2. Head(out) \in Env /\ Tail(out) \in Seq(Env)
    BY <1>1, HeadTailProperties
  <1>3. Append(grpc, ToProtoEnvelope(Head(out))) \in Seq(ProtoMsg)
    BY <1>1, <1>2, ProtoFacts, AppendProperties
  <1> QED
    BY <1>2, <1>3, TypeParts, TypePartsNext DEF StreamSend

LEMMA PeerMsg ==
    ASSUME NEW k \in BodyKinds, NEW p \in Priorities
    PROVE  /\ ProtoEnvelope(k, "unknown", {}, p, 0, 0, k, <<<<k, 1>>>>) \in ProtoMsg
           /\ ProtoEnvelope(k, "unknown", {}, p, 0, 0, k, <<<<k, 1>>>>).corr = k
  <1>1. <<k, 1>> \in Unit
    BY DEF Unit
  <1>2. <<<<k, 1>>>> \in Seq(Unit)
    BY <1>1
  <1>3. p \in Nat /\ 0 \in 0..(FragWidth - 1) /\ "unknown" \in MsgType
    BY Widths DEF MsgType
  <1>4. PICK d \in Seq(Unit) : d = <<<<k, 1>>>>
    BY <1>2
  <1>5. ProtoEnvelope(k, "unknown", {}, p, 0, 0, k, d) \in ProtoMsg /\ ProtoEnvelope(k, "unknown", {}, p, 0, 0, k, d).corr = k
    BY <1>3 DEF ProtoEnvelope, ProtoMsg
  <1> QED
    BY <1>4, <1>5

LEMMA TypePeerSend ==
    ASSUME ETypeOK, NEW k \in BodyKinds, PeerSend(k)
    PROVE  ETypeOK'
  <1>1. PICK p \in Priorities : grpc' = Append(grpc, ProtoEnvelope(k, "unknown", {}, p, 0, 0, k, <<<<k, 1>>>>))
    BY Zenon DEF PeerSend
  <1>2. grpc \in Seq(ProtoMsg)
    BY TypeParts
  <1>3. grpc' \in Seq(ProtoMsg)
    BY <1>1, <1>2, PeerMsg, AppendProperties
  <1>4. bodies' \in 0..MaxBodies
    <2>1. bodies \in 0..MaxBodies /\ bodies < MaxBodies /\ bodies' = bodies + 1
      BY TypeParts DEF PeerSend
    <2> QED
      BY <2>1, Widths
  <1>5. UNCHANGED <<origin, out, conn, connUp, heap, held, delivered>>
    BY DEF PeerSend
  <1> QED
    BY <1>3, <1>4, <1>5, TypeParts, TypePartsNext

ConnItem == HdrItem \cup UnitItem

\* d is the payload of n units behind the header that q begins with, r the rest.
Taken(q, n, d, r) ==
    /\ d \in Seq(Unit) /\ Len(d) = n /\ \A j \in 1..n : d[j] = q[1 + j].unit
    /\ r \in Seq(ConnItem) /\ Len(r) = Len(q) - 1 - n
    /\ \A i \in 1..Len(r) : r[i] = q[1 + n + i]

LEMMA TakenFacts ==
    ASSUME NEW q \in Seq(ConnItem), NEW n \in Nat, 1 + n <= Len(q), \A j \in 1..n : q[1 + j] \in UnitItem
    PROVE  Taken(q, n, Units(SubSeq(q, 2, 1 + n)), SubSeq(q, 2 + n, Len(q)))
  <1>0. Len(q) \in Nat
    BY LenProperties
  <1>1. PICK u : u = SubSeq(q, 2, 1 + n)
    OBVIOUS
  <1>2. u \in Seq(ConnItem) /\ Len(u) = n /\ \A i \in 1..n : u[i] = q[1 + i]
    <2>1. 2 \in Nat \ {0} /\ 1 + n \in Nat /\ 2 <= (1 + n) + 1 /\ (1 + n) - 2 + 1 = n
      OBVIOUS
    <2>2. /\ u \in Seq(ConnItem) /\ Len(u) = (1 + n) - 2 + 1
          /\ \A i \in 1..((1 + n) - 2 + 1) : u[i] = q[2 + i - 1]
      BY <1>1, <2>1, SubSeqFacts
    <2>3. \A i \in 1..n : 2 + i - 1 = 1 + i
      OBVIOUS
    <2> QED
      BY <2>1, <2>2, <2>3
  <1>3. DOMAIN u = 1..n
    BY <1>2, LenProperties
  <1>4. Units(u) = [i \in 1..n |-> u[i].unit]
    BY <1>3 DEF Units
  <1>5. \A i \in 1..n : u[i] = q[1 + i] /\ u[i].unit \in Unit
    BY <1>2, ItemFacts
  <1>6. Units(u) \in [1..n -> Unit]
    BY <1>4, <1>5
  <1>7. Units(u) \in Seq(Unit) /\ Len(Units(u)) = n
    BY <1>6, FunSeq
  <1>8. \A j \in 1..n : Units(u)[j] = q[1 + j].unit
    BY <1>4, <1>5
  <1>9. PICK r : r = SubSeq(q, 2 + n, Len(q))
    OBVIOUS
  <1>10. r \in Seq(ConnItem) /\ Len(r) = Len(q) - 1 - n /\ \A i \in 1..Len(r) : r[i] = q[1 + n + i]
    <2>1. PICK l \in Nat : l = Len(q)
      BY <1>0
    <2>2. 2 + n \in Nat \ {0} /\ 2 + n <= l + 1 /\ l - (2 + n) + 1 = l - 1 - n
      BY <2>1
    <2>3. /\ r \in Seq(ConnItem) /\ Len(r) = l - (2 + n) + 1
          /\ \A i \in 1..(l - (2 + n) + 1) : r[i] = q[(2 + n) + i - 1]
      BY <1>9, <2>1, <2>2, SubSeqFacts
    <2>4. \A i \in 1..(l - 1 - n) : (2 + n) + i - 1 = 1 + n + i
      OBVIOUS
    <2> QED
      BY <2>1, <2>2, <2>3, <2>4
  <1> QED
    BY <1>1, <1>7, <1>8, <1>9, <1>10 DEF Taken

\* What ConnRecv does: x is what is kept.
Received(h, d, r) ==
    /\ conn # <<>> /\ connUp
    /\ conn[1] = [hdr |-> h] /\ conn[1] \in HdrItem /\ h \in EnvelopeHeader /\ h.len \in Nat
    /\ 1 + h.len <= Len(conn) /\ \A j \in 1..h.len : conn[1 + j] \in UnitItem
    /\ h.len <= LenLimit
    /\ Taken(conn, h.len, d, r)
    /\ conn' = r
    /\ heap' = Append(heap, d)
    /\ held' = held \cup {[ch |-> "conn", hdr |-> h, buf |-> Len(heap) + 1]}
    /\ UNCHANGED <<origin, out, connUp, grpc, bodies, delivered>>

LEMMA ConnRecvDoes ==
    ASSUME ETypeOK, ConnShape, ConnRecv
    PROVE  \E h, d, r : Received(h, d, r)
  <1>1. conn \in Seq(ConnItem) /\ conn # <<>>
    BY TypeParts DEF ConnRecv, ConnItem
  <1>2. Len(conn) \in Nat \ {0} /\ Head(conn) = conn[1] /\ conn[1] \in ConnItem
    BY <1>1, EmptySeq, ElementOfSeq
  <1>3. 1 \in 1..Len(conn)
    BY <1>2
  <1>4. "hdr" \in DOMAIN conn[1] /\ conn[1].hdr.len <= LenLimit
    BY <1>2 DEF ConnRecv, Readable
  <1>5. conn[1] \in HdrItem
    BY <1>2, <1>4, ItemFacts DEF ConnItem
  <1>6. PICK h : h = conn[1].hdr
    OBVIOUS
  <1>7. h \in EnvelopeHeader /\ conn[1] = [hdr |-> h] /\ h.len \in Nat
    BY <1>5, <1>6, ItemFacts, HeaderTypes
  <1>8. 1 + h.len <= Len(conn) /\ \A j \in 1..h.len : conn[1 + j] \in UnitItem
    BY <1>3, <1>5, <1>6 DEF ConnShape
  <1>9. PICK d, r : d = Units(SubSeq(conn, 2, 1 + h.len)) /\ r = SubSeq(conn, 2 + h.len, Len(conn))
    OBVIOUS
  <1>10. Taken(conn, h.len, d, r)
    BY <1>1, <1>7, <1>8, <1>9, TakenFacts
  <1>11. conn' = r
    BY <1>2, <1>6, <1>9 DEF ConnRecv
  <1>12. /\ heap' = Append(heap, d)
         /\ held' = held \cup {[ch |-> "conn", hdr |-> h, buf |-> Len(heap) + 1]}
    <2>1. ReadFrom /\ h = Head(conn).hdr
      BY <1>2, <1>6 DEF ConnRecv
    <2>2. PICK e : e = [hdr |-> h, data |-> d]
      OBVIOUS
    <2>3. Keep(e, "conn")
      BY <1>9, <2>1, <2>2, Zenon DEF ReadFrom
    <2>4. e.hdr = h /\ e.data = d
      BY <2>2
    <2> QED
      BY <2>3, <2>4, Zenon DEF Keep
  <1>13. UNCHANGED <<origin, out, connUp, grpc, bodies, delivered>> /\ connUp
    BY DEF ConnRecv
  <1>14. Received(h, d, r)
    BY <1>1, <1>4, <1>5, <1>6, <1>7, <1>8, <1>10, <1>11, <1>12, <1>13, Zenon DEF Received
  <1> QED
    BY <1>14

LEMMA HeldGrows ==
    ASSUME heap \in Seq(Seq(Unit)), IsFiniteSet(held), held \subseteq HeldItem(Len(heap)),
           NEW h \in EnvelopeHeader, NEW d \in Seq(Unit), NEW ch \in {"conn", "grpc"},
           heap' = Append(heap, d), held' = held \cup {[ch |-> ch, hdr |-> h, buf |-> Len(heap) + 1]}
    PROVE  heap' \in Seq(Seq(Unit)) /\ IsFiniteSet(held') /\ held' \subseteq HeldItem(Len(heap'))
  <1>1. heap' \in Seq(Seq(Unit)) /\ Len(heap') = Len(heap) + 1 /\ Len(heap) \in Nat
    BY AppendProperties, LenProperties
  <1>2. IsFiniteSet(held')
    BY FS_AddElement
  <1>3. PICK n \in Nat : n = Len(heap)
    BY <1>1
  <1>4. HeldItem(n) \subseteq HeldItem(n + 1)
    BY DEF HeldItem
  <1>5. [ch |-> ch, hdr |-> h, buf |-> n + 1] \in HeldItem(n + 1)
    BY DEF HeldItem
  <1> QED
    BY <1>1, <1>2, <1>3, <1>4, <1>5

LEMMA TypeConnRecv ==
    ASSUME ETypeOK, ConnShape, ConnRecv
    PROVE  ETypeOK'
  <1>1. PICK h, d, r : Received(h, d, r)
    BY ConnRecvDoes
  <1>2. /\ h \in EnvelopeHeader /\ conn' = r /\ heap' = Append(heap, d)
        /\ held' = held \cup {[ch |-> "conn", hdr |-> h, buf |-> Len(heap) + 1]}
        /\ UNCHANGED <<origin, out, connUp, grpc, bodies, delivered>>
    BY <1>1, Zenon DEF Received
  <1>3. d \in Seq(Unit) /\ r \in Seq(HdrItem \cup UnitItem)
    BY <1>1 DEF Received, Taken, ConnItem
  <1>4. heap \in Seq(Seq(Unit)) /\ IsFiniteSet(held) /\ held \subseteq HeldItem(Len(heap))
    BY TypeParts
  <1>5. heap' \in Seq(Seq(Unit)) /\ IsFiniteSet(held') /\ held' \subseteq HeldItem(Len(heap'))
    BY <1>2, <1>3, <1>4, HeldGrows
  <1> QED
    BY <1>2, <1>3, <1>5, TypeParts, TypePartsNext

LEMMA TypeConnRecvFails == ASSUME ETypeOK, ConnRecvFails PROVE ETypeOK'
  <1>1. <<>> \in Seq(HdrItem \cup UnitItem)
    BY EmptySeq
  <1> QED
    BY <1>1, TypeParts, TypePartsNext DEF ConnRecvFails

LEMMA TypeStreamRecv == ASSUME ETypeOK, StreamRecv PROVE ETypeOK'
  <1>1. grpc \in Seq(ProtoMsg) /\ grpc # <<>> /\ grpc' = Tail(grpc)
    BY TypeParts DEF StreamRecv
  <1>2. Head(grpc) \in ProtoMsg /\ Tail(grpc) \in Seq(ProtoMsg)
    BY <1>1, HeadTailProperties
  <1>3. PICK e \in Env : e = FromProtoEnvelope(Head(grpc))
    BY <1>2, FromFacts
  <1>4. /\ heap' = Append(heap, e.data)
        /\ held' = held \cup {[ch |-> "grpc", hdr |-> e.hdr, buf |-> Len(heap) + 1]}
    BY <1>3, Zenon DEF StreamRecv, Keep
  <1>5. e.hdr \in EnvelopeHeader /\ e.data \in Seq(Unit)
    BY KeptFacts
  <1>6. PICK h \in EnvelopeHeader, d \in Seq(Unit) : h = e.hdr /\ d = e.data
    BY <1>5
  <1>7. heap \in Seq(Seq(Unit)) /\ IsFiniteSet(held) /\ held \subseteq HeldItem(Len(heap))
    BY TypeParts
  <1>8. heap' \in Seq(Seq(Unit)) /\ IsFiniteSet(held') /\ held' \subseteq HeldItem(Len(heap'))
    BY <1>4, <1>6, <1>7, HeldGrows
  <1>9. UNCHANGED <<origin, out, conn, connUp, bodies, delivered>>
    BY DEF StreamRecv
  <1> QED
    BY <1>1, <1>2, <1>8, <1>9, TypeParts, TypePartsNext

LEMMA ReassembleFacts ==
    ASSUME NEW n \in Nat \ {0}, NEW frags \in [1..n -> Env]
    PROVE  Reassemble(frags) \in Env /\ Reassemble(frags).hdr.corr = frags[1].hdr.corr
  <1> DEFINE w == [i \in DOMAIN frags |-> frags[i].data]
  <1>1. w \in [1..n -> Seq(Unit)]
    BY KeptFacts
  <1> HIDE DEF w
  <1>2. w \in Seq(Seq(Unit)) /\ Len(w) = n /\ w # <<>>
    BY <1>1, FunSeq
  <1>3. FlattenSeq(w) \in Seq(Unit)
    <2>1. PICK acc : Grows(acc, Unit, w, n) /\ FlattenSeq(w) = acc[n]
      BY <1>2, FlattenGrows
    <2> QED
      BY <2>1 DEF Grows
  <1>4. PICK d \in Seq(Unit) : d = FlattenSeq(w)
    BY <1>3
  <1>5. Len(d) % LenWidth \in 0..(LenWidth - 1)
    BY LenProperties, Widths, Remainders
  <1>6. PICK z \in 0..(LenWidth - 1) : z = Len(d) % LenWidth
    BY <1>5
  <1>7. PICK h \in EnvelopeHeader : h = frags[1].hdr
    <2>1. 1 \in 1..n
      OBVIOUS
    <2> QED
      BY <2>1, KeptFacts
  <1>8. PICK g : g = [h EXCEPT !.flags = @ \ {"fragment", "last"}, !.index = 0, !.total = 0, !.len = z]
    OBVIOUS
  <1>9. 0 \in 0..(FragWidth - 1)
    BY Widths
  <1>10. g \in EnvelopeHeader /\ g.corr = h.corr
    BY <1>8, <1>9 DEF EnvelopeHeader
  <1>11. Reassemble(frags) = [hdr |-> g, data |-> d]
    BY <1>4, <1>6, <1>7, <1>8, Zenon DEF Reassemble, w
  <1> QED
    BY <1>7, <1>10, <1>11 DEF Env

\* What Deliver does: n pieces in the order s are put together as x.
Delivers(m, n, s, frags, x) ==
    /\ n \in Nat \ {0} /\ n = Cardinality(Pieces(m)) /\ s \in [1..n -> Pieces(m)]
    /\ \A i, j \in 1..n : i # j => s[i] # s[j]
    /\ \A i, j \in 1..n : i < j => s[i].hdr.index <= s[j].hdr.index
    /\ frags \in [1..n -> Env]
    /\ \A i \in 1..n : frags[i] = [hdr |-> s[i].hdr, data |-> heap[s[i].buf]]
    /\ x = IF IsFragment(s[1]) THEN Reassemble(frags) ELSE frags[1]
    /\ x \in Env /\ x.hdr.corr = m
    /\ Complete(Pieces(m))
    /\ delivered' = delivered \cup {x}
    /\ held' = held \ Pieces(m)
    /\ heap' = IF held' = {} THEN <<>> ELSE heap
    /\ UNCHANGED <<origin, out, conn, connUp, grpc, bodies>>

LEMMA DeliverDoes ==
    ASSUME ETypeOK, NEW m, Deliver(m)
    PROVE  \E n, s, frags, x : Delivers(m, n, s, frags, x)
  <1>1. /\ heap \in Seq(Seq(Unit)) /\ IsFiniteSet(held) /\ held \subseteq HeldItem(Len(heap))
    BY TypeParts
  <1>2. PICK P : P = Pieces(m)
    OBVIOUS
  <1>3. P # {} /\ Complete(Pieces(m)) /\ P \subseteq held
    BY <1>2 DEF Deliver, Complete, Pieces
  <1>4. IsFiniteSet(P)
    BY <1>1, <1>3, FS_Subset
  <1>5. PICK n \in Nat \ {0} : n = Cardinality(P)
    BY <1>3, <1>4, FS_EmptySet, FS_CardinalityType
  <1>6. PICK s \in SetToSeqs(P) :
          LET frags == [i \in DOMAIN s |-> [hdr |-> s[i].hdr, data |-> heap[s[i].buf]]] IN
          /\ \A i, j \in DOMAIN s : i < j => s[i].hdr.index <= s[j].hdr.index
          /\ delivered' = delivered \cup {IF IsFragment(s[1]) THEN Reassemble(frags) ELSE frags[1]}
    BY <1>2, Zenon DEF Deliver
  <1>7. s \in [1..n -> P] /\ \A i, j \in 1..n : i # j => s[i] # s[j]
    BY <1>5, Zenon DEF SetToSeqs
  <1>8. DOMAIN s = 1..n
    BY <1>7
  <1> DEFINE frags == [i \in 1..n |-> [hdr |-> s[i].hdr, data |-> heap[s[i].buf]]]
             x == IF IsFragment(s[1]) THEN Reassemble(frags) ELSE frags[1]
  <1>9. /\ \A i, j \in 1..n : i < j => s[i].hdr.index <= s[j].hdr.index
        /\ delivered' = delivered \cup {x}
    BY <1>6, <1>8, Zenon
  <1>10. ASSUME NEW i \in 1..n
         PROVE  /\ s[i] \in P /\ s[i].hdr \in EnvelopeHeader /\ heap[s[i].buf] \in Seq(Unit) /\ s[i].hdr.corr = m
    <2>1. s[i] \in P /\ s[i] \in HeldItem(Len(heap))
      BY <1>1, <1>3, <1>7
    <2>2. s[i].hdr \in EnvelopeHeader /\ s[i].buf \in 1..Len(heap)
      BY <2>1 DEF HeldItem
    <2>3. heap[s[i].buf] \in Seq(Unit)
      BY <1>1, <2>2, ElementOfSeq
    <2>4. s[i].hdr.corr = m
      BY <1>2, <2>1 DEF Pieces
    <2> QED
      BY <2>1, <2>2, <2>3, <2>4
  <1>11. frags \in [1..n -> Env] /\ \A i \in 1..n : frags[i] = [hdr |-> s[i].hdr, data |-> heap[s[i].buf]]
    <2>1. \A i \in 1..n : [hdr |-> s[i].hdr, data |-> heap[s[i].buf]] \in Env
      BY <1>10 DEF Env
    <2> QED
      BY <2>1
  <1> HIDE DEF frags
  <1>12. 1 \in 1..n
    OBVIOUS
  <1>13. frags[1] \in Env /\ frags[1].hdr.corr = m
    BY <1>10, <1>11, <1>12
  <1>14. Reassemble(frags) \in Env /\ Reassemble(frags).hdr.corr = m
    BY <1>11, <1>13, ReassembleFacts
  <1>15. x \in Env /\ x.hdr.corr = m
    BY <1>13, <1>14
  <1>16. x = IF IsFragment(s[1]) THEN Reassemble(frags) ELSE frags[1]
    OBVIOUS
  <1> HIDE DEF x
  <1>17. /\ held' = held \ Pieces(m) /\ heap' = (IF held' = {} THEN <<>> ELSE heap)
         /\ UNCHANGED <<origin, out, conn, connUp, grpc, bodies>>
    BY Zenon DEF Deliver
  <1>18. Delivers(m, n, s, frags, x)
    BY <1>2, <1>3, <1>5, <1>7, <1>9, <1>11, <1>15, <1>16, <1>17, Zenon DEF Delivers
  <1> QED
    BY <1>18

LEMMA TypeDeliver == ASSUME ETypeOK, NEW m, Deliver(m) PROVE ETypeOK'
  <1>1. PICK n, s, frags, x : Delivers(m, n, s, frags, x)
    BY DeliverDoes
  <1>2. /\ x \in Env /\ delivered' = delivered \cup {x} /\ held' = held \ Pieces(m)
        /\ heap' = (IF held' = {} THEN <<>> ELSE heap)
        /\ UNCHANGED <<origin, out, conn, connUp, grpc, bodies>>
    BY <1>1, Zenon DEF Delivers
  <1>3. heap \in Seq(Seq(Unit)) /\ IsFiniteSet(held) /\ held \subseteq HeldItem(Len(heap)) /\ delivered \subseteq Env
    BY TypeParts
  <1>4. IsFiniteSet(held')
    BY <1>2, <1>3, FS_Difference
  <1>5. heap' \in Seq(Seq(Unit))
    BY <1>2, <1>3, EmptySeq
  <1>6. held' \subseteq HeldItem(Len(heap'))
    <2>1. CASE held' = {}
      BY <2>1
    <2>2. CASE held' # {}
      BY <1>2, <1>3, <2>2
    <2> QED
      BY <2>1, <2>2
  <1> QED
    BY <1>2, <1>3, <1>4, <1>5, <1>6, TypeParts, TypePartsNext

LEMMA TypeStep == ETypeOK /\ ConnShape /\ [ENext]_evars => ETypeOK'
  <1> SUFFICES ASSUME ETypeOK, ConnShape, [ENext]_evars PROVE ETypeOK'
    OBVIOUS
  <1>1. CASE \E m \in Msgs : NewEnvelope(m)
    BY <1>1, TypeNew
  <1>2. CASE ConnSend
    BY <1>2, TypeConnSend
  <1>3. CASE StreamSend
    BY <1>3, TypeStreamSend
  <1>4. CASE ConnRecv
    BY <1>4, TypeConnRecv
  <1>5. CASE ConnRecvFails
    BY <1>5, TypeConnRecvFails
  <1>6. CASE StreamRecv
    BY <1>6, TypeStreamRecv
  <1>7. CASE \E k \in BodyKinds : PeerSend(k)
    BY <1>7, TypePeerSend
  <1>8. CASE \E m \in Msgs \cup BodyKinds : Deliver(m)
    BY <1>8, TypeDeliver
  <1>9. CASE UNCHANGED evars
    BY <1>9, TypeParts, TypePartsNext DEF evars
  <1> QED
    BY <1>1, <1>2, <1>3, <1>4, <1>5, <1>6, <1>7, <1>8, <1>9, Zenon DEF ENext

-----------------------------------------------------------------------------
(* The shape of what is between two Conns.                                 *)

\* q2 is q with e written behind it.
Writes(q, e, q2) ==
    /\ q2 \in Seq(ConnItem) /\ Len(q2) = Len(q) + 1 + Len(e.data)
    /\ \A i \in 1..Len(q) : q2[i] = q[i]
    /\ q2[Len(q) + 1] = [hdr |-> Kept(e)]
    /\ \A j \in 1..Len(e.data) : q2[Len(q) + 1 + j] = [unit |-> e.data[j]]

LEMMA WritesFacts ==
    ASSUME NEW q \in Seq(ConnItem), NEW e \in Env
    PROVE  Writes(q, e, Append(q, [hdr |-> Kept(e)]) \o Payload(e))
  <1>1. PICK a, p : a = Append(q, [hdr |-> Kept(e)]) /\ p = Payload(e)
    OBVIOUS
  <1>2. PICK l \in Nat, n \in Nat : l = Len(q) /\ n = Len(e.data)
    BY LenProperties, KeptFacts
  <1>3. [hdr |-> Kept(e)] \in ConnItem
    BY PacketFacts DEF ConnItem
  <1>4. a \in Seq(ConnItem) /\ Len(a) = l + 1 /\ (\A i \in 1..l : a[i] = q[i]) /\ a[l + 1] = [hdr |-> Kept(e)]
    BY <1>1, <1>2, <1>3, AppendProperties
  <1>5. p \in Seq(ConnItem) /\ Len(p) = n /\ \A j \in 1..n : p[j] = [unit |-> e.data[j]]
    BY <1>1, <1>2, PacketFacts, SeqMonotonic DEF ConnItem
  <1>6. PICK z : z = a \o p
    OBVIOUS
  <1>7. /\ z \in Seq(ConnItem) /\ Len(z) = (l + 1) + n
        /\ \A i \in 1..((l + 1) + n) : z[i] = IF i <= l + 1 THEN a[i] ELSE p[i - (l + 1)]
    <2>1. /\ a \o p \in Seq(ConnItem) /\ Len(a \o p) = Len(a) + Len(p)
          /\ \A i \in 1..(Len(a) + Len(p)) : (a \o p)[i] = IF i <= Len(a) THEN a[i] ELSE p[i - Len(a)]
      BY <1>4, <1>5, ConcatProperties
    <2>2. Len(a) = l + 1 /\ Len(p) = n
      BY <1>4, <1>5
    <2> QED
      BY <1>6, <2>1, <2>2, Zenon
  <1>8. \A i \in 1..l : z[i] = q[i]
    BY <1>4, <1>7
  <1>9. z[l + 1] = [hdr |-> Kept(e)]
    BY <1>4, <1>7
  <1>10. ASSUME NEW j \in 1..n PROVE z[l + 1 + j] = [unit |-> e.data[j]]
    <2>1. l + 1 + j \in 1..((l + 1) + n) /\ ~(l + 1 + j <= l + 1) /\ (l + 1 + j) - (l + 1) = j
      OBVIOUS
    <2>2. z[l + 1 + j] = p[(l + 1 + j) - (l + 1)]
      BY <1>7, <2>1
    <2> QED
      BY <1>5, <2>1, <2>2
  <1>11. Writes(q, e, z)
    BY <1>2, <1>7, <1>8, <1>9, <1>10 DEF Writes
  <1> QED
    BY <1>1, <1>6, <1>11

\* Where the headers are in what was written.
LEMMA WritesWhere ==
    ASSUME NEW q \in Seq(ConnItem), NEW e \in Env, NEW q2, Writes(q, e, q2), NEW i \in 1..Len(q2)
    PROVE  /\ Len(q) \in Nat /\ Len(e.data) \in Nat
           /\ \/ i \in 1..Len(q) /\ q2[i] = q[i]
              \/ i = Len(q) + 1 /\ q2[i] = [hdr |-> Kept(e)]
              \/ q2[i] \in UnitItem
  <1>1. PICK l \in Nat, n \in Nat : l = Len(q) /\ n = Len(e.data)
    BY LenProperties, KeptFacts
  <1>2. /\ Len(q2) = l + 1 + n /\ (\A j \in 1..l : q2[j] = q[j]) /\ q2[l + 1] = [hdr |-> Kept(e)]
        /\ \A j \in 1..n : q2[l + 1 + j] = [unit |-> e.data[j]]
    BY <1>1 DEF Writes
  <1>3. CASE i \in 1..l
    BY <1>1, <1>2, <1>3
  <1>4. CASE i = l + 1
    BY <1>1, <1>2, <1>4
  <1>5. CASE i > l + 1
    <2>1. PICK j \in 1..n : i = l + 1 + j
      <3>1. i - (l + 1) \in 1..n /\ i = l + 1 + (i - (l + 1))
        BY <1>2, <1>5
      <3> QED
        BY <3>1
    <2>2. e.data[j] \in Unit
      BY <1>1, KeptFacts, ElementOfSeq
    <2>3. q2[i] = [unit |-> e.data[j]]
      BY <1>2, <2>1
    <2>4. q2[i] \in UnitItem
      BY <2>2, <2>3, ItemFacts
    <2> QED
      BY <1>1, <2>4
  <1>6. i \in 1..l \/ i = l + 1 \/ i > l + 1
    BY <1>2
  <1> QED
    BY <1>3, <1>4, <1>5, <1>6

Shape(q) ==
    \A i \in 1..Len(q) : q[i] \in HdrItem =>
        /\ i + q[i].hdr.len <= Len(q)
        /\ \A j \in 1..q[i].hdr.len : q[i + j] \in UnitItem

LEMMA ShapeWrites ==
    ASSUME NEW q \in Seq(ConnItem), NEW e \in Env, NEW q2, Writes(q, e, q2), Shape(q)
    PROVE  Shape(q2)
  <1>1. SUFFICES ASSUME NEW i \in 1..Len(q2), q2[i] \in HdrItem
                 PROVE  /\ i + q2[i].hdr.len <= Len(q2)
                        /\ \A j \in 1..q2[i].hdr.len : q2[i + j] \in UnitItem
    BY Zenon DEF Shape
  <1>2. PICK l \in Nat, n \in Nat : l = Len(q) /\ n = Len(e.data)
    BY LenProperties, KeptFacts
  <1>3. /\ Len(q2) = l + 1 + n /\ (\A j \in 1..l : q2[j] = q[j]) /\ q2[l + 1] = [hdr |-> Kept(e)]
        /\ \A j \in 1..n : q2[l + 1 + j] = [unit |-> e.data[j]]
    BY <1>2 DEF Writes
  <1>4. PICK h \in EnvelopeHeader : q2[i] = [hdr |-> h] /\ q2[i].hdr = h /\ h.len \in Nat
    BY <1>1, ItemFacts, HeaderTypes
  <1>5. CASE i \in 1..l /\ q2[i] = q[i]
    <2>1. i + h.len <= l /\ \A j \in 1..h.len : q[i + j] \in UnitItem
      BY <1>1, <1>2, <1>4, <1>5 DEF Shape
    <2>2. ASSUME NEW j \in 1..h.len PROVE q2[i + j] \in UnitItem
      <3>1. i + j \in 1..l
        <4>1. PICK y \in Nat : y = h.len
          BY <1>4
        <4>2. i + y <= l /\ j \in 1..y /\ i \in 1..l
          BY <1>5, <2>1, <4>1
        <4> QED
          BY <4>2
      <3> QED
        BY <1>3, <2>1, <3>1
    <2>3. i + h.len <= l + 1 + n
      BY <1>4, <1>5, <2>1
    <2> QED
      BY <1>3, <1>4, <2>2, <2>3
  <1>6. CASE i = l + 1 /\ q2[i] = [hdr |-> Kept(e)]
    <2>1. h = Kept(e)
      BY <1>4, <1>6
    <2>2. h.len = n % LenWidth
      BY <1>2, <2>1, KeptFacts
    <2>3. h.len <= n
      BY <2>2, Widths, Remainders
    <2>4. ASSUME NEW j \in 1..h.len PROVE q2[i + j] \in UnitItem
      <3>1. j \in 1..n /\ i + j = l + 1 + j
        BY <1>4, <1>6, <2>3
      <3>2. e.data[j] \in Unit
        BY <1>2, <3>1, KeptFacts, ElementOfSeq
      <3>3. q2[i + j] = [unit |-> e.data[j]]
        BY <1>3, <3>1, Zenon
      <3>4. [unit |-> e.data[j]] \in UnitItem
        BY <3>2, ItemFacts
      <3> QED
        BY <3>3, <3>4
    <2>5. i + h.len <= l + 1 + n
      BY <1>4, <1>6, <2>3
    <2> QED
      BY <1>3, <1>4, <2>4, <2>5
  <1>7. CASE q2[i] \in UnitItem
    BY <1>1, <1>7, ItemFacts
  <1> QED
    BY <1>2, <1>5, <1>6, <1>7, WritesWhere

LEMMA ShapeTaken ==
    ASSUME NEW q \in Seq(ConnItem), NEW n \in Nat, NEW d, NEW r, 1 + n <= Len(q), Taken(q, n, d, r), Shape(q)
    PROVE  Shape(r)
  <1>1. SUFFICES ASSUME NEW i \in 1..Len(r), r[i] \in HdrItem
                 PROVE  /\ i + r[i].hdr.len <= Len(r)
                        /\ \A j \in 1..r[i].hdr.len : r[i + j] \in UnitItem
    BY Zenon DEF Shape
  <1>2. PICK l \in Nat : l = Len(q)
    BY LenProperties
  <1>3. Len(r) = l - 1 - n /\ \A k \in 1..(l - 1 - n) : r[k] = q[1 + n + k]
    BY <1>2 DEF Taken
  <1>4. PICK h \in EnvelopeHeader : r[i] = [hdr |-> h] /\ r[i].hdr = h /\ h.len \in Nat
    BY <1>1, ItemFacts, HeaderTypes
  <1>5. 1 + n + i \in 1..l /\ q[1 + n + i] = r[i]
    BY <1>2, <1>3
  <1>6. 1 + n + i + h.len <= l /\ \A j \in 1..h.len : q[1 + n + i + j] \in UnitItem
    BY <1>1, <1>2, <1>4, <1>5 DEF Shape
  <1>10. PICK y \in Nat, x \in Nat : y = h.len /\ x = i
    BY <1>4
  <1>7. i + h.len <= l - 1 - n
    <2>1. 1 + n + x + y <= l
      BY <1>6, <1>10
    <2>2. x + y <= l - 1 - n
      BY <2>1
    <2> QED
      BY <1>10, <2>2
  <1>8. ASSUME NEW j \in 1..h.len PROVE r[i + j] \in UnitItem
    <2>1. i + j \in 1..(l - 1 - n) /\ 1 + n + (i + j) = 1 + n + i + j
      <3>1. x + y <= l - 1 - n /\ j \in 1..y
        BY <1>7, <1>10
      <3>2. x + j \in 1..(l - 1 - n) /\ 1 + n + (x + j) = 1 + n + x + j
        BY <3>1
      <3> QED
        BY <1>10, <3>2
    <2> QED
      BY <1>3, <1>6, <2>1
  <1> QED
    BY <1>3, <1>4, <1>7, <1>8

\* What ConnSend does.
LEMMA ConnSendDoes ==
    ASSUME ETypeOK, ConnSend
    PROVE  /\ out # <<>> /\ Head(out) \in Env /\ Writes(conn, Head(out), conn') /\ out' = Tail(out) /\ connUp
           /\ UNCHANGED <<origin, connUp, grpc, bodies, heap, held, delivered>>
  <1>1. out \in Seq(Env) /\ conn \in Seq(ConnItem) /\ out # <<>>
    BY TypeParts DEF ConnSend, ConnItem
  <1>2. PICK e \in Env : e = Head(out)
    BY <1>1, HeadTailProperties
  <1>3. conn' = Append(conn, [hdr |-> Kept(e)]) \o Payload(e) /\ out' = Tail(out)
    <2>1. conn' = Append(conn, MarshalBinary(e.hdr, Len(e.data))) \o Payload(e) /\ out' = Tail(out)
      BY <1>2, Zenon DEF ConnSend, Payload
    <2> QED
      BY <2>1, PacketFacts, Zenon
  <1>4. Writes(conn, e, conn')
    BY <1>1, <1>3, WritesFacts
  <1>5. UNCHANGED <<origin, connUp, grpc, bodies, heap, held, delivered>> /\ connUp
    BY DEF ConnSend
  <1> QED
    BY <1>1, <1>2, <1>3, <1>4, <1>5

LEMMA ShapeStep == ETypeOK /\ ConnShape /\ [ENext]_evars => ConnShape'
  <1> SUFFICES ASSUME ETypeOK, ConnShape, [ENext]_evars PROVE ConnShape'
    OBVIOUS
  <1>1. ConnShape <=> Shape(conn)
    BY Zenon DEF ConnShape, Shape
  <1>2. ConnShape' <=> Shape(conn')
    BY Zenon DEF ConnShape, Shape
  <1>3. conn \in Seq(ConnItem)
    BY TypeParts DEF ConnItem
  <1>4. CASE UNCHANGED conn
    BY <1>1, <1>2, <1>4
  <1>5. CASE ConnSend
    <2>1. Head(out) \in Env /\ Writes(conn, Head(out), conn')
      BY <1>5, ConnSendDoes
    <2> QED
      BY <1>1, <1>2, <1>3, <2>1, ShapeWrites
  <1>6. CASE ConnRecv
    <2>1. PICK h, d, r : Received(h, d, r)
      BY <1>6, ConnRecvDoes
    <2>2. h.len \in Nat /\ 1 + h.len <= Len(conn) /\ Taken(conn, h.len, d, r) /\ conn' = r
      BY <2>1, Zenon DEF Received
    <2> QED
      BY <1>1, <1>2, <1>3, <2>2, ShapeTaken
  <1>7. CASE ConnRecvFails
    <2>1. conn' = <<>> /\ Len(<<>>) = 0
      BY <1>7, EmptySeq DEF ConnRecvFails
    <2>2. Shape(<<>>)
      BY <2>1 DEF Shape
    <2> QED
      BY <1>2, <2>1, <2>2
  <1>8. ConnSend \/ ConnRecv \/ ConnRecvFails \/ UNCHANGED conn
    BY Zenon DEF ENext, evars, NewEnvelope, StreamSend, StreamRecv, PeerSend, Deliver
  <1> QED
    BY <1>4, <1>5, <1>6, <1>7, <1>8

-----------------------------------------------------------------------------
(* Keys of the elements of a sequence: f gives an element of its domain its *)
(* key, other elements have none.                                           *)

Keys(Q, f) == {f[Q[i]] : i \in {j \in 1..Len(Q) : Q[j] \in DOMAIN f}}
KeyOf(x, f) == IF x \in DOMAIN f THEN {f[x]} ELSE {}

\* No key occurs twice.
Uniq(Q, f) ==
    \A i, j \in 1..Len(Q) : Q[i] \in DOMAIN f /\ Q[j] \in DOMAIN f /\ f[Q[i]] = f[Q[j]] => i = j

LEMMA KeyMember ==
    ASSUME NEW Q, NEW f, NEW y
    PROVE  y \in Keys(Q, f) <=> \E i \in 1..Len(Q) : Q[i] \in DOMAIN f /\ y = f[Q[i]]
  BY DEF Keys

LEMMA KeyOfMember == ASSUME NEW x, NEW f, NEW y PROVE y \in KeyOf(x, f) <=> x \in DOMAIN f /\ y = f[x]
  BY DEF KeyOf

LEMMA NoKeys == ASSUME NEW f PROVE Keys(<<>>, f) = {} /\ Uniq(<<>>, f)
  <1>1. Len(<<>>) = 0
    OBVIOUS
  <1> QED
    BY <1>1 DEF Keys, Uniq

\* t is q without its first element and what follows that and has no key.
Shift(q, t, n) ==
    /\ n \in Nat /\ Len(q) \in Nat /\ Len(t) \in Nat /\ Len(q) = 1 + n + Len(t)
    /\ \A i \in 1..Len(t) : t[i] = q[1 + n + i]

LEMMA KeysShift ==
    ASSUME NEW q, NEW t, NEW n, Shift(q, t, n), NEW f, \A j \in 1..n : q[1 + j] \notin DOMAIN f
    PROVE  /\ Keys(q, f) = Keys(t, f) \cup KeyOf(q[1], f)
           /\ Uniq(q, f) => Uniq(t, f) /\ Keys(t, f) \cap KeyOf(q[1], f) = {}
  <1>1. PICK l \in Nat, k \in Nat : l = Len(q) /\ k = Len(t)
    BY DEF Shift
  <1>2. n \in Nat /\ l = 1 + n + k /\ \A i \in 1..k : t[i] = q[1 + n + i]
    BY <1>1 DEF Shift
  <1>3. ASSUME NEW i \in 1..k PROVE 1 + n + i \in 1..l /\ 1 + n + i # 1
    BY <1>2
  <1>4. ASSUME NEW i \in 1..l, q[i] \in DOMAIN f, i # 1 PROVE \E j \in 1..k : t[j] = q[i]
    <2>1. CASE i <= 1 + n
      <3>1. i - 1 \in 1..n /\ 1 + (i - 1) = i
        BY <1>2, <1>4, <2>1
      <3>2. q[1 + (i - 1)] \notin DOMAIN f
        BY <3>1
      <3> QED
        BY <1>4, <3>1, <3>2
    <2>2. CASE ~(i <= 1 + n)
      <3>1. i - 1 - n \in 1..k /\ 1 + n + (i - 1 - n) = i
        BY <1>2, <2>2
      <3> QED
        BY <1>2, <3>1
    <2> QED
      BY <2>1, <2>2
  <1>5. 1 \in 1..l
    BY <1>2
  <1>6. ASSUME NEW y \in Keys(q, f) PROVE y \in Keys(t, f) \cup KeyOf(q[1], f)
    <2>1. PICK i \in 1..l : q[i] \in DOMAIN f /\ y = f[q[i]]
      BY <1>1, <1>6, KeyMember
    <2>2. CASE i = 1
      BY <2>1, <2>2, KeyOfMember
    <2>3. CASE i # 1
      <3>1. PICK j \in 1..k : t[j] = q[i]
        BY <1>4, <2>1, <2>3
      <3> QED
        BY <1>1, <2>1, <3>1, KeyMember
    <2> QED
      BY <2>2, <2>3
  <1>7. ASSUME NEW y \in Keys(t, f) PROVE y \in Keys(q, f)
    <2>1. PICK i \in 1..k : t[i] \in DOMAIN f /\ y = f[t[i]]
      BY <1>1, <1>7, KeyMember
    <2>2. t[i] = q[1 + n + i] /\ 1 + n + i \in 1..l
      BY <1>2, <1>3
    <2> QED
      BY <1>1, <2>1, <2>2, KeyMember
  <1>8. ASSUME NEW y \in KeyOf(q[1], f) PROVE y \in Keys(q, f)
    BY <1>1, <1>5, <1>8, KeyMember, KeyOfMember
  <1>9. Keys(q, f) = Keys(t, f) \cup KeyOf(q[1], f)
    BY <1>6, <1>7, <1>8
  <1>10. ASSUME Uniq(q, f) PROVE Uniq(t, f)
    <2>1. SUFFICES ASSUME NEW i \in 1..k, NEW j \in 1..k, t[i] \in DOMAIN f, t[j] \in DOMAIN f, f[t[i]] = f[t[j]]
                   PROVE  i = j
      BY <1>1 DEF Uniq
    <2>2. t[i] = q[1 + n + i] /\ t[j] = q[1 + n + j] /\ 1 + n + i \in 1..l /\ 1 + n + j \in 1..l
      BY <1>2, <1>3
    <2>3. 1 + n + i = 1 + n + j
      BY <1>1, <1>10, <2>1, <2>2, Zenon DEF Uniq
    <2> QED
      BY <1>2, <2>3
  <1>11. ASSUME Uniq(q, f), NEW y \in Keys(t, f), y \in KeyOf(q[1], f) PROVE FALSE
    <2>1. PICK i \in 1..k : t[i] \in DOMAIN f /\ y = f[t[i]]
      BY <1>1, <1>11, KeyMember
    <2>2. t[i] = q[1 + n + i] /\ 1 + n + i \in 1..l /\ 1 + n + i # 1
      BY <1>2, <1>3
    <2>3. q[1] \in DOMAIN f /\ y = f[q[1]]
      BY <1>11, KeyOfMember
    <2> QED
      BY <1>1, <1>5, <1>11, <2>1, <2>2, <2>3, Zenon DEF Uniq
  <1> QED
    BY <1>9, <1>10, <1>11

LEMMA TailShift ==
    ASSUME NEW S, NEW Q \in Seq(S), Q # <<>>
    PROVE  Shift(Q, Tail(Q), 0) /\ Q[1] = Head(Q)
  <1>1. /\ Tail(Q) \in Seq(S) /\ Len(Tail(Q)) = Len(Q) - 1 /\ \A i \in 1..Len(Tail(Q)) : Tail(Q)[i] = Q[i + 1]
        /\ Len(Q) \in Nat \ {0}
    BY HeadTailProperties, EmptySeq
  <1>2. PICK t : t = Tail(Q)
    OBVIOUS
  <1>3. Len(t) \in Nat /\ Len(Q) = 1 + 0 + Len(t)
    BY <1>1, <1>2
  <1>4. \A i \in 1..Len(t) : t[i] = Q[1 + 0 + i]
    <2>1. \A i \in 1..Len(t) : i + 1 = 1 + 0 + i
      BY <1>3
    <2> QED
      BY <1>1, <1>2, <2>1
  <1>5. Shift(Q, t, 0)
    BY <1>1, <1>3, <1>4 DEF Shift
  <1> QED
    BY <1>2, <1>5

LEMMA KeysTail ==
    ASSUME NEW S, NEW Q \in Seq(S), Q # <<>>, NEW f
    PROVE  /\ Keys(Q, f) = Keys(Tail(Q), f) \cup KeyOf(Head(Q), f)
           /\ Uniq(Q, f) => Uniq(Tail(Q), f) /\ Keys(Tail(Q), f) \cap KeyOf(Head(Q), f) = {}
  <1>1. Shift(Q, Tail(Q), 0) /\ Q[1] = Head(Q)
    BY TailShift
  <1>2. \A j \in 1..0 : Q[1 + j] \notin DOMAIN f
    OBVIOUS
  <1>3. PICK t, x : t = Tail(Q) /\ x = Head(Q)
    OBVIOUS
  <1>4. /\ Keys(Q, f) = Keys(t, f) \cup KeyOf(Q[1], f)
        /\ Uniq(Q, f) => Uniq(t, f) /\ Keys(t, f) \cap KeyOf(Q[1], f) = {}
    BY <1>1, <1>2, <1>3, KeysShift
  <1> QED
    BY <1>1, <1>3, <1>4

\* q2 is q, then x, then elements without a key.
Longer(q, q2, x, f) ==
    /\ Len(q) \in Nat /\ Len(q2) \in Nat /\ Len(q) + 1 <= Len(q2)
    /\ \A i \in 1..Len(q) : q2[i] = q[i]
    /\ q2[Len(q) + 1] = x
    /\ \A i \in 1..Len(q2) : i > Len(q) + 1 => q2[i] \notin DOMAIN f

LEMMA KeysLonger ==
    ASSUME NEW q, NEW q2, NEW x, NEW f, Longer(q, q2, x, f)
    PROVE  /\ Keys(q2, f) = Keys(q, f) \cup KeyOf(x, f)
           /\ Uniq(q, f) /\ Keys(q, f) \cap KeyOf(x, f) = {} => Uniq(q2, f)
  <1>1. PICK l \in Nat, k \in Nat : l = Len(q) /\ k = Len(q2)
    BY DEF Longer
  <1>2. /\ l + 1 <= k /\ (\A i \in 1..l : q2[i] = q[i]) /\ q2[l + 1] = x
        /\ \A i \in 1..k : i > l + 1 => q2[i] \notin DOMAIN f
    BY <1>1 DEF Longer
  <1>3. ASSUME NEW i \in 1..k, q2[i] \in DOMAIN f PROVE (i \in 1..l /\ q2[i] = q[i]) \/ (i = l + 1 /\ q2[i] = x)
    <2>1. ~(i > l + 1)
      BY <1>2, <1>3
    <2>2. i \in 1..l \/ i = l + 1
      BY <2>1
    <2> QED
      BY <1>2, <2>2
  <1>4. ASSUME NEW y \in Keys(q2, f) PROVE y \in Keys(q, f) \cup KeyOf(x, f)
    <2>1. PICK i \in 1..k : q2[i] \in DOMAIN f /\ y = f[q2[i]]
      BY <1>1, <1>4, KeyMember
    <2>2. CASE i \in 1..l /\ q2[i] = q[i]
      BY <1>1, <2>1, <2>2, KeyMember
    <2>3. CASE q2[i] = x
      BY <2>1, <2>3, KeyOfMember
    <2> QED
      BY <1>3, <2>1, <2>2, <2>3
  <1>5. ASSUME NEW y \in Keys(q, f) PROVE y \in Keys(q2, f)
    <2>1. PICK i \in 1..l : q[i] \in DOMAIN f /\ y = f[q[i]]
      BY <1>1, <1>5, KeyMember
    <2>2. i \in 1..k /\ q2[i] = q[i]
      BY <1>2
    <2> QED
      BY <1>1, <2>1, <2>2, KeyMember
  <1>6. ASSUME NEW y \in KeyOf(x, f) PROVE y \in Keys(q2, f)
    <2>1. x \in DOMAIN f /\ y = f[x] /\ l + 1 \in 1..k /\ q2[l + 1] = x
      BY <1>2, <1>6, KeyOfMember
    <2> QED
      BY <1>1, <2>1, KeyMember
  <1>7. Keys(q2, f) = Keys(q, f) \cup KeyOf(x, f)
    BY <1>4, <1>5, <1>6
  <1>8. ASSUME Uniq(q, f), Keys(q, f) \cap KeyOf(x, f) = {} PROVE Uniq(q2, f)
    <2>1. ASSUME NEW i \in 1..l, q[i] \in DOMAIN f, x \in DOMAIN f, f[q[i]] = f[x] PROVE FALSE
      <3>1. f[x] \in Keys(q, f) /\ f[x] \in KeyOf(x, f)
        BY <1>1, <2>1, KeyMember, KeyOfMember
      <3> QED
        BY <1>8, <3>1
    <2>2. SUFFICES ASSUME NEW i \in 1..k, NEW j \in 1..k, q2[i] \in DOMAIN f, q2[j] \in DOMAIN f,
                          f[q2[i]] = f[q2[j]]
                   PROVE  i = j
      BY <1>1 DEF Uniq
    <2>3. (i \in 1..l /\ q2[i] = q[i]) \/ (i = l + 1 /\ q2[i] = x)
      BY <1>3, <2>2
    <2>4. (j \in 1..l /\ q2[j] = q[j]) \/ (j = l + 1 /\ q2[j] = x)
      BY <1>3, <2>2
    <2>5. CASE i \in 1..l /\ q2[i] = q[i] /\ j \in 1..l /\ q2[j] = q[j]
      BY <1>1, <1>8, <2>2, <2>5, Zenon DEF Uniq
    <2> QED
      BY <2>1, <2>2, <2>3, <2>4, <2>5
  <1> QED
    BY <1>7, <1>8

LEMMA KeysAppend ==
    ASSUME NEW S, NEW Q \in Seq(S), NEW x \in S, NEW f
    PROVE  /\ Keys(Append(Q, x), f) = Keys(Q, f) \cup KeyOf(x, f)
           /\ Uniq(Q, f) /\ Keys(Q, f) \cap KeyOf(x, f) = {} => Uniq(Append(Q, x), f)
  <1>1. PICK q2 : q2 = Append(Q, x)
    OBVIOUS
  <1>2. PICK l \in Nat : l = Len(Q)
    BY LenProperties
  <1>3. Len(q2) = l + 1 /\ (\A i \in 1..l : q2[i] = Q[i]) /\ q2[l + 1] = x
    BY <1>1, <1>2, AppendProperties
  <1>4. \A i \in 1..(l + 1) : ~(i > l + 1)
    OBVIOUS
  <1>5. Longer(Q, q2, x, f)
    BY <1>2, <1>3, <1>4 DEF Longer
  <1> QED
    BY <1>1, <1>5, KeysLonger

LEMMA KeysWrites ==
    ASSUME NEW q \in Seq(ConnItem), NEW e \in Env, NEW q2, Writes(q, e, q2), NEW f, DOMAIN f \subseteq HdrItem
    PROVE  /\ Keys(q2, f) = Keys(q, f) \cup KeyOf([hdr |-> Kept(e)], f)
           /\ Uniq(q, f) /\ Keys(q, f) \cap KeyOf([hdr |-> Kept(e)], f) = {} => Uniq(q2, f)
  <1>1. PICK l \in Nat, n \in Nat : l = Len(q) /\ n = Len(e.data)
    BY LenProperties, KeptFacts
  <1>2. PICK x : x = [hdr |-> Kept(e)]
    OBVIOUS
  <1>3. Len(q2) = l + 1 + n /\ (\A i \in 1..l : q2[i] = q[i]) /\ q2[l + 1] = x
    BY <1>1, <1>2 DEF Writes
  <1>4. ASSUME NEW i \in 1..Len(q2), i > l + 1 PROVE q2[i] \notin DOMAIN f
    <2>1. ~(i \in 1..l) /\ i # l + 1
      BY <1>4
    <2>2. q2[i] \in UnitItem
      BY <1>1, <2>1, WritesWhere
    <2> QED
      BY <2>2, ItemFacts
  <1>5. Len(q2) \in Nat /\ l + 1 <= Len(q2)
    BY <1>3
  <1>6. Longer(q, q2, x, f)
    BY <1>1, <1>3, <1>4, <1>5 DEF Longer
  <1> QED
    BY <1>2, <1>6, KeysLonger

LEMMA KeysTaken ==
    ASSUME NEW q \in Seq(ConnItem), NEW n \in Nat, NEW d, NEW r, Taken(q, n, d, r), 1 + n <= Len(q),
           \A j \in 1..n : q[1 + j] \in UnitItem, NEW f, DOMAIN f \subseteq HdrItem
    PROVE  /\ Keys(q, f) = Keys(r, f) \cup KeyOf(q[1], f)
           /\ Uniq(q, f) => Uniq(r, f) /\ Keys(r, f) \cap KeyOf(q[1], f) = {}
  <1>1. PICK l \in Nat : l = Len(q)
    BY LenProperties
  <1>2. Len(r) = l - 1 - n /\ \A i \in 1..Len(r) : r[i] = q[1 + n + i]
    BY <1>1 DEF Taken
  <1>3. Len(r) \in Nat /\ l = 1 + n + Len(r)
    BY <1>1, <1>2
  <1>4. Shift(q, r, n)
    BY <1>1, <1>2, <1>3 DEF Shift
  <1>5. \A j \in 1..n : q[1 + j] \notin DOMAIN f
    BY ItemFacts
  <1> QED
    BY <1>4, <1>5, KeysShift

LEMMA KeysConcat ==
    ASSUME NEW S, NEW q \in Seq(S), NEW r \in Seq(S), NEW f
    PROVE  /\ Keys(q \o r, f) = Keys(q, f) \cup Keys(r, f)
           /\ Uniq(q, f) /\ Uniq(r, f) /\ Keys(q, f) \cap Keys(r, f) = {} => Uniq(q \o r, f)
  <1>1. PICK l \in Nat, k \in Nat : l = Len(q) /\ k = Len(r)
    BY LenProperties
  <1>2. PICK q2 : q2 = q \o r
    OBVIOUS
  <1>3. Len(q2) = l + k /\ \A i \in 1..(l + k) : q2[i] = IF i <= l THEN q[i] ELSE r[i - l]
    BY <1>1, <1>2, ConcatProperties
  <1>4. ASSUME NEW i \in 1..(l + k)
        PROVE  (i \in 1..l /\ q2[i] = q[i]) \/ (~(i \in 1..l) /\ i - l \in 1..k /\ q2[i] = r[i - l])
    <2>1. CASE i <= l
      <3>1. i \in 1..l /\ q2[i] = q[i]
        BY <1>3, <2>1
      <3> QED
        BY <3>1
    <2>2. CASE ~(i <= l)
      <3>1. ~(i \in 1..l) /\ i - l \in 1..k
        BY <2>2
      <3>2. q2[i] = r[i - l]
        BY <1>3, <2>2
      <3> QED
        BY <3>1, <3>2
    <2> QED
      BY <2>1, <2>2
  <1>5. ASSUME NEW i \in 1..l PROVE i \in 1..(l + k) /\ q2[i] = q[i]
    BY <1>3
  <1>6. ASSUME NEW i \in 1..k PROVE l + i \in 1..(l + k) /\ q2[l + i] = r[i]
    <2>1. l + i \in 1..(l + k) /\ ~(l + i <= l) /\ (l + i) - l = i
      OBVIOUS
    <2> QED
      BY <1>3, <2>1
  <1>7. ASSUME NEW y \in Keys(q2, f) PROVE y \in Keys(q, f) \cup Keys(r, f)
    <2>1. PICK i \in 1..(l + k) : q2[i] \in DOMAIN f /\ y = f[q2[i]]
      <3>1. PICK i \in 1..Len(q2) : q2[i] \in DOMAIN f /\ y = f[q2[i]]
        BY <1>7, KeyMember
      <3>2. 1..Len(q2) = 1..(l + k)
        BY <1>3
      <3> QED
        BY <3>1, <3>2
    <2> QED
      BY <1>1, <1>4, <2>1, KeyMember
  <1>8. ASSUME NEW y \in Keys(q, f) PROVE y \in Keys(q2, f)
    <2>1. PICK i \in 1..l : q[i] \in DOMAIN f /\ y = f[q[i]]
      BY <1>1, <1>8, KeyMember
    <2> QED
      BY <1>3, <1>5, <2>1, KeyMember
  <1>9. ASSUME NEW y \in Keys(r, f) PROVE y \in Keys(q2, f)
    <2>1. PICK i \in 1..k : r[i] \in DOMAIN f /\ y = f[r[i]]
      BY <1>1, <1>9, KeyMember
    <2> QED
      BY <1>3, <1>6, <2>1, KeyMember
  <1>10. Keys(q2, f) = Keys(q, f) \cup Keys(r, f)
    BY <1>7, <1>8, <1>9
  <1>11. ASSUME Uniq(q, f), Uniq(r, f), Keys(q, f) \cap Keys(r, f) = {} PROVE Uniq(q2, f)
    <2>1. ASSUME NEW i \in 1..l, NEW j \in 1..k, q[i] \in DOMAIN f, r[j] \in DOMAIN f, f[q[i]] = f[r[j]] PROVE FALSE
      <3>1. f[q[i]] \in Keys(q, f) /\ f[q[i]] \in Keys(r, f)
        BY <1>1, <2>1, KeyMember
      <3> QED
        BY <1>11, <3>1
    <2>2. SUFFICES ASSUME NEW i \in 1..(l + k), NEW j \in 1..(l + k), q2[i] \in DOMAIN f, q2[j] \in DOMAIN f,
                          f[q2[i]] = f[q2[j]]
                   PROVE  i = j
      BY <1>3 DEF Uniq
    <2>3. CASE i \in 1..l /\ q2[i] = q[i] /\ j \in 1..l /\ q2[j] = q[j]
      BY <1>1, <1>11, <2>2, <2>3, Zenon DEF Uniq
    <2>4. CASE i - l \in 1..k /\ q2[i] = r[i - l] /\ j - l \in 1..k /\ q2[j] = r[j - l]
      <3>1. i - l = j - l
        BY <1>1, <1>11, <2>2, <2>4, Zenon DEF Uniq
      <3> QED
        BY <3>1
    <2> QED
      BY <1>4, <2>1, <2>2, <2>3, <2>4
  <1> QED
    BY <1>2, <1>10, <1>11

-----------------------------------------------------------------------------
(* Where the fragments of message m are.                                    *)

ByEnv(m) == [e \in {x \in Env : x.hdr.corr = m} |-> e.hdr.index]
ByMsg(m) == [p \in {x \in ProtoMsg : x.corr = m} |-> p.index]
ByHdr(m) == [b \in {x \in HdrItem : x.hdr.corr = m} |-> b.hdr.index]
KeyIf(c, i, m) == IF c = m THEN {i} ELSE {}

LEMMA KeyOfEnv ==
    ASSUME NEW e \in Env, NEW m
    PROVE  /\ KeyOf(e, ByEnv(m)) = KeyIf(e.hdr.corr, e.hdr.index, m)
           /\ KeyOf(ToProtoEnvelope(e), ByMsg(m)) = KeyIf(e.hdr.corr, e.hdr.index, m)
           /\ KeyOf([hdr |-> Kept(e)], ByHdr(m)) = KeyIf(e.hdr.corr, e.hdr.index, m)
  <1>1. KeyOf(e, ByEnv(m)) = KeyIf(e.hdr.corr, e.hdr.index, m)
    BY DEF KeyOf, ByEnv, KeyIf
  <1>2. PICK p \in ProtoMsg : p = ToProtoEnvelope(e) /\ p.corr = e.hdr.corr /\ p.index = e.hdr.index
    BY ProtoFacts
  <1>3. KeyOf(p, ByMsg(m)) = KeyIf(p.corr, p.index, m)
    BY DEF KeyOf, ByMsg, KeyIf
  <1>4. PICK b : b = [hdr |-> Kept(e)]
    OBVIOUS
  <1>5. b \in HdrItem /\ b.hdr = Kept(e) /\ b.hdr.corr = e.hdr.corr /\ b.hdr.index = e.hdr.index
    BY <1>4, PacketFacts, KeptFacts
  <1>6. KeyOf(b, ByHdr(m)) = KeyIf(b.hdr.corr, b.hdr.index, m)
    BY <1>5 DEF KeyOf, ByHdr, KeyIf
  <1> QED
    BY <1>1, <1>2, <1>3, <1>4, <1>5, <1>6

LEMMA KeyOfMsg ==
    ASSUME NEW p \in ProtoMsg, NEW m PROVE KeyOf(p, ByMsg(m)) = KeyIf(p.corr, p.index, m)
  BY DEF KeyOf, ByMsg, KeyIf

LEMMA KeyOfHdr ==
    ASSUME NEW b \in HdrItem, NEW m PROVE KeyOf(b, ByHdr(m)) = KeyIf(b.hdr.corr, b.hdr.index, m)
  BY DEF KeyOf, ByHdr, KeyIf

LEMMA ByHdrDomain == ASSUME NEW m PROVE DOMAIN ByHdr(m) = {x \in HdrItem : x.hdr.corr = m}
  BY DEF ByHdr

OutOf(q, m, F) == \A i \in 1..Len(q) : q[i].hdr.corr = m => \E k \in 1..Len(F) : q[i] = F[k]
GrpcOf(q, m, F) == \A i \in 1..Len(q) : q[i].corr = m => \E k \in 1..Len(F) : q[i] = ToProtoEnvelope(F[k])

AtConn(q, i, e) ==
    /\ q[i] = [hdr |-> Kept(e)] /\ i + Len(e.data) <= Len(q)
    /\ \A j \in 1..Len(e.data) : q[i + j] = [unit |-> e.data[j]]

ConnOf(q, m, F) ==
    \A i \in 1..Len(q) : q[i] \in HdrItem /\ q[i].hdr.corr = m => \E k \in 1..Len(F) : AtConn(q, i, F[k])

HeldOf(hd, hp, m, F) ==
    \A x \in hd : x.hdr.corr = m => \E k \in 1..Len(F) : x.hdr = Kept(F[k]) /\ hp[x.buf] = F[k].data

DoneOf(dl, m, D) == \A d \in dl : d.hdr.corr = m => d \in D

HeldKeys(hd, m) == {x.hdr.index : x \in {y \in hd : y.hdr.corr = m}}
HeldUniq(hd, m) == \A x, y \in hd : x.hdr.corr = m /\ y.hdr.corr = m /\ x.hdr.index = y.hdr.index => x = y

\* No fragment is in two places.
Apart(O, G, C, H) ==
    /\ O \cap G = {} /\ O \cap C = {} /\ O \cap H = {}
    /\ G \cap C = {} /\ G \cap H = {} /\ C \cap H = {}

\* Unless the connection has failed, a message is delivered or all its fragments
\* are somewhere.
Covers(up, dl, D, F, U) == up => D \subseteq dl \/ \A k \in 1..Len(F) : k - 1 \in U

LEMMA OutTail ==
    ASSUME NEW q \in Seq(Env), q # <<>>, NEW m, NEW F, OutOf(q, m, F)
    PROVE  /\ OutOf(Tail(q), m, F)
           /\ Head(q).hdr.corr = m => \E k \in 1..Len(F) : Head(q) = F[k]
  <1>1. Shift(q, Tail(q), 0) /\ q[1] = Head(q)
    BY TailShift
  <1>2. PICK t : t = Tail(q)
    OBVIOUS
  <1>3. Len(t) \in Nat /\ Len(q) = 1 + 0 + Len(t) /\ \A i \in 1..Len(t) : t[i] = q[1 + 0 + i]
    BY <1>1, <1>2 DEF Shift
  <1>4. 1 \in 1..Len(q) /\ \A i \in 1..Len(t) : 1 + 0 + i \in 1..Len(q)
    BY <1>3
  <1>5. OutOf(t, m, F)
    BY <1>3, <1>4, Zenon DEF OutOf
  <1>6. q[1].hdr.corr = m => \E k \in 1..Len(F) : q[1] = F[k]
    BY <1>4, Zenon DEF OutOf
  <1> QED
    BY <1>1, <1>2, <1>5, <1>6

LEMMA GrpcTail ==
    ASSUME NEW q \in Seq(ProtoMsg), q # <<>>, NEW m, NEW F, GrpcOf(q, m, F)
    PROVE  /\ GrpcOf(Tail(q), m, F)
           /\ Head(q).corr = m => \E k \in 1..Len(F) : Head(q) = ToProtoEnvelope(F[k])
  <1>1. Shift(q, Tail(q), 0) /\ q[1] = Head(q)
    BY TailShift
  <1>2. PICK t : t = Tail(q)
    OBVIOUS
  <1>3. Len(t) \in Nat /\ Len(q) = 1 + 0 + Len(t) /\ \A i \in 1..Len(t) : t[i] = q[1 + 0 + i]
    BY <1>1, <1>2 DEF Shift
  <1>4. 1 \in 1..Len(q) /\ \A i \in 1..Len(t) : 1 + 0 + i \in 1..Len(q)
    BY <1>3
  <1>5. GrpcOf(t, m, F)
    BY <1>3, <1>4, Zenon DEF GrpcOf
  <1>6. q[1].corr = m => \E k \in 1..Len(F) : q[1] = ToProtoEnvelope(F[k])
    BY <1>4, Zenon DEF GrpcOf
  <1> QED
    BY <1>1, <1>2, <1>5, <1>6

LEMMA GrpcAppend ==
    ASSUME NEW q \in Seq(ProtoMsg), NEW p \in ProtoMsg, NEW m, NEW F, GrpcOf(q, m, F),
           p.corr = m => \E k \in 1..Len(F) : p = ToProtoEnvelope(F[k])
    PROVE  GrpcOf(Append(q, p), m, F)
  <1>1. PICK l, z : l \in Nat /\ l = Len(q) /\ z = Append(q, p)
    BY LenProperties
  <1>2. Len(z) = l + 1 /\ (\A i \in 1..l : z[i] = q[i]) /\ z[l + 1] = p
    BY <1>1, AppendProperties
  <1>3. \A i \in 1..(l + 1) : i \in 1..l \/ i = l + 1
    BY <1>1
  <1>4. ASSUME NEW i \in 1..Len(z), z[i].corr = m PROVE \E k \in 1..Len(F) : z[i] = ToProtoEnvelope(F[k])
    <2>1. CASE i \in 1..l
      <3>1. z[i] = q[i] /\ i \in 1..Len(q)
        BY <1>1, <1>2, <2>1
      <3> QED
        BY <1>4, <3>1, Zenon DEF GrpcOf
    <2>2. CASE i = l + 1
      BY <1>2, <1>4, <2>2, Zenon
    <2> QED
      BY <1>2, <1>3, <2>1, <2>2
  <1>5. GrpcOf(z, m, F)
    BY <1>4, Zenon DEF GrpcOf
  <1> QED
    BY <1>1, <1>5

LEMMA InRange ==
    ASSUME NEW l \in Nat, NEW y \in Nat, NEW i \in 1..l, i + y <= l
    PROVE  \A j \in 1..y : i + j \in 1..l
  OBVIOUS

LEMMA ConnWrites ==
    ASSUME NEW q \in Seq(ConnItem), NEW e \in Env, NEW q2, Writes(q, e, q2), NEW m, NEW F,
           ConnOf(q, m, F), e.hdr.corr = m => \E k \in 1..Len(F) : e = F[k],
           \A k \in 1..Len(F) : Len(F[k].data) \in Nat
    PROVE  ConnOf(q2, m, F)
  <1>1. PICK l \in Nat, n \in Nat : l = Len(q) /\ n = Len(e.data)
    BY LenProperties, KeptFacts
  <1>2. /\ Len(q2) = l + 1 + n /\ (\A j \in 1..l : q2[j] = q[j]) /\ q2[l + 1] = [hdr |-> Kept(e)]
        /\ \A j \in 1..n : q2[l + 1 + j] = [unit |-> e.data[j]]
    BY <1>1 DEF Writes
  <1>3. SUFFICES ASSUME NEW i \in 1..Len(q2), q2[i] \in HdrItem, q2[i].hdr.corr = m
                 PROVE  \E k \in 1..Len(F) : AtConn(q2, i, F[k])
    BY Zenon DEF ConnOf
  <1>4. CASE i \in 1..l /\ q2[i] = q[i]
    <2>1. PICK k \in 1..Len(F) : AtConn(q, i, F[k])
      <3>1. q[i] \in HdrItem /\ q[i].hdr.corr = m /\ i \in 1..Len(q)
        BY <1>1, <1>3, <1>4
      <3> QED
        BY <3>1, Zenon DEF ConnOf
    <2>20. PICK f : f = F[k]
      OBVIOUS
    <2>21. Len(f.data) \in Nat
      BY <2>20
    <2>2. PICK y \in Nat : f = F[k] /\ y = Len(f.data)
      BY <2>20, <2>21
    <2>3. q[i] = [hdr |-> Kept(f)] /\ i + y <= l /\ \A j \in 1..y : q[i + j] = [unit |-> f.data[j]]
      BY <1>1, <2>1, <2>2 DEF AtConn
    <2>4. \A j \in 1..y : i + j \in 1..l
      BY <1>4, <2>3, InRange
    <2>5. \A j \in 1..y : q2[i + j] = [unit |-> f.data[j]]
      BY <1>2, <2>3, <2>4
    <2>6. i + y <= Len(q2)
      <3>1. \A a, b \in Nat : a <= b => a <= b + 1 + n
        OBVIOUS
      <3>2. i + y \in Nat
        BY <1>4
      <3>3. i + y <= l + 1 + n
        BY <2>3, <3>1, <3>2
      <3> QED
        BY <1>2, <3>3
    <2>7. AtConn(q2, i, f)
      BY <1>4, <2>2, <2>3, <2>5, <2>6 DEF AtConn
    <2> QED
      BY <2>2, <2>7
  <1>5. CASE i = l + 1 /\ q2[i] = [hdr |-> Kept(e)]
    <2>1. e.hdr.corr = m
      BY <1>3, <1>5, KeptFacts
    <2>2. PICK k \in 1..Len(F) : e = F[k]
      BY <2>1
    <2>3. AtConn(q2, i, e)
      <3>1. i + n <= Len(q2)
        BY <1>2, <1>5
      <3> QED
        BY <1>1, <1>2, <1>5, <3>1, Zenon DEF AtConn
    <2> QED
      BY <2>2, <2>3
  <1>6. CASE q2[i] \in UnitItem
    BY <1>3, <1>6, ItemFacts
  <1> QED
    BY <1>1, <1>4, <1>5, <1>6, WritesWhere

LEMMA ConnTaken ==
    ASSUME NEW q \in Seq(ConnItem), NEW n \in Nat, NEW d, NEW r, Taken(q, n, d, r), 1 + n <= Len(q),
           NEW m, NEW F, ConnOf(q, m, F), \A k \in 1..Len(F) : Len(F[k].data) \in Nat
    PROVE  ConnOf(r, m, F)
  <1>1. PICK l \in Nat : l = Len(q)
    BY LenProperties
  <1>2. Len(r) = l - 1 - n /\ \A i \in 1..(l - 1 - n) : r[i] = q[1 + n + i]
    BY <1>1 DEF Taken
  <1>3. SUFFICES ASSUME NEW i \in 1..Len(r), r[i] \in HdrItem, r[i].hdr.corr = m
                 PROVE  \E k \in 1..Len(F) : AtConn(r, i, F[k])
    BY Zenon DEF ConnOf
  <1>4. PICK x \in Nat : x = i
    BY <1>1, <1>2
  <1>5. 1 + n + x \in 1..l /\ r[x] = q[1 + n + x] /\ x \in 1..(l - 1 - n)
    BY <1>2, <1>4
  <1>6. PICK k \in 1..Len(F) : AtConn(q, 1 + n + x, F[k])
    BY <1>1, <1>3, <1>4, <1>5, Zenon DEF ConnOf
  <1>20. PICK f : f = F[k]
    OBVIOUS
  <1>21. Len(f.data) \in Nat
    BY <1>20
  <1>7. PICK y \in Nat : f = F[k] /\ y = Len(f.data)
    BY <1>20, <1>21
  <1>8. /\ q[1 + n + x] = [hdr |-> Kept(f)] /\ (1 + n + x) + y <= l
        /\ \A j \in 1..y : q[(1 + n + x) + j] = [unit |-> f.data[j]]
    BY <1>1, <1>6, <1>7 DEF AtConn
  <1>9. x + y <= l - 1 - n /\ \A j \in 1..y : x + j \in 1..(l - 1 - n) /\ 1 + n + (x + j) = (1 + n + x) + j
    <2>1. x + y <= l - 1 - n /\ l - 1 - n \in Nat /\ \A j \in 1..y : 1 + n + (x + j) = (1 + n + x) + j
      BY <1>8
    <2>2. \A j \in 1..y : x + j \in 1..(l - 1 - n)
      BY <1>5, <2>1, InRange
    <2> QED
      BY <2>1, <2>2
  <1>10. \A j \in 1..y : r[x + j] = [unit |-> f.data[j]]
    BY <1>2, <1>8, <1>9
  <1>11. AtConn(r, x, f)
    BY <1>2, <1>5, <1>7, <1>8, <1>9, <1>10 DEF AtConn
  <1> QED
    BY <1>4, <1>7, <1>11

IsOneOf(h, d, F) == \E k \in 1..Len(F) : h = Kept(F[k]) /\ d = F[k].data

LEMMA FirstTaken ==
    ASSUME NEW q \in Seq(ConnItem), NEW h \in EnvelopeHeader, q[1] = [hdr |-> h], q[1] \in HdrItem,
           NEW d, NEW r, Taken(q, h.len, d, r), 1 + h.len <= Len(q),
           NEW D, NEW F, Planned(h.corr, D, F), ConnOf(q, h.corr, F)
    PROVE  IsOneOf(h, d, F)
  <1>1. h.len \in Nat /\ q[1].hdr = h
    BY HeaderTypes
  <1>2. 1 \in 1..Len(q)
    <2>1. PICK l \in Nat, n \in Nat : l = Len(q) /\ n = h.len
      BY <1>1, LenProperties
    <2>2. 1 + n <= l
      BY <2>1
    <2>3. 1 \in 1..l
      BY <2>2
    <2> QED
      BY <2>1, <2>3
  <1>3. PICK k \in 1..Len(F) : AtConn(q, 1, F[k])
    BY <1>1, <1>2, Zenon DEF ConnOf
  <1>4. PICK f : f = F[k]
    OBVIOUS
  <1>5. f \in Env /\ Len(f.data) % LenWidth = Len(f.data)
    BY <1>4, Zenon DEF Planned
  <1>6. q[1] = [hdr |-> Kept(f)] /\ \A j \in 1..Len(f.data) : q[1 + j] = [unit |-> f.data[j]]
    BY <1>3, <1>4, Zenon DEF AtConn
  <1>7. h = Kept(f)
    <2>1. [hdr |-> h].hdr = h /\ [hdr |-> Kept(f)].hdr = Kept(f)
      OBVIOUS
    <2> QED
      BY <1>6, <2>1
  <1>8. h.len = Len(f.data) /\ f.data \in Seq(Unit)
    BY <1>5, <1>7, KeptFacts
  <1>9. d \in Seq(Unit) /\ Len(d) = Len(f.data) /\ \A j \in 1..Len(f.data) : d[j] = q[1 + j].unit
    BY <1>8, Zenon DEF Taken
  <1>10. ASSUME NEW j \in 1..Len(d) PROVE d[j] = f.data[j]
    <2>1. j \in 1..Len(f.data)
      BY <1>9
    <2>2. d[j] = q[1 + j].unit /\ q[1 + j] = [unit |-> f.data[j]]
      BY <1>6, <1>9, <2>1, Zenon
    <2> QED
      BY <2>2
  <1>11. d = f.data
    BY <1>8, <1>9, <1>10, SeqEqual
  <1> QED
    BY <1>4, <1>7, <1>11, Zenon DEF IsOneOf

HeldAdded(hd, hp, h, d, x, m, F) ==
    /\ HeldOf(hd \cup {x}, Append(hp, d), m, F)
    /\ HeldKeys(hd \cup {x}, m) = HeldKeys(hd, m) \cup KeyIf(h.corr, h.index, m)
    /\ HeldKeys(hd, m) \cap KeyIf(h.corr, h.index, m) = {} => HeldUniq(hd \cup {x}, m)

LEMMA HeldAdd ==
    ASSUME NEW hp \in Seq(Seq(Unit)), NEW hd, hd \subseteq HeldItem(Len(hp)), NEW h \in EnvelopeHeader,
           NEW d \in Seq(Unit), NEW ch, NEW x, x = [ch |-> ch, hdr |-> h, buf |-> Len(hp) + 1],
           NEW m, NEW F, HeldOf(hd, hp, m, F), HeldUniq(hd, m),
           h.corr = m => \E k \in 1..Len(F) : h = Kept(F[k]) /\ d = F[k].data
    PROVE  HeldAdded(hd, hp, h, d, x, m, F)
  <1>1. PICK l, hp2 : l \in Nat /\ l = Len(hp) /\ hp2 = Append(hp, d)
    BY LenProperties
  <1>2. (\A i \in 1..l : hp2[i] = hp[i]) /\ hp2[l + 1] = d
    BY <1>1, AppendProperties
  <1>3. x.hdr = h /\ x.buf = l + 1
    BY <1>1
  <1>4. \A y \in hd : y.buf \in 1..l
    BY <1>1 DEF HeldItem
  <1>5. HeldOf(hd \cup {x}, hp2, m, F)
    <2>1. SUFFICES ASSUME NEW y \in hd \cup {x}, y.hdr.corr = m
                   PROVE  \E k \in 1..Len(F) : y.hdr = Kept(F[k]) /\ hp2[y.buf] = F[k].data
      BY Zenon DEF HeldOf
    <2>2. CASE y \in hd
      <3>1. PICK k \in 1..Len(F) : y.hdr = Kept(F[k]) /\ hp[y.buf] = F[k].data
        BY <2>1, <2>2, Zenon DEF HeldOf
      <3>2. hp2[y.buf] = hp[y.buf]
        BY <1>2, <1>4, <2>2
      <3> QED
        BY <3>1, <3>2, Zenon
    <2>3. CASE y = x
      <3>1. y.hdr = h /\ hp2[y.buf] = d
        BY <1>2, <1>3, <2>3
      <3>2. PICK k \in 1..Len(F) : h = Kept(F[k]) /\ d = F[k].data
        BY <2>1, <3>1, Zenon
      <3> QED
        BY <3>1, <3>2, Zenon
    <2> QED
      BY <2>1, <2>2, <2>3
  <1>6. HeldKeys(hd \cup {x}, m) = HeldKeys(hd, m) \cup KeyIf(h.corr, h.index, m)
    <2>1. ASSUME NEW y \in HeldKeys(hd \cup {x}, m) PROVE y \in HeldKeys(hd, m) \cup KeyIf(h.corr, h.index, m)
      <3>1. PICK z \in hd \cup {x} : z.hdr.corr = m /\ y = z.hdr.index
        BY <2>1 DEF HeldKeys
      <3>2. CASE z \in hd
        BY <3>1, <3>2 DEF HeldKeys
      <3>3. CASE z = x
        BY <1>3, <3>1, <3>3 DEF KeyIf
      <3> QED
        BY <3>1, <3>2, <3>3
    <2>2. HeldKeys(hd, m) \subseteq HeldKeys(hd \cup {x}, m)
      BY DEF HeldKeys
    <2>3. KeyIf(h.corr, h.index, m) \subseteq HeldKeys(hd \cup {x}, m)
      BY <1>3 DEF HeldKeys, KeyIf
    <2> QED
      BY <2>1, <2>2, <2>3
  <1>7. ASSUME HeldKeys(hd, m) \cap KeyIf(h.corr, h.index, m) = {} PROVE HeldUniq(hd \cup {x}, m)
    <2>1. ASSUME NEW y \in hd, y.hdr.corr = m, x.hdr.corr = m, y.hdr.index = x.hdr.index PROVE FALSE
      <3>1. h.index \in HeldKeys(hd, m)
        BY <1>3, <2>1 DEF HeldKeys
      <3>2. h.index \in KeyIf(h.corr, h.index, m)
        BY <1>3, <2>1 DEF KeyIf
      <3> QED
        BY <1>7, <3>1, <3>2
    <2>2. SUFFICES ASSUME NEW y \in hd \cup {x}, NEW z \in hd \cup {x}, y.hdr.corr = m, z.hdr.corr = m,
                          y.hdr.index = z.hdr.index
                   PROVE  y = z
      BY Zenon DEF HeldUniq
    <2>3. CASE y \in hd /\ z \in hd
      BY <2>2, <2>3, Zenon DEF HeldUniq
    <2> QED
      BY <2>1, <2>2, <2>3
  <1> QED
    BY <1>1, <1>5, <1>6, <1>7, Zenon DEF HeldAdded

LEMMA ApartAny ==
    ASSUME NEW A, NEW B, NEW C, NEW E
    PROVE  /\ Apart(A, B, C, E) <=> Apart(A, C, B, E)
           /\ Apart(A, B, C, E) <=> Apart(B, E, A, C)
           /\ Apart(A, B, C, E) <=> Apart(C, E, A, B)
  BY DEF Apart

Flow(m, D, F) ==
    /\ OutOf(out, m, F) /\ GrpcOf(grpc, m, F) /\ ConnOf(conn, m, F)
    /\ HeldOf(held, heap, m, F) /\ DoneOf(delivered, m, D)
    /\ Uniq(out, ByEnv(m)) /\ Uniq(grpc, ByMsg(m)) /\ Uniq(conn, ByHdr(m)) /\ HeldUniq(held, m)
    /\ Apart(Keys(out, ByEnv(m)), Keys(grpc, ByMsg(m)), Keys(conn, ByHdr(m)), HeldKeys(held, m))
    /\ Covers(connUp, delivered, D, F,
              Keys(out, ByEnv(m)) \cup Keys(grpc, ByMsg(m)) \cup Keys(conn, ByHdr(m)) \cup HeldKeys(held, m))

LEMMA FlowNext ==
    ASSUME NEW m, NEW D, NEW F
    PROVE  Flow(m, D, F)' <=>
             /\ OutOf(out', m, F) /\ GrpcOf(grpc', m, F) /\ ConnOf(conn', m, F)
             /\ HeldOf(held', heap', m, F) /\ DoneOf(delivered', m, D)
             /\ Uniq(out', ByEnv(m)) /\ Uniq(grpc', ByMsg(m)) /\ Uniq(conn', ByHdr(m)) /\ HeldUniq(held', m)
             /\ Apart(Keys(out', ByEnv(m)), Keys(grpc', ByMsg(m)), Keys(conn', ByHdr(m)), HeldKeys(held', m))
             /\ Covers(connUp', delivered', D, F,
                       Keys(out', ByEnv(m)) \cup Keys(grpc', ByMsg(m)) \cup Keys(conn', ByHdr(m))
                       \cup HeldKeys(held', m))
  BY DEF Flow

LEMMA PlannedLens ==
    ASSUME NEW m, NEW D, NEW F, Planned(m, D, F)
    PROVE  /\ F \in Seq(Env) /\ Len(F) \in Nat
           /\ \A k \in 1..Len(F) : F[k] \in Env /\ Len(F[k].data) \in Nat /\ F[k].hdr.index = k - 1
  <1>1. F \in Seq(Env) /\ \A k \in 1..Len(F) : F[k] \in Env /\ F[k].hdr.index = k - 1
    BY Zenon DEF Planned
  <1> QED
    BY <1>1, KeptFacts, LenProperties

LEMMA FlowConnSend ==
    ASSUME ETypeOK, ConnSend, NEW m, NEW D, NEW F, Planned(m, D, F), Flow(m, D, F)
    PROVE  Flow(m, D, F)'
  <1>1. /\ out # <<>> /\ Head(out) \in Env /\ Writes(conn, Head(out), conn') /\ out' = Tail(out)
        /\ UNCHANGED <<origin, connUp, grpc, bodies, heap, held, delivered>>
    BY ConnSendDoes
  <1>2. PICK e \in Env : e = Head(out)
    BY <1>1
  <1>3. out \in Seq(Env) /\ conn \in Seq(ConnItem)
    BY TypeParts DEF ConnItem
  <1>4. PICK K : K = KeyIf(e.hdr.corr, e.hdr.index, m)
    OBVIOUS
  <1>5. KeyOf(e, ByEnv(m)) = K /\ KeyOf([hdr |-> Kept(e)], ByHdr(m)) = K
    BY <1>4, KeyOfEnv
  <1> DEFINE O == Keys(out, ByEnv(m))
             O2 == Keys(out', ByEnv(m))
             G == Keys(grpc, ByMsg(m))
             C == Keys(conn, ByHdr(m))
             C2 == Keys(conn', ByHdr(m))
             H == HeldKeys(held, m)
  <1>6. /\ OutOf(out, m, F) /\ GrpcOf(grpc, m, F) /\ ConnOf(conn, m, F)
        /\ HeldOf(held, heap, m, F) /\ DoneOf(delivered, m, D)
        /\ Uniq(out, ByEnv(m)) /\ Uniq(grpc, ByMsg(m)) /\ Uniq(conn, ByHdr(m)) /\ HeldUniq(held, m)
        /\ Apart(O, G, C, H) /\ Covers(connUp, delivered, D, F, O \cup G \cup C \cup H)
    BY Zenon DEF Flow
  <1>7. O = O2 \cup K /\ O2 \cap K = {} /\ Uniq(out', ByEnv(m))
    BY <1>1, <1>2, <1>3, <1>5, <1>6, KeysTail
  <1>8. DOMAIN ByHdr(m) \subseteq HdrItem
    BY ByHdrDomain
  <1>9. /\ C2 = C \cup KeyOf([hdr |-> Kept(e)], ByHdr(m))
        /\ Uniq(conn, ByHdr(m)) /\ C \cap KeyOf([hdr |-> Kept(e)], ByHdr(m)) = {} => Uniq(conn', ByHdr(m))
    BY <1>1, <1>2, <1>3, <1>8, KeysWrites
  <1>10. Apart(O, C, G, H) /\ C2 = C \cup K
    BY <1>5, <1>6, <1>9, ApartAny
  <1> HIDE DEF O, O2, G, C, C2, H
  <1>11. Apart(O2, C2, G, H) /\ C \cap K = {} /\ O2 \cup C2 \cup G \cup H = O \cup C \cup G \cup H
    BY <1>7, <1>10 DEF Apart
  <1>12. Apart(O2, G, C2, H) /\ O2 \cup G \cup C2 \cup H = O \cup G \cup C \cup H
    BY <1>11, ApartAny
  <1>13. Uniq(conn', ByHdr(m))
    BY <1>5, <1>6, <1>9, <1>11 DEF C
  <1>14. OutOf(out', m, F) /\ (e.hdr.corr = m => \E k \in 1..Len(F) : e = F[k])
    BY <1>1, <1>2, <1>3, <1>6, OutTail
  <1>15. ConnOf(conn', m, F)
    <2>1. \A k \in 1..Len(F) : Len(F[k].data) \in Nat
      BY PlannedLens
    <2> QED
      BY <1>1, <1>2, <1>3, <1>6, <1>14, <2>1, ConnWrites
  <1>16. Covers(connUp', delivered', D, F, O2 \cup G \cup C2 \cup H)
    BY <1>1, <1>6, <1>12
  <1> QED
    BY <1>1, <1>6, <1>7, <1>12, <1>13, <1>14, <1>15, <1>16, FlowNext, Zenon DEF O, O2, G, C, C2, H

LEMMA FlowStreamSend ==
    ASSUME ETypeOK, StreamSend, NEW m, NEW D, NEW F, Planned(m, D, F), Flow(m, D, F)
    PROVE  Flow(m, D, F)'
  <1>1. /\ out # <<>> /\ grpc' = Append(grpc, ToProtoEnvelope(Head(out))) /\ out' = Tail(out)
        /\ UNCHANGED <<origin, conn, connUp, bodies, heap, held, delivered>>
    BY DEF StreamSend
  <1>3. out \in Seq(Env) /\ grpc \in Seq(ProtoMsg)
    BY TypeParts
  <1>2. PICK e \in Env : e = Head(out)
    BY <1>1, <1>3, HeadTailProperties
  <1>4. PICK K : K = KeyIf(e.hdr.corr, e.hdr.index, m)
    OBVIOUS
  <1>5. PICK p \in ProtoMsg : p = ToProtoEnvelope(e) /\ p.corr = e.hdr.corr
    BY ProtoFacts
  <1>17. KeyOf(e, ByEnv(m)) = K /\ KeyOf(p, ByMsg(m)) = K
    BY <1>4, <1>5, KeyOfEnv
  <1> DEFINE O == Keys(out, ByEnv(m))
             O2 == Keys(out', ByEnv(m))
             G == Keys(grpc, ByMsg(m))
             G2 == Keys(grpc', ByMsg(m))
             C == Keys(conn, ByHdr(m))
             H == HeldKeys(held, m)
  <1>6. /\ OutOf(out, m, F) /\ GrpcOf(grpc, m, F) /\ ConnOf(conn, m, F)
        /\ HeldOf(held, heap, m, F) /\ DoneOf(delivered, m, D)
        /\ Uniq(out, ByEnv(m)) /\ Uniq(grpc, ByMsg(m)) /\ Uniq(conn, ByHdr(m)) /\ HeldUniq(held, m)
        /\ Apart(O, G, C, H) /\ Covers(connUp, delivered, D, F, O \cup G \cup C \cup H)
    BY Zenon DEF Flow
  <1>7. O = O2 \cup K /\ O2 \cap K = {} /\ Uniq(out', ByEnv(m))
    BY <1>1, <1>2, <1>3, <1>17, <1>6, KeysTail
  <1>8. grpc' = Append(grpc, p)
    BY <1>1, <1>2, <1>5
  <1>9. /\ G2 = G \cup K
        /\ Uniq(grpc, ByMsg(m)) /\ G \cap K = {} => Uniq(grpc', ByMsg(m))
    BY <1>3, <1>8, <1>17, KeysAppend
  <1> HIDE DEF O, O2, G, C, G2, H
  <1>11. Apart(O2, G2, C, H) /\ G \cap K = {} /\ O2 \cup G2 \cup C \cup H = O \cup G \cup C \cup H
    BY <1>6, <1>7, <1>9 DEF Apart
  <1>13. Uniq(grpc', ByMsg(m))
    BY <1>6, <1>9, <1>11
  <1>14. OutOf(out', m, F) /\ (e.hdr.corr = m => \E k \in 1..Len(F) : e = F[k])
    BY <1>1, <1>2, <1>3, <1>6, OutTail
  <1>15. GrpcOf(grpc', m, F)
    <2>1. p.corr = m => \E k \in 1..Len(F) : p = ToProtoEnvelope(F[k])
      BY <1>5, <1>14, Zenon
    <2> QED
      BY <1>3, <1>6, <1>8, <2>1, GrpcAppend
  <1>16. Covers(connUp', delivered', D, F, O2 \cup G2 \cup C \cup H)
    BY <1>1, <1>6, <1>11
  <1> QED
    BY <1>1, <1>6, <1>7, <1>11, <1>13, <1>14, <1>15, <1>16, FlowNext, Zenon DEF O, O2, G, C, G2, H

LEMMA FlowPeerSend ==
    ASSUME ETypeOK, NEW b \in BodyKinds, PeerSend(b), NEW m \in Msgs, NEW D, NEW F, Flow(m, D, F)
    PROVE  Flow(m, D, F)'
  <1>1. PICK pr \in Priorities :
           grpc' = Append(grpc, ProtoEnvelope(b, "unknown", {}, pr, 0, 0, b, <<<<b, 1>>>>))
    BY Zenon DEF PeerSend
  <1>2. PICK p \in ProtoMsg : grpc' = Append(grpc, p) /\ p.corr = b
    BY <1>1, PeerMsg
  <1>3. grpc \in Seq(ProtoMsg) /\ UNCHANGED <<origin, out, conn, connUp, heap, held, delivered>>
    BY TypeParts DEF PeerSend
  <1>4. p.corr # m
    BY <1>2, Widths
  <1>5. KeyOf(p, ByMsg(m)) = {}
    BY <1>4, KeyOfMsg DEF KeyIf
  <1>6. /\ GrpcOf(grpc, m, F) /\ Uniq(grpc, ByMsg(m))
    BY Zenon DEF Flow
  <1>7. Keys(grpc', ByMsg(m)) = Keys(grpc, ByMsg(m)) /\ Uniq(grpc', ByMsg(m))
    <2>1. /\ Keys(Append(grpc, p), ByMsg(m)) = Keys(grpc, ByMsg(m)) \cup KeyOf(p, ByMsg(m))
          /\ Uniq(grpc, ByMsg(m)) /\ Keys(grpc, ByMsg(m)) \cap KeyOf(p, ByMsg(m)) = {} => Uniq(Append(grpc, p), ByMsg(m))
      BY <1>3, KeysAppend
    <2>2. \A X : X \cup {} = X /\ X \cap {} = {}
      OBVIOUS
    <2> QED
      BY <1>2, <1>5, <1>6, <2>1, <2>2, Zenon
  <1>8. GrpcOf(grpc', m, F)
    BY <1>2, <1>3, <1>4, <1>6, GrpcAppend
  <1> QED
    BY <1>3, <1>7, <1>8, FlowNext, Zenon DEF Flow

LEMMA FlowConnRecv ==
    ASSUME ETypeOK, ConnShape, ConnRecv, NEW m, NEW D, NEW F, Planned(m, D, F), Flow(m, D, F)
    PROVE  Flow(m, D, F)'
  <1>1. PICK h, d, r : Received(h, d, r)
    BY ConnRecvDoes
  <1>2. /\ conn[1] = [hdr |-> h] /\ conn[1] \in HdrItem /\ h \in EnvelopeHeader /\ h.len \in Nat
        /\ 1 + h.len <= Len(conn) /\ (\A j \in 1..h.len : conn[1 + j] \in UnitItem)
        /\ Taken(conn, h.len, d, r) /\ conn' = r
        /\ heap' = Append(heap, d)
        /\ held' = held \cup {[ch |-> "conn", hdr |-> h, buf |-> Len(heap) + 1]}
        /\ UNCHANGED <<origin, out, connUp, grpc, bodies, delivered>>
    BY <1>1, Zenon DEF Received
  <1>3. /\ conn \in Seq(ConnItem) /\ heap \in Seq(Seq(Unit)) /\ held \subseteq HeldItem(Len(heap))
        /\ d \in Seq(Unit)
    BY <1>2, TypeParts DEF ConnItem, Taken
  <1>4. PICK K : K = KeyIf(h.corr, h.index, m)
    OBVIOUS
  <1>5. KeyOf(conn[1], ByHdr(m)) = K
    <2>1. conn[1].hdr = h
      BY <1>2
    <2> QED
      BY <1>2, <1>4, <2>1, KeyOfHdr
  <1> DEFINE O == Keys(out, ByEnv(m))
             G == Keys(grpc, ByMsg(m))
             C == Keys(conn, ByHdr(m))
             C2 == Keys(conn', ByHdr(m))
             H == HeldKeys(held, m)
             H2 == HeldKeys(held', m)
  <1>6. /\ OutOf(out, m, F) /\ GrpcOf(grpc, m, F) /\ ConnOf(conn, m, F)
        /\ HeldOf(held, heap, m, F) /\ DoneOf(delivered, m, D)
        /\ Uniq(out, ByEnv(m)) /\ Uniq(grpc, ByMsg(m)) /\ Uniq(conn, ByHdr(m)) /\ HeldUniq(held, m)
        /\ Apart(O, G, C, H) /\ Covers(connUp, delivered, D, F, O \cup G \cup C \cup H)
    BY Zenon DEF Flow
  <1>7. C = C2 \cup K /\ C2 \cap K = {} /\ Uniq(conn', ByHdr(m))
    <2>1. DOMAIN ByHdr(m) \subseteq HdrItem
      BY ByHdrDomain
    <2>2. PICK n \in Nat : n = h.len
      BY <1>2
    <2>3. 1 + n <= Len(conn) /\ (\A j \in 1..n : conn[1 + j] \in UnitItem) /\ Taken(conn, n, d, r)
      BY <1>2, <2>2
    <2>4. /\ Keys(conn, ByHdr(m)) = Keys(r, ByHdr(m)) \cup KeyOf(conn[1], ByHdr(m))
          /\ Uniq(conn, ByHdr(m)) => Uniq(r, ByHdr(m)) /\ Keys(r, ByHdr(m)) \cap KeyOf(conn[1], ByHdr(m)) = {}
      BY <1>3, <2>1, <2>3, KeysTaken
    <2> QED
      BY <1>2, <1>5, <1>6, <2>4, Zenon
  <1>8. h.corr = m => \E k \in 1..Len(F) : h = Kept(F[k]) /\ d = F[k].data
    <2>1. SUFFICES ASSUME h.corr = m PROVE \E k \in 1..Len(F) : h = Kept(F[k]) /\ d = F[k].data
      OBVIOUS
    <2>2. PICK q : q = conn
      OBVIOUS
    <2>3. q \in Seq(ConnItem) /\ q[1] = [hdr |-> h] /\ q[1] \in HdrItem /\ h \in EnvelopeHeader
      BY <1>2, <1>3, <2>2
    <2>4. Taken(q, h.len, d, r) /\ 1 + h.len <= Len(q) /\ ConnOf(q, m, F)
      BY <1>2, <1>6, <2>2
    <2> QED
      <3>1. Planned(h.corr, D, F) /\ ConnOf(q, h.corr, F)
        BY <2>1, <2>4
      <3>2. IsOneOf(h, d, F)
        BY <2>3, <2>4, <3>1, FirstTaken
      <3> QED
        BY <3>2, Zenon DEF IsOneOf
  <1>9. /\ HeldOf(held', heap', m, F) /\ H2 = H \cup K
        /\ H \cap K = {} => HeldUniq(held', m)
    <2>1. PICK x : x = [ch |-> "conn", hdr |-> h, buf |-> Len(heap) + 1]
      OBVIOUS
    <2>2. /\ HeldOf(held \cup {x}, Append(heap, d), m, F)
          /\ HeldKeys(held \cup {x}, m) = HeldKeys(held, m) \cup KeyIf(h.corr, h.index, m)
          /\ HeldKeys(held, m) \cap KeyIf(h.corr, h.index, m) = {} => HeldUniq(held \cup {x}, m)
      <3>1. HeldAdded(held, heap, h, d, x, m, F)
        BY <1>2, <1>3, <1>6, <1>8, <2>1, HeldAdd
      <3> QED
        BY <3>1, Zenon DEF HeldAdded
    <2>3. held' = held \cup {x} /\ heap' = Append(heap, d)
      BY <1>2, <2>1
    <2> QED
      BY <1>4, <2>2, <2>3, Zenon
  <1>10. ConnOf(conn', m, F)
    <2>1. \A k \in 1..Len(F) : Len(F[k].data) \in Nat
      BY PlannedLens
    <2>2. PICK n \in Nat : n = h.len
      BY <1>2
    <2>3. 1 + n <= Len(conn) /\ Taken(conn, n, d, r)
      BY <1>2, <2>2
    <2>4. ConnOf(r, m, F)
      BY <1>3, <1>6, <2>1, <2>3, ConnTaken
    <2> QED
      BY <1>2, <2>4
  <1> HIDE DEF O, G, C, C2, H, H2
  <1>11. Apart(O, G, C2, H2) /\ H \cap K = {} /\ O \cup G \cup C2 \cup H2 = O \cup G \cup C \cup H
    BY <1>6, <1>7, <1>9 DEF Apart
  <1>12. Covers(connUp', delivered', D, F, O \cup G \cup C2 \cup H2)
    BY <1>2, <1>6, <1>11
  <1>13. HeldUniq(held', m)
    BY <1>9, <1>11
  <1> QED
    BY <1>2, <1>6, <1>7, <1>9, <1>10, <1>11, <1>12, <1>13, FlowNext, Zenon DEF O, G, C, C2, H, H2

LEMMA FlowConnRecvFails ==
    ASSUME ConnRecvFails, NEW m, NEW D, NEW F, Flow(m, D, F)
    PROVE  Flow(m, D, F)'
  <1>1. connUp' = FALSE /\ conn' = <<>> /\ UNCHANGED <<origin, out, grpc, bodies, heap, held, delivered>>
    BY DEF ConnRecvFails
  <1>2. Keys(conn', ByHdr(m)) = {} /\ Uniq(conn', ByHdr(m))
    BY <1>1, NoKeys
  <1>3. ConnOf(conn', m, F)
    <2>1. Len(<<>>) = 0
      OBVIOUS
    <2> QED
      BY <1>1, <2>1 DEF ConnOf
  <1> DEFINE O == Keys(out, ByEnv(m))
             G == Keys(grpc, ByMsg(m))
             C == Keys(conn, ByHdr(m))
             H == HeldKeys(held, m)
  <1>4. /\ OutOf(out, m, F) /\ GrpcOf(grpc, m, F)
        /\ HeldOf(held, heap, m, F) /\ DoneOf(delivered, m, D)
        /\ Uniq(out, ByEnv(m)) /\ Uniq(grpc, ByMsg(m)) /\ HeldUniq(held, m)
        /\ Apart(O, G, C, H)
    BY Zenon DEF Flow
  <1> HIDE DEF O, G, C, H
  <1>5. Apart(O, G, {}, H)
    BY <1>4 DEF Apart
  <1>6. Covers(connUp', delivered', D, F, O \cup G \cup {} \cup H)
    BY <1>1 DEF Covers
  <1> QED
    BY <1>1, <1>2, <1>3, <1>4, <1>5, <1>6, FlowNext, Zenon DEF O, G, C, H

LEMMA FlowStreamRecv ==
    ASSUME ETypeOK, StreamRecv, NEW m, NEW D, NEW F, Planned(m, D, F), Flow(m, D, F)
    PROVE  Flow(m, D, F)'
  <1>1. grpc # <<>> /\ grpc' = Tail(grpc) /\ UNCHANGED <<origin, out, conn, connUp, bodies, delivered>>
    BY DEF StreamRecv
  <1>2. grpc \in Seq(ProtoMsg) /\ heap \in Seq(Seq(Unit)) /\ held \subseteq HeldItem(Len(heap))
    BY TypeParts
  <1>3. PICK p \in ProtoMsg : p = Head(grpc)
    BY <1>1, <1>2, HeadTailProperties
  <1>4. PICK e \in Env : e = FromProtoEnvelope(p) /\ e.hdr.corr = p.corr /\ e.hdr.index = p.index
    BY FromFacts
  <1>5. PICK h \in EnvelopeHeader, d \in Seq(Unit) : h = e.hdr /\ d = e.data
    BY KeptFacts
  <1>6. /\ heap' = Append(heap, d)
        /\ held' = held \cup {[ch |-> "grpc", hdr |-> h, buf |-> Len(heap) + 1]}
    BY <1>3, <1>4, <1>5, Zenon DEF StreamRecv, Keep
  <1>7. PICK K : K = KeyIf(h.corr, h.index, m)
    OBVIOUS
  <1>8. KeyOf(p, ByMsg(m)) = K
    BY <1>4, <1>5, <1>7, KeyOfMsg
  <1> DEFINE O == Keys(out, ByEnv(m))
             G == Keys(grpc, ByMsg(m))
             G2 == Keys(grpc', ByMsg(m))
             C == Keys(conn, ByHdr(m))
             H == HeldKeys(held, m)
             H2 == HeldKeys(held', m)
  <1>9. /\ OutOf(out, m, F) /\ GrpcOf(grpc, m, F) /\ ConnOf(conn, m, F)
        /\ HeldOf(held, heap, m, F) /\ DoneOf(delivered, m, D)
        /\ Uniq(out, ByEnv(m)) /\ Uniq(grpc, ByMsg(m)) /\ Uniq(conn, ByHdr(m)) /\ HeldUniq(held, m)
        /\ Apart(O, G, C, H) /\ Covers(connUp, delivered, D, F, O \cup G \cup C \cup H)
    BY Zenon DEF Flow
  <1>10. G = G2 \cup K /\ G2 \cap K = {} /\ Uniq(grpc', ByMsg(m))
    BY <1>1, <1>2, <1>3, <1>8, <1>9, KeysTail
  <1>11. GrpcOf(grpc', m, F) /\ (p.corr = m => \E k \in 1..Len(F) : p = ToProtoEnvelope(F[k]))
    BY <1>1, <1>2, <1>3, <1>9, GrpcTail
  <1>12. h.corr = m => \E k \in 1..Len(F) : h = Kept(F[k]) /\ d = F[k].data
    <2>1. SUFFICES ASSUME h.corr = m PROVE \E k \in 1..Len(F) : h = Kept(F[k]) /\ d = F[k].data
      OBVIOUS
    <2>2. PICK k \in 1..Len(F) : p = ToProtoEnvelope(F[k])
      BY <1>4, <1>5, <1>11, <2>1
    <2>3. PICK f \in Env : f = F[k]
      BY PlannedLens
    <2>4. e = [hdr |-> Kept(f), data |-> f.data]
      BY <1>4, <2>2, <2>3, RoundTrip
    <2>5. h = Kept(f) /\ d = f.data
      BY <1>5, <2>4
    <2> QED
      BY <2>3, <2>5
  <1>13. /\ HeldOf(held', heap', m, F) /\ H2 = H \cup K
         /\ H \cap K = {} => HeldUniq(held', m)
    <2>1. PICK x : x = [ch |-> "grpc", hdr |-> h, buf |-> Len(heap) + 1]
      OBVIOUS
    <2>2. /\ HeldOf(held \cup {x}, Append(heap, d), m, F)
          /\ HeldKeys(held \cup {x}, m) = HeldKeys(held, m) \cup KeyIf(h.corr, h.index, m)
          /\ HeldKeys(held, m) \cap KeyIf(h.corr, h.index, m) = {} => HeldUniq(held \cup {x}, m)
      <3>1. HeldAdded(held, heap, h, d, x, m, F)
        BY <1>2, <1>9, <1>12, <2>1, HeldAdd
      <3> QED
        BY <3>1, Zenon DEF HeldAdded
    <2>3. held' = held \cup {x} /\ heap' = Append(heap, d)
      BY <1>6, <2>1
    <2> QED
      BY <1>7, <2>2, <2>3, Zenon
  <1> HIDE DEF O, G, C, G2, H, H2
  <1>14. Apart(O, G2, C, H2) /\ H \cap K = {} /\ O \cup G2 \cup C \cup H2 = O \cup G \cup C \cup H
    BY <1>9, <1>10, <1>13 DEF Apart
  <1>15. Covers(connUp', delivered', D, F, O \cup G2 \cup C \cup H2)
    BY <1>1, <1>9, <1>14
  <1>16. HeldUniq(held', m)
    BY <1>13, <1>14
  <1> QED
    BY <1>1, <1>9, <1>10, <1>11, <1>13, <1>14, <1>15, <1>16, FlowNext, Zenon DEF O, G, C, G2, H, H2

-----------------------------------------------------------------------------
(* Delivery.                                                               *)

\* n numbers below n in ascending order are 0 to n - 1.
LEMMA CountsUp ==
    ASSUME NEW n \in Nat \ {0}, NEW g \in [1..n -> 0..(n - 1)],
           \A i, j \in 1..n : i < j => g[i] < g[j]
    PROVE  \A i \in 1..n : g[i] = i - 1
  <1> DEFINE T == {i \in 0..n : i = 0 \/ g[i] >= i - 1}
             U == {i \in 0..(n - 1) : g[n - i] <= n - i - 1}
  <1>1. 0 \in T
    OBVIOUS
  <1>2. ASSUME NEW i \in 1..n, i - 1 \in T PROVE i \in T
    <2>1. CASE i = 1
      BY <2>1
    <2>2. CASE i # 1
      <3>1. i - 1 \in 1..n /\ g[i - 1] >= (i - 1) - 1
        BY <1>2, <2>2
      <3>2. g[i - 1] < g[i] /\ g[i - 1] \in Nat /\ g[i] \in Nat
        BY <3>1
      <3> QED
        BY <3>1, <3>2
    <2> QED
      BY <2>1, <2>2
  <1>3. ASSUME NEW i \in 1..n PROVE g[i] >= i - 1
    <2> HIDE DEF T
    <2>1. n \in Nat /\ i \in 0..n
      OBVIOUS
    <2>2. i \in T
      BY <1>1, <1>2, <2>1, CountUp
    <2> QED
      BY <2>2 DEF T
  <1>4. 0 \in U
    <2>1. n \in 1..n /\ n - 0 = n
      OBVIOUS
    <2>2. g[n] \in 0..(n - 1)
      BY <2>1
    <2> QED
      BY <2>1, <2>2
  <1>5. ASSUME NEW i \in 1..(n - 1), i - 1 \in U PROVE i \in U
    <2>1. PICK a, b : a = n - i /\ b = n - (i - 1)
      OBVIOUS
    <2>2. a \in 1..n /\ b \in 1..n /\ b = a + 1 /\ g[b] <= b - 1
      BY <1>5, <2>1
    <2>3. g[a] < g[b] /\ g[a] \in Nat /\ g[b] \in Nat
      BY <2>2
    <2>4. g[a] <= a - 1
      BY <2>2, <2>3
    <2> QED
      BY <2>1, <2>4
  <1>6. ASSUME NEW i \in 1..n PROVE g[i] <= i - 1
    <2> HIDE DEF U
    <2>1. n - 1 \in Nat /\ n - i \in 0..(n - 1) /\ n - (n - i) = i
      OBVIOUS
    <2>2. n - i \in U
      BY <1>4, <1>5, <2>1, CountUp
    <2> QED
      BY <2>1, <2>2 DEF U
  <1>7. \A i \in 1..n : g[i] \in Int
    OBVIOUS
  <1> QED
    BY <1>3, <1>6, <1>7

LEMMA FlowDeliverOther ==
    ASSUME ETypeOK, NEW v, Deliver(v), NEW m, m # v, NEW D, NEW F, Flow(m, D, F)
    PROVE  Flow(m, D, F)'
  <1>1. PICK n, s, frags, x : Delivers(v, n, s, frags, x)
    BY DeliverDoes
  <1>2. /\ x.hdr.corr = v /\ delivered' = delivered \cup {x} /\ held' = held \ Pieces(v)
        /\ heap' = (IF held' = {} THEN <<>> ELSE heap)
        /\ UNCHANGED <<origin, out, conn, connUp, grpc, bodies>>
    BY <1>1, Zenon DEF Delivers
  <1>3. \A y \in held : y.hdr.corr = m => y \in held'
    BY <1>2 DEF Pieces
  <1>4. held' \subseteq held /\ (held' # {} => heap' = heap)
    BY <1>2
  <1> DEFINE O == Keys(out, ByEnv(m))
             G == Keys(grpc, ByMsg(m))
             C == Keys(conn, ByHdr(m))
             H == HeldKeys(held, m)
  <1>5. /\ OutOf(out, m, F) /\ GrpcOf(grpc, m, F) /\ ConnOf(conn, m, F)
        /\ HeldOf(held, heap, m, F) /\ DoneOf(delivered, m, D)
        /\ Uniq(out, ByEnv(m)) /\ Uniq(grpc, ByMsg(m)) /\ Uniq(conn, ByHdr(m)) /\ HeldUniq(held, m)
        /\ Apart(O, G, C, H) /\ Covers(connUp, delivered, D, F, O \cup G \cup C \cup H)
    BY Zenon DEF Flow
  <1>6. HeldKeys(held', m) = H
    BY <1>3, <1>4 DEF HeldKeys
  <1>7. HeldOf(held', heap', m, F)
    BY <1>4, <1>5, Zenon DEF HeldOf
  <1>8. HeldUniq(held', m)
    BY <1>4, <1>5 DEF HeldUniq
  <1>9. DoneOf(delivered', m, D)
    BY <1>2, <1>5 DEF DoneOf
  <1> HIDE DEF O, G, C, H
  <1>10. Covers(connUp', delivered', D, F, O \cup G \cup C \cup H)
    BY <1>2, <1>5 DEF Covers
  <1> QED
    BY <1>2, <1>5, <1>6, <1>7, <1>8, <1>9, <1>10, FlowNext, Zenon DEF O, G, C, H

\* What is put together is what was sent.
LEMMA PutTogether ==
    ASSUME NEW m, NEW D, NEW F, Planned(m, D, F), Flow(m, D, F),
           NEW n, NEW s, NEW frags, NEW x, Delivers(m, n, s, frags, x)
    PROVE  D = {x}
  <1>1. /\ F \in Seq(Env) /\ Len(F) \in Nat
        /\ \A k \in 1..Len(F) : F[k] \in Env /\ F[k].hdr.index = k - 1
    BY PlannedLens
  <1>2. /\ n \in Nat \ {0} /\ n = Cardinality(Pieces(m)) /\ s \in [1..n -> Pieces(m)]
        /\ (\A i, j \in 1..n : i # j => s[i] # s[j])
        /\ (\A i, j \in 1..n : i < j => s[i].hdr.index <= s[j].hdr.index)
        /\ frags \in [1..n -> Env]
        /\ (\A i \in 1..n : frags[i] = [hdr |-> s[i].hdr, data |-> heap[s[i].buf]])
        /\ x = IF IsFragment(s[1]) THEN Reassemble(frags) ELSE frags[1]
        /\ Complete(Pieces(m))
    BY Zenon DEF Delivers
  <1>3. HeldOf(held, heap, m, F) /\ HeldUniq(held, m)
    BY Zenon DEF Flow
  <1>4. ASSUME NEW i \in 1..n
        PROVE  s[i] \in held /\ s[i].hdr.corr = m /\ s[i] \in Pieces(m)
    BY <1>2 DEF Pieces
  <1>5. ASSUME NEW i \in 1..n
        PROVE  \E k \in 1..Len(F) : /\ s[i].hdr = Kept(F[k]) /\ heap[s[i].buf] = F[k].data
                                    /\ s[i].hdr.index = k - 1 /\ s[i].hdr.flags = F[k].hdr.flags
                                    /\ s[i].hdr.total = F[k].hdr.total
    <2>1. PICK k \in 1..Len(F) : s[i].hdr = Kept(F[k]) /\ heap[s[i].buf] = F[k].data
      BY <1>3, <1>4, Zenon DEF HeldOf
    <2>2. Kept(F[k]).index = k - 1 /\ Kept(F[k]).flags = F[k].hdr.flags /\ Kept(F[k]).total = F[k].hdr.total
      BY <1>1, KeptFacts
    <2> QED
      BY <2>1, <2>2
  <1>6. 1 \in 1..n
    BY <1>2
  <1>7. Len(F) # 0
    <2>1. PICK k \in 1..Len(F) : s[1].hdr.index = k - 1
      BY <1>5, <1>6
    <2> QED
      BY <1>1, <2>1
  <1>8. CASE Len(F) = 1
    <2>1. D = {F[1]} /\ "fragment" \notin F[1].hdr.flags /\ Kept(F[1]) = F[1].hdr
      BY <1>8, Zenon DEF Planned
    <2>2. s[1].hdr = Kept(F[1]) /\ heap[s[1].buf] = F[1].data /\ s[1].hdr.flags = F[1].hdr.flags
      <3>1. PICK k \in 1..Len(F) : /\ s[1].hdr = Kept(F[k]) /\ heap[s[1].buf] = F[k].data
                                   /\ s[1].hdr.flags = F[k].hdr.flags
        BY <1>5, <1>6
      <3>2. k = 1
        BY <1>8
      <3> QED
        BY <3>1, <3>2
    <2>3. ~IsFragment(s[1])
      BY <2>1, <2>2 DEF IsFragment
    <2>4. x = [hdr |-> F[1].hdr, data |-> F[1].data]
      BY <1>2, <1>6, <2>1, <2>2, <2>3
    <2>5. F[1] = [hdr |-> F[1].hdr, data |-> F[1].data]
      <3>1. F[1] \in Env
        BY <1>1, <1>8
      <3> QED
        BY <3>1 DEF Env
    <2> QED
      BY <2>1, <2>4, <2>5
  <1>9. CASE Len(F) > 1
    <2>1. /\ D = {Reassemble(Arrived(F))}
          /\ \A k \in 1..Len(F) : "fragment" \in F[k].hdr.flags /\ F[k].hdr.total = Len(F)
      BY <1>9, Zenon DEF Planned
    <2>2. IsFragment(s[1]) /\ s[1].hdr.total = Len(F)
      BY <1>5, <1>6, <2>1 DEF IsFragment
    <2>3. n = Len(F)
      BY <1>2, <1>4, <1>6, <2>2, Zenon DEF Complete
    <2> DEFINE g == [i \in 1..n |-> s[i].hdr.index]
    <2>4. g \in [1..n -> 0..(n - 1)]
      <3>1. ASSUME NEW i \in 1..n PROVE s[i].hdr.index \in 0..(n - 1)
        <4>1. PICK k \in 1..n : s[i].hdr.index = k - 1
          BY <1>5, <2>3
        <4> QED
          BY <1>2, <4>1
      <3> QED
        BY <3>1
    <2>5. ASSUME NEW i \in 1..n, NEW j \in 1..n, i < j PROVE g[i] < g[j]
      <3>1. g[i] <= g[j] /\ g[i] \in Int /\ g[j] \in Int
        BY <1>2, <2>4, <2>5
      <3>2. g[i] # g[j]
        <4>1. s[i] # s[j]
          BY <1>2, <2>5
        <4>2. s[i].hdr.index # s[j].hdr.index
          BY <1>3, <1>4, <4>1, Zenon DEF HeldUniq
        <4> QED
          BY <4>2
      <3> QED
        BY <3>1, <3>2
    <2>6. \A i \in 1..n : s[i].hdr.index = i - 1
      <3>1. g \in [1..n -> 0..(n - 1)] /\ \A i, j \in 1..n : i < j => g[i] < g[j]
        BY <2>4, <2>5
      <3>2. \A i \in 1..n : g[i] = s[i].hdr.index
        OBVIOUS
      <3> HIDE DEF g
      <3>3. \A i \in 1..n : g[i] = i - 1
        BY <1>2, <3>1, CountsUp
      <3> QED
        BY <3>2, <3>3
    <2>7. ASSUME NEW i \in 1..n PROVE frags[i] = [hdr |-> Kept(F[i]), data |-> F[i].data]
      <3>1. PICK k \in 1..n : s[i].hdr = Kept(F[k]) /\ heap[s[i].buf] = F[k].data /\ s[i].hdr.index = k - 1
        BY <1>5, <2>3
      <3>2. k = i
        BY <1>2, <2>6, <3>1
      <3> QED
        BY <1>2, <3>1, <3>2
    <2>8. frags = Arrived(F)
      <3>1. frags = [i \in 1..n |-> frags[i]]
        BY <1>2
      <3> QED
        BY <2>3, <2>7, <3>1 DEF Arrived
    <2> QED
      BY <1>2, <2>1, <2>2, <2>8, Zenon
  <1>10. Len(F) = 1 \/ Len(F) > 1
    <2>1. PICK l \in Nat : l = Len(F)
      BY <1>1
    <2>2. l = 0 \/ l = 1 \/ l > 1
      OBVIOUS
    <2> QED
      BY <1>7, <2>1, <2>2
  <1> QED
    BY <1>8, <1>9, <1>10

LEMMA FlowDeliverOwn ==
    ASSUME ETypeOK, NEW m, Deliver(m), NEW D, NEW F, Planned(m, D, F), Flow(m, D, F)
    PROVE  Flow(m, D, F)'
  <1>1. PICK n, s, frags, x : Delivers(m, n, s, frags, x)
    BY DeliverDoes
  <1>2. D = {x}
    BY <1>1, PutTogether
  <1>3. /\ delivered' = delivered \cup {x} /\ held' = held \ Pieces(m)
        /\ UNCHANGED <<origin, out, conn, connUp, grpc, bodies>>
    BY <1>1, Zenon DEF Delivers
  <1>4. \A y \in held' : y.hdr.corr # m
    BY <1>3 DEF Pieces
  <1> DEFINE O == Keys(out, ByEnv(m))
             G == Keys(grpc, ByMsg(m))
             C == Keys(conn, ByHdr(m))
             H == HeldKeys(held, m)
  <1>5. /\ OutOf(out, m, F) /\ GrpcOf(grpc, m, F) /\ ConnOf(conn, m, F) /\ DoneOf(delivered, m, D)
        /\ Uniq(out, ByEnv(m)) /\ Uniq(grpc, ByMsg(m)) /\ Uniq(conn, ByHdr(m))
        /\ Apart(O, G, C, H)
    BY Zenon DEF Flow
  <1>6. HeldKeys(held', m) = {} /\ HeldUniq(held', m) /\ HeldOf(held', heap', m, F)
    BY <1>4 DEF HeldKeys, HeldUniq, HeldOf
  <1>7. DoneOf(delivered', m, D) /\ D \subseteq delivered'
    BY <1>2, <1>3, <1>5 DEF DoneOf
  <1> HIDE DEF O, G, C, H
  <1>8. Covers(connUp', delivered', D, F, O \cup G \cup C \cup {})
    BY <1>7 DEF Covers
  <1>9. Apart(O, G, C, {})
    BY <1>5 DEF Apart
  <1> QED
    BY <1>3, <1>5, <1>6, <1>7, <1>8, <1>9, FlowNext, Zenon DEF O, G, C, H

-----------------------------------------------------------------------------
(* Sending.                                                                *)

LEMMA OutConcat ==
    ASSUME NEW q \in Seq(Env), NEW r \in Seq(Env), NEW m, NEW F, OutOf(q, m, F), OutOf(r, m, F)
    PROVE  OutOf(q \o r, m, F)
  <1>1. PICK l, k, z : l \in Nat /\ k \in Nat /\ l = Len(q) /\ k = Len(r) /\ z = q \o r
    BY LenProperties
  <1>2. Len(z) = l + k /\ \A i \in 1..(l + k) : z[i] = IF i <= l THEN q[i] ELSE r[i - l]
    BY <1>1, ConcatProperties
  <1>3. SUFFICES ASSUME NEW i \in 1..(l + k), z[i].hdr.corr = m PROVE \E j \in 1..Len(F) : z[i] = F[j]
    BY <1>1, <1>2, Zenon DEF OutOf
  <1>4. CASE i <= l
    <2>1. i \in 1..l /\ z[i] = q[i]
      BY <1>2, <1>4
    <2> QED
      BY <1>1, <1>3, <2>1, Zenon DEF OutOf
  <1>5. CASE ~(i <= l)
    <2>1. i - l \in 1..k /\ z[i] = r[i - l]
      BY <1>1, <1>2, <1>5
    <2> QED
      BY <1>1, <1>3, <2>1, Zenon DEF OutOf
  <1> QED
    BY <1>4, <1>5

\* The keys of the fragments of v.
LEMMA FragmentKeys ==
    ASSUME NEW v, NEW R \in Seq(Env), \A k \in 1..Len(R) : R[k] \in Env /\ R[k].hdr.corr = v, NEW m
    PROVE  m # v => Keys(R, ByEnv(m)) = {} /\ Uniq(R, ByEnv(m)) /\ \A F : OutOf(R, m, F)
  <1>1. SUFFICES ASSUME m # v
                 PROVE Keys(R, ByEnv(m)) = {} /\ Uniq(R, ByEnv(m)) /\ \A F : OutOf(R, m, F)
    OBVIOUS
  <1>2. \A k \in 1..Len(R) : R[k] \notin DOMAIN ByEnv(m)
    BY <1>1 DEF ByEnv
  <1>3. Keys(R, ByEnv(m)) = {}
    BY <1>2, KeyMember
  <1>4. Uniq(R, ByEnv(m))
    BY <1>2 DEF Uniq
  <1>5. \A F : OutOf(R, m, F)
    BY <1>1 DEF OutOf
  <1> QED
    BY <1>3, <1>4, <1>5

\* What NewEnvelope does.
LEMMA NewDoes ==
    ASSUME NEW v \in Msgs, NewEnvelope(v)
    PROVE  \E s \in Sizes, c \in Chunks :
              /\ origin[v] = NotSent
              /\ origin' = [origin EXCEPT ![v] = [size |-> s, chunk |-> c, env |-> NewEnv(v, s)]]
              /\ out' = out \o Fragments(NewEnv(v, s), c)
              /\ UNCHANGED <<conn, connUp, grpc, bodies, heap, held, delivered>>
  BY Zenon DEF NewEnvelope, NewEnv

LEMMA FlowNewOther ==
    ASSUME ETypeOK, NEW v \in Msgs, NewEnvelope(v), NEW m, m # v, NEW D, NEW F, Flow(m, D, F)
    PROVE  Flow(m, D, F)'
  <1>1. PICK s \in Sizes, c \in Chunks :
           /\ out' = out \o Fragments(NewEnv(v, s), c)
           /\ UNCHANGED <<conn, connUp, grpc, bodies, heap, held, delivered>>
    BY NewDoes
  <1>2. PICK R : R = Fragments(NewEnv(v, s), c)
    OBVIOUS
  <1>3. R \in Seq(Env) /\ \A k \in 1..Len(R) : R[k] \in Env /\ R[k].hdr.corr = v
    <2>1. s \in Nat /\ c \in Nat \ {0}
      BY Widths
    <2>2. FragmentsOf(R, v)
      BY <1>2, <2>1, FragmentFacts
    <2> QED
      BY <2>2, Zenon DEF FragmentsOf
  <1>4. out \in Seq(Env) /\ out' = out \o R
    BY <1>1, <1>2, TypeParts
  <1>5. Keys(R, ByEnv(m)) = {} /\ Uniq(R, ByEnv(m)) /\ OutOf(R, m, F)
    BY <1>3, FragmentKeys
  <1>6. OutOf(out, m, F) /\ Uniq(out, ByEnv(m))
    BY Zenon DEF Flow
  <1>7. OutOf(out', m, F)
    BY <1>3, <1>4, <1>5, <1>6, OutConcat
  <1>8. Keys(out', ByEnv(m)) = Keys(out, ByEnv(m)) /\ Uniq(out', ByEnv(m))
    <2>1. /\ Keys(out \o R, ByEnv(m)) = Keys(out, ByEnv(m)) \cup Keys(R, ByEnv(m))
          /\ Uniq(out, ByEnv(m)) /\ Uniq(R, ByEnv(m)) /\ Keys(out, ByEnv(m)) \cap Keys(R, ByEnv(m)) = {}
               => Uniq(out \o R, ByEnv(m))
      BY <1>3, <1>4, KeysConcat
    <2>2. \A X : X \cup {} = X /\ X \cap {} = {}
      OBVIOUS
    <2> QED
      BY <1>4, <1>5, <1>6, <2>1, <2>2, Zenon
  <1> QED
    BY <1>1, <1>7, <1>8, FlowNext, Zenon DEF Flow

\* Nothing of a message is anywhere before it is sent.
LEMMA Absent ==
    ASSUME ETypeOK, NEW m, Flow(m, {}, <<>>)
    PROVE  /\ \A F : OutOf(out, m, F) /\ GrpcOf(grpc, m, F) /\ ConnOf(conn, m, F) /\ HeldOf(held, heap, m, F)
           /\ \A D : DoneOf(delivered, m, D)
           /\ Keys(out, ByEnv(m)) = {} /\ Keys(grpc, ByMsg(m)) = {} /\ Keys(conn, ByHdr(m)) = {}
           /\ HeldKeys(held, m) = {}
  <1>1. ~(\E k \in 1..Len(<<>>) : TRUE)
    <2>1. Len(<<>>) = 0
      OBVIOUS
    <2> QED
      BY <2>1
  <1>2. /\ OutOf(out, m, <<>>) /\ GrpcOf(grpc, m, <<>>) /\ ConnOf(conn, m, <<>>)
        /\ HeldOf(held, heap, m, <<>>) /\ DoneOf(delivered, m, {})
    BY Zenon DEF Flow
  <1>3. \A i \in 1..Len(out) : out[i].hdr.corr # m
    BY <1>1, <1>2, Zenon DEF OutOf
  <1>4. \A i \in 1..Len(grpc) : grpc[i].corr # m
    BY <1>1, <1>2, Zenon DEF GrpcOf
  <1>5. \A i \in 1..Len(conn) : ~(conn[i] \in HdrItem /\ conn[i].hdr.corr = m)
    BY <1>1, <1>2, Zenon DEF ConnOf
  <1>6. \A x \in held : x.hdr.corr # m
    BY <1>1, <1>2, Zenon DEF HeldOf
  <1>7. \A d \in delivered : d.hdr.corr # m
    BY <1>2 DEF DoneOf
  <1>8. Keys(out, ByEnv(m)) = {}
    <2>1. \A i \in 1..Len(out) : out[i] \notin DOMAIN ByEnv(m)
      BY <1>3 DEF ByEnv
    <2> QED
      BY <2>1, KeyMember
  <1>9. Keys(grpc, ByMsg(m)) = {}
    <2>1. \A i \in 1..Len(grpc) : grpc[i] \notin DOMAIN ByMsg(m)
      BY <1>4 DEF ByMsg
    <2> QED
      BY <2>1, KeyMember
  <1>10. Keys(conn, ByHdr(m)) = {}
    <2>1. \A i \in 1..Len(conn) : conn[i] \notin DOMAIN ByHdr(m)
      BY <1>5, ByHdrDomain
    <2> QED
      BY <2>1, KeyMember
  <1>11. HeldKeys(held, m) = {}
    BY <1>6 DEF HeldKeys
  <1>12. \A F : OutOf(out, m, F) /\ GrpcOf(grpc, m, F) /\ ConnOf(conn, m, F) /\ HeldOf(held, heap, m, F)
    BY <1>3, <1>4, <1>5, <1>6, Zenon DEF OutOf, GrpcOf, ConnOf, HeldOf
  <1>13. \A D : DoneOf(delivered, m, D)
    BY <1>7, Zenon DEF DoneOf
  <1> QED
    BY <1>8, <1>9, <1>10, <1>11, <1>12, <1>13

LEMMA FlowNewOwn ==
    ASSUME ETypeOK, NEW m, Flow(m, {}, <<>>), NEW D, NEW F, Planned(m, D, F),
           out' = out \o F, UNCHANGED <<conn, connUp, grpc, bodies, heap, held, delivered>>
    PROVE  Flow(m, D, F)'
  <1>1. /\ F \in Seq(Env) /\ Len(F) \in Nat
        /\ \A k \in 1..Len(F) : F[k] \in Env /\ F[k].hdr.corr = m /\ F[k].hdr.index = k - 1
    <2>1. \A k \in 1..Len(F) : F[k].hdr.corr = m
      BY Zenon DEF Planned
    <2> QED
      BY <2>1, PlannedLens
  <1>2. /\ OutOf(out, m, F) /\ GrpcOf(grpc, m, F) /\ ConnOf(conn, m, F) /\ HeldOf(held, heap, m, F)
        /\ DoneOf(delivered, m, D)
        /\ Keys(out, ByEnv(m)) = {} /\ Keys(grpc, ByMsg(m)) = {} /\ Keys(conn, ByHdr(m)) = {}
        /\ HeldKeys(held, m) = {}
    BY Absent
  <1>3. Uniq(out, ByEnv(m)) /\ Uniq(grpc, ByMsg(m)) /\ Uniq(conn, ByHdr(m)) /\ HeldUniq(held, m)
    BY Zenon DEF Flow
  <1>4. out \in Seq(Env)
    BY TypeParts
  <1>5. \A k \in 1..Len(F) : F[k] \in DOMAIN ByEnv(m) /\ ByEnv(m)[F[k]] = k - 1
    BY <1>1 DEF ByEnv
  <1>6. Uniq(F, ByEnv(m))
    <2>1. \A i, j \in 1..Len(F) : i - 1 = j - 1 => i = j
      BY <1>1
    <2> QED
      BY <1>5, <2>1, Zenon DEF Uniq
  <1>7. OutOf(F, m, F)
    BY Zenon DEF OutOf
  <1>8. \A k \in 1..Len(F) : k - 1 \in Keys(F, ByEnv(m))
    BY <1>5, KeyMember
  <1>9. OutOf(out', m, F)
    BY <1>1, <1>2, <1>4, <1>7, OutConcat
  <1>10. Keys(out', ByEnv(m)) = Keys(F, ByEnv(m)) /\ Uniq(out', ByEnv(m))
    <2>1. /\ Keys(out \o F, ByEnv(m)) = Keys(out, ByEnv(m)) \cup Keys(F, ByEnv(m))
          /\ Uniq(out, ByEnv(m)) /\ Uniq(F, ByEnv(m)) /\ Keys(out, ByEnv(m)) \cap Keys(F, ByEnv(m)) = {}
               => Uniq(out \o F, ByEnv(m))
      BY <1>1, <1>4, KeysConcat
    <2>2. \A X : {} \cup X = X /\ {} \cap X = {}
      OBVIOUS
    <2> QED
      BY <1>2, <1>3, <1>6, <2>1, <2>2, Zenon
  <1>11. PICK O : O = Keys(F, ByEnv(m))
    OBVIOUS
  <1>12. Apart(O, {}, {}, {})
    BY DEF Apart
  <1>13. Covers(connUp', delivered', D, F, O \cup {} \cup {} \cup {})
    BY <1>8, <1>11 DEF Covers
  <1> QED
    BY <1>2, <1>3, <1>9, <1>10, <1>11, <1>12, <1>13, FlowNext, Zenon

-----------------------------------------------------------------------------
(* The invariant.                                                          *)

\* Nothing of m is anywhere before it is sent; then, if it fits, its fragments are.
MInv(m) ==
    \/ origin[m] = NotSent /\ Flow(m, {}, <<>>)
    \/ \E s \in Sizes, c \in Chunks :
          /\ origin[m] = [size |-> s, chunk |-> c, env |-> NewEnv(m, s)]
          /\ FitsIn(s, c) => Flow(m, {NewEnv(m, s)}, Fragments(NewEnv(m, s), c))

EInv == ETypeOK /\ ConnShape /\ \A m \in Msgs : MInv(m)

LEMMA FlowInit == ASSUME EInit, NEW m PROVE Flow(m, {}, <<>>)
  <1>1. /\ out = <<>> /\ conn = <<>> /\ connUp = TRUE /\ grpc = <<>> /\ heap = <<>> /\ held = {} /\ delivered = {}
    BY DEF EInit
  <1>2. Len(<<>>) = 0
    OBVIOUS
  <1>3. OutOf(<<>>, m, <<>>) /\ GrpcOf(<<>>, m, <<>>) /\ ConnOf(<<>>, m, <<>>)
    BY <1>2 DEF OutOf, GrpcOf, ConnOf
  <1>4. HeldOf({}, heap, m, <<>>) /\ DoneOf({}, m, {}) /\ HeldUniq({}, m) /\ HeldKeys({}, m) = {}
    BY DEF HeldOf, DoneOf, HeldUniq, HeldKeys
  <1>5. \A f : Keys(<<>>, f) = {} /\ Uniq(<<>>, f)
    BY NoKeys
  <1>6. Apart({}, {}, {}, {})
    BY DEF Apart
  <1>7. Covers(connUp, {}, {}, <<>>, {} \cup {} \cup {} \cup {})
    BY DEF Covers
  <1> QED
    BY <1>1, <1>3, <1>4, <1>5, <1>6, <1>7, Zenon DEF Flow

LEMMA FlowStep ==
    ASSUME ETypeOK, ConnShape, [ENext]_evars, NEW m \in Msgs, ~NewEnvelope(m),
           NEW D, NEW F, Planned(m, D, F), Flow(m, D, F)
    PROVE  Flow(m, D, F)'
  <1>1. ASSUME NEW v \in Msgs, NewEnvelope(v) PROVE Flow(m, D, F)'
    <2>1. v # m
      BY <1>1
    <2> QED
      BY <1>1, <2>1, FlowNewOther
  <1>2. CASE ConnSend
    BY <1>2, FlowConnSend
  <1>3. CASE StreamSend
    BY <1>3, FlowStreamSend
  <1>4. CASE ConnRecv
    BY <1>4, FlowConnRecv
  <1>5. CASE ConnRecvFails
    BY <1>5, FlowConnRecvFails
  <1>6. CASE StreamRecv
    BY <1>6, FlowStreamRecv
  <1>7. ASSUME NEW b \in BodyKinds, PeerSend(b) PROVE Flow(m, D, F)'
    BY <1>7, FlowPeerSend
  <1>8. ASSUME NEW v \in Msgs \cup BodyKinds, Deliver(v) PROVE Flow(m, D, F)'
    <2>1. CASE v = m
      BY <1>8, <2>1, FlowDeliverOwn
    <2>2. CASE v # m
      BY <1>8, <2>2, FlowDeliverOther
    <2> QED
      BY <2>1, <2>2
  <1>9. CASE UNCHANGED evars
    BY <1>9, FlowNext, Zenon DEF evars, Flow
  <1> QED
    BY <1>1, <1>2, <1>3, <1>4, <1>5, <1>6, <1>7, <1>8, <1>9, Zenon DEF ENext

LEMMA OriginStep ==
    ASSUME ETypeOK, [ENext]_evars, NEW m \in Msgs, ~NewEnvelope(m)
    PROVE  origin'[m] = origin[m]
  <1>1. ASSUME NEW v \in Msgs, NewEnvelope(v) PROVE origin'[m] = origin[m]
    <2>1. v # m
      BY <1>1
    <2>2. \E o : origin' = [origin EXCEPT ![v] = o]
      BY <1>1, NewDoes
    <2>3. DOMAIN origin = Msgs
      BY TypeParts
    <2> QED
      BY <2>1, <2>2, <2>3
  <1>2. ASSUME NEW v, Deliver(v) PROVE origin' = origin
    BY <1>2 DEF Deliver
  <1>3. ASSUME NEW b \in BodyKinds, PeerSend(b) PROVE origin' = origin
    BY <1>3 DEF PeerSend
  <1>4. ConnSend \/ StreamSend \/ ConnRecv \/ ConnRecvFails \/ StreamRecv \/ UNCHANGED evars => origin' = origin
    BY DEF ConnSend, StreamSend, ConnRecv, ConnRecvFails, StreamRecv, evars
  <1> QED
    BY <1>1, <1>2, <1>3, <1>4, Zenon DEF ENext

LEMMA MsgStep ==
    ASSUME ETypeOK, ConnShape, [ENext]_evars, NEW m \in Msgs, MInv(m)
    PROVE  MInv(m)'
  <1>1. CASE NewEnvelope(m)
    <2>1. PICK s \in Sizes, c \in Chunks :
             /\ origin[m] = NotSent
             /\ origin' = [origin EXCEPT ![m] = [size |-> s, chunk |-> c, env |-> NewEnv(m, s)]]
             /\ out' = out \o Fragments(NewEnv(m, s), c)
             /\ UNCHANGED <<conn, connUp, grpc, bodies, heap, held, delivered>>
      BY <1>1, NewDoes
    <2>2. \A t, d, x : [size |-> t, chunk |-> d, env |-> x] # NotSent
      BY DEF NotSent
    <2>3. Flow(m, {}, <<>>)
      BY <2>1, <2>2, Zenon DEF MInv
    <2>4. origin'[m] = [size |-> s, chunk |-> c, env |-> NewEnv(m, s)]
      <3>1. DOMAIN origin = Msgs
        BY TypeParts
      <3> QED
        BY <2>1, <3>1
    <2>5. FitsIn(s, c) => Flow(m, {NewEnv(m, s)}, Fragments(NewEnv(m, s), c))'
      <3>1. s \in Nat /\ c \in Nat \ {0}
        BY Widths
      <3>2. FitsIn(s, c) => Planned(m, {NewEnv(m, s)}, Fragments(NewEnv(m, s), c))
        BY <3>1, SendingPlanned
      <3> QED
        BY <2>1, <2>3, <3>2, FlowNewOwn, Zenon
    <2> QED
      BY <2>4, <2>5, Zenon DEF MInv
  <1>2. CASE ~NewEnvelope(m)
    <2>1. origin'[m] = origin[m]
      BY <1>2, OriginStep
    <2>2. CASE origin[m] = NotSent /\ Flow(m, {}, <<>>)
      <3>1. Flow(m, {}, <<>>)'
        BY <1>2, <2>2, NothingPlanned, FlowStep
      <3> QED
        BY <2>1, <2>2, <3>1, Zenon DEF MInv
    <2>3. ASSUME NEW s \in Sizes, NEW c \in Chunks,
                 origin[m] = [size |-> s, chunk |-> c, env |-> NewEnv(m, s)],
                 FitsIn(s, c) => Flow(m, {NewEnv(m, s)}, Fragments(NewEnv(m, s), c))
          PROVE  MInv(m)'
      <3>1. s \in Nat /\ c \in Nat \ {0}
        BY Widths
      <3>2. FitsIn(s, c) => Planned(m, {NewEnv(m, s)}, Fragments(NewEnv(m, s), c))
        BY <3>1, SendingPlanned
      <3>3. FitsIn(s, c) => Flow(m, {NewEnv(m, s)}, Fragments(NewEnv(m, s), c))'
        BY <1>2, <2>3, <3>2, FlowStep, Zenon
      <3> QED
        BY <2>1, <2>3, <3>3, Zenon DEF MInv
    <2> QED
      BY <2>2, <2>3, Zenon DEF MInv
  <1> QED
    BY <1>1, <1>2

LEMMA InvInit == EInit => EInv
  <1> SUFFICES ASSUME EInit PROVE EInv
    OBVIOUS
  <1>1. \A m \in Msgs : Flow(m, {}, <<>>) /\ origin[m] = NotSent
    BY FlowInit DEF EInit
  <1> QED
    BY <1>1, TypeInit, Zenon DEF EInv, MInv

LEMMA InvStep == EInv /\ [ENext]_evars => EInv'
  <1> SUFFICES ASSUME EInv, [ENext]_evars PROVE EInv'
    OBVIOUS
  <1>1. ETypeOK' /\ ConnShape'
    BY TypeStep, ShapeStep DEF EInv
  <1>2. \A m \in Msgs : MInv(m)'
    BY MsgStep DEF EInv
  <1> QED
    BY <1>1, <1>2, Zenon DEF EInv

-----------------------------------------------------------------------------
(* What the invariant says of the properties.                              *)

\* The fragments of a message, all held and each once, can be put together.
LEMMA AllHeld ==
    ASSUME ETypeOK, NEW m, NEW D, NEW F, Planned(m, D, F), Len(F) > 0,
           HeldOf(held, heap, m, F), HeldUniq(held, m), \A k \in 1..Len(F) : k - 1 \in HeldKeys(held, m)
    PROVE  Complete(Pieces(m))
  <1>1. PICK n \in Nat : n = Len(F)
    BY PlannedLens
  <1>2. n > 0 /\ \A k \in 1..n : F[k] \in Env /\ F[k].hdr.index = k - 1
    BY <1>1, PlannedLens
  <1>3. PICK P : P = Pieces(m)
    OBVIOUS
  <1>4. IsFiniteSet(P)
    <2>1. P \in SUBSET held
      BY <1>3 DEF Pieces
    <2> QED
      BY <2>1, TypeParts, FS_Subset
  <1>5. \A x \in P : \E k \in 1..n : x.hdr = Kept(F[k])
    BY <1>1, <1>3 DEF HeldOf, Pieces
  <1>6. \A x \in P : x.hdr.index \in 0..(n - 1)
    <2>1. ASSUME NEW x \in P PROVE x.hdr.index \in 0..(n - 1)
      <3>1. PICK k \in 1..n : x.hdr = Kept(F[k])
        BY <1>5
      <3>2. x.hdr.index = k - 1
        BY <1>2, <3>1, KeptFacts
      <3> QED
        BY <3>2
    <2> QED
      BY <2>1
  <1>7. \A x, y \in P : x.hdr.index = y.hdr.index => x = y
    BY <1>3 DEF HeldUniq, Pieces
  <1>8. \A i \in 0..(n - 1) : \E x \in P : x.hdr.index = i
    <2>1. ASSUME NEW i \in 0..(n - 1) PROVE \E x \in P : x.hdr.index = i
      <3>1. i + 1 \in 1..n /\ (i + 1) - 1 = i
        OBVIOUS
      <3>2. i \in HeldKeys(held, m)
        BY <1>1, <3>1
      <3> QED
        BY <1>3, <3>2 DEF HeldKeys, Pieces
    <2> QED
      BY <2>1
  <1>9. Cardinality(P) = n
    <2> DEFINE f == [x \in P |-> x.hdr.index]
    <2>1. f \in [P -> 0..(n - 1)] /\ \A x \in P : f[x] = x.hdr.index
      BY <1>6
    <2> HIDE DEF f
    <2>2. f \in Bijection(P, 0..(n - 1))
      <3>1. \A x, y \in P : f[x] = f[y] => x = y
        BY <1>7, <2>1
      <3>2. \A i \in 0..(n - 1) : \E x \in P : f[x] = i
        BY <1>8, <2>1
      <3> QED
        BY <2>1, <3>1, <3>2, Zenon DEF Bijection, Injection, Surjection, IsInjective
    <2>3. ExistsBijection(P, 0..(n - 1))
      BY <2>2, Zenon DEF ExistsBijection
    <2>4. Cardinality(0..(n - 1)) = Cardinality(P)
      BY <1>4, <2>3, FS_Bijection
    <2>5. Cardinality(0..(n - 1)) = n
      BY <1>2, FS_Interval
    <2> QED
      BY <2>4, <2>5
  <1>10. P # {}
    BY <1>2, <1>8
  <1>11. ASSUME NEW x \in P, IsFragment(x) PROVE Cardinality(P) = x.hdr.total
    <2>1. PICK k \in 1..n : x.hdr = Kept(F[k])
      BY <1>5
    <2>2. "fragment" \in F[k].hdr.flags /\ x.hdr.total = F[k].hdr.total
      BY <1>2, <1>11, <2>1, KeptFacts DEF IsFragment
    <2>3. n # 1
      BY <1>1, <2>2 DEF Planned
    <2>4. F[k].hdr.total = n
      BY <1>1, <1>2, <2>3 DEF Planned
    <2> QED
      BY <1>9, <2>2, <2>4
  <1> QED
    BY <1>3, <1>10, <1>11 DEF Complete

\* A message that was sent and fits.
LEMMA SentFits ==
    ASSUME NEW m \in Msgs, MInv(m), Fits(m), origin[m] # NotSent
    PROVE  \E s \in Sizes, c \in Chunks :
              /\ origin[m].env = NewEnv(m, s)
              /\ s \in Nat /\ c \in Nat \ {0} /\ FitsIn(s, c)
              /\ Flow(m, {NewEnv(m, s)}, Fragments(NewEnv(m, s), c))
  <1>1. PICK s \in Sizes, c \in Chunks :
           /\ origin[m] = [size |-> s, chunk |-> c, env |-> NewEnv(m, s)]
           /\ FitsIn(s, c) => Flow(m, {NewEnv(m, s)}, Fragments(NewEnv(m, s), c))
    BY DEF MInv
  <1>2. origin[m].size = s /\ origin[m].chunk = c /\ origin[m].env = NewEnv(m, s)
    BY <1>1
  <1>3. FitsIn(s, c)
    BY <1>2, Zenon DEF Fits, FitsIn
  <1> QED
    BY <1>1, <1>2, <1>3, Widths

LEMMA InvIntact == EInv => MessagesIntact
  <1> SUFFICES ASSUME EInv, NEW d \in delivered, d.hdr.corr \in Msgs, Fits(d.hdr.corr)
               PROVE  d = origin[d.hdr.corr].env
    BY DEF MessagesIntact
  <1>1. PICK m \in Msgs : m = d.hdr.corr
    OBVIOUS
  <1>2. ETypeOK /\ MInv(m) /\ Fits(m)
    BY <1>1 DEF EInv
  <1>3. CASE origin[m] = NotSent
    <2>1. \A t, k, x : [size |-> t, chunk |-> k, env |-> x] # NotSent
      BY DEF NotSent
    <2>2. Flow(m, {}, <<>>)
      BY <1>2, <1>3, <2>1, Zenon DEF MInv
    <2>3. DoneOf(delivered, m, {})
      BY <2>2, Zenon DEF Flow
    <2> QED
      BY <1>1, <2>3 DEF DoneOf
  <1>4. CASE origin[m] # NotSent
    <2>1. PICK s \in Sizes, c \in Chunks :
             origin[m].env = NewEnv(m, s) /\ Flow(m, {NewEnv(m, s)}, Fragments(NewEnv(m, s), c))
      BY <1>2, <1>4, SentFits
    <2>2. DoneOf(delivered, m, {NewEnv(m, s)})
      BY <2>1, Zenon DEF Flow
    <2> QED
      BY <1>1, <2>1, <2>2 DEF DoneOf
  <1> QED
    BY <1>3, <1>4

LEMMA InvDelivered == EInv => AllDelivered
  <1> SUFFICES ASSUME EInv, out = <<>>, conn = <<>>, grpc = <<>>, connUp, \A m \in Msgs : ~Complete(Pieces(m)),
                      NEW m \in Msgs, origin[m] # NotSent, Fits(m)
               PROVE  origin[m].env \in delivered
    BY DEF AllDelivered
  <1>1. ETypeOK /\ MInv(m)
    BY DEF EInv
  <1>2. PICK s \in Sizes, c \in Chunks :
           /\ origin[m].env = NewEnv(m, s)
           /\ s \in Nat /\ c \in Nat \ {0} /\ FitsIn(s, c)
           /\ Flow(m, {NewEnv(m, s)}, Fragments(NewEnv(m, s), c))
    BY <1>1, SentFits
  <1>3. PICK D, F : D = {NewEnv(m, s)} /\ F = Fragments(NewEnv(m, s), c)
    OBVIOUS
  <1>4. Planned(m, D, F) /\ Flow(m, D, F)
    BY <1>2, <1>3, SendingPlanned
  <1>5. Len(F) > 0
    <2>1. FragmentsOf(F, m)
      BY <1>2, <1>3, FragmentFacts
    <2>2. Len(F) \in Nat \ {0}
      BY <2>1, Zenon DEF FragmentsOf
    <2> QED
      BY <2>2
  <1>6. \A f : Keys(<<>>, f) = {}
    BY NoKeys
  <1>7. HeldOf(held, heap, m, F) /\ HeldUniq(held, m)
    BY <1>4, Zenon DEF Flow
  <1>8. Covers(connUp, delivered, D, F, {} \cup {} \cup {} \cup HeldKeys(held, m))
    BY <1>4, <1>6, Zenon DEF Flow
  <1>9. {} \cup {} \cup {} \cup HeldKeys(held, m) = HeldKeys(held, m)
    OBVIOUS
  <1>10. D \subseteq delivered \/ \A k \in 1..Len(F) : k - 1 \in HeldKeys(held, m)
    BY <1>8, <1>9, Zenon DEF Covers
  <1>11. D \subseteq delivered
    BY <1>1, <1>4, <1>5, <1>7, <1>10, AllHeld
  <1> QED
    BY <1>2, <1>3, <1>11

\* The buffers, the bytes between two Conns and what is held keep their types for
\* any number of messages and fragments.
THEOREM EnvelopeType == ESpec => []ETypeOK
  <1>1. EInit => ETypeOK /\ ConnShape
    BY TypeInit
  <1>2. ETypeOK /\ ConnShape /\ [ENext]_evars => (ETypeOK /\ ConnShape)'
    BY TypeStep, ShapeStep
  <1> QED
    BY <1>1, <1>2, PTL DEF ESpec

\* Fragments, whatever ways they take, are put together as the envelope they come
\* from: for any messages, sizes and chunk sizes whose fragments fit the header.
THEOREM MessagesHold == ESpec => []MessagesIntact
  <1>1. EInit => EInv
    BY InvInit
  <1>2. EInv /\ [ENext]_evars => EInv'
    BY InvStep
  <1>3. EInv => MessagesIntact
    BY InvIntact
  <1> QED
    BY <1>1, <1>2, <1>3, PTL DEF ESpec

\* When nothing is under way any more, nothing is lost, unless the connection failed.
THEOREM DeliveredHold == ESpec => []AllDelivered
  <1>1. EInit => EInv
    BY InvInit
  <1>2. EInv /\ [ENext]_evars => EInv'
    BY InvStep
  <1>3. EInv => AllDelivered
    BY InvDelivered
  <1> QED
    BY <1>1, <1>2, <1>3, PTL DEF ESpec
=============================================================================
