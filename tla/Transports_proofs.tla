------------------------- MODULE Transports_proofs --------------------------
(***************************************************************************)
(* Proofs about the transports: UDP sessions, links and streams (of        *)
(* MCTransports) for any addresses and lengths of channels, and then the   *)
(* frames of a stream (Frames), for any writers, sizes and buffers.        *)
(***************************************************************************)
EXTENDS MCTransports, Frames, SequenceTheorems, FiniteSetTheorems, NaturalsInduction, WellFoundedInduction, TLAPS

-----------------------------------------------------------------------------
(* Sequences.                                                              *)

\* Taking the head of t to the end of s moves the boundary between the two;
\* appending to t extends the whole.
LEMMA MoveHead ==
    ASSUME NEW S, NEW s \in Seq(S), NEW t \in Seq(S), t # <<>>
    PROVE  Append(s, Head(t)) \o Tail(t) = s \o t
  <1>1. Head(t) \in S /\ Tail(t) \in Seq(S) /\ <<Head(t)>> \in Seq(S)
    BY HeadTailProperties
  <1>2. t = <<Head(t)>> \o Tail(t)
    OBVIOUS
  <1>3. Append(s, Head(t)) = s \o <<Head(t)>>
    BY <1>1, AppendIsConcat
  <1>4. (s \o <<Head(t)>>) \o Tail(t) = s \o (<<Head(t)>> \o Tail(t))
    BY <1>1, ConcatAssociative
  <1> QED
    BY <1>2, <1>3, <1>4

LEMMA ExtendTail ==
    ASSUME NEW S, NEW s \in Seq(S), NEW t \in Seq(S), NEW x \in S
    PROVE  s \o Append(t, x) = Append(s \o t, x)
  <1>1. <<x>> \in Seq(S)
    OBVIOUS
  <1>2. Append(t, x) = t \o <<x>> /\ Append(s \o t, x) = (s \o t) \o <<x>>
    BY AppendIsConcat, ConcatProperties
  <1> QED
    BY <1>1, <1>2, ConcatAssociative

LEMMA AppendFacts ==
    ASSUME NEW S, NEW s \in Seq(S), NEW x \in S
    PROVE  /\ Append(s, x) \in Seq(S)
           /\ Len(s) \in Nat /\ Len(Append(s, x)) = Len(s) + 1
           /\ DOMAIN s = 1..Len(s) /\ DOMAIN Append(s, x) = 1..(Len(s) + 1)
           /\ \A i \in 1..Len(s) : Append(s, x)[i] = s[i]
           /\ Append(s, x)[Len(s) + 1] = x
  OBVIOUS

\* A new element leaves a sequence without repetitions.
LEMMA AppendNew ==
    ASSUME NEW S, NEW s \in Seq(S), NEW x \in S, IsInjective(s), x \notin ToSet(s)
    PROVE  IsInjective(Append(s, x))
  <1>1. /\ DOMAIN s = 1..Len(s) /\ Len(s) \in Nat /\ DOMAIN Append(s, x) = 1..(Len(s) + 1)
        /\ \A i \in 1..Len(s) : Append(s, x)[i] = s[i]
        /\ Append(s, x)[Len(s) + 1] = x
    OBVIOUS
  <1> QED
    BY <1>1 DEF IsInjective, ToSet

LEMMA AppendSet ==
    ASSUME NEW S, NEW s \in Seq(S), NEW x \in S
    PROVE  ToSet(Append(s, x)) \subseteq ToSet(s) \cup {x}
  BY AppendFacts DEF ToSet

LEMMA PutType ==
    ASSUME NEW S, NEW ch \in Seq(S), NEW x \in S, NEW cap \in Nat, Len(ch) <= cap
    PROVE  /\ Put(ch, x, cap) \in Seq(S)
           /\ Len(Put(ch, x, cap)) <= cap
  BY DEF Put

-----------------------------------------------------------------------------
(* What was returned and what is queued, as one line, against what         *)
(* arrived: a thinned copy, the same up to the length of the channel.      *)

IsKept(l, a, cap) ==
    /\ IsThinned(l, a)
    /\ Len(l) <= Len(a)
    /\ \A i \in 1..Len(a) : i <= cap => i <= Len(l) /\ l[i] = a[i]

LEMMA EmptyKept == ASSUME NEW cap \in Nat PROVE IsKept(<<>>, <<>>, cap)
  <1>1. DOMAIN <<>> = {} /\ Len(<<>>) = 0
    OBVIOUS
  <1>2. [i \in {} |-> i] \in [{} -> {}]
    OBVIOUS
  <1>3. IsThinned(<<>>, <<>>)
    BY <1>1, <1>2 DEF IsThinned
  <1> QED
    BY <1>1, <1>3 DEF IsKept

\* A thinned copy stays one when both grow by the same datagram, and when only
\* the original grows.
LEMMA ThinnedKeeps ==
    ASSUME NEW s \in Seq(Nat), NEW t \in Seq(Nat), NEW n \in Nat, IsThinned(s, t)
    PROVE  IsThinned(Append(s, n), Append(t, n)) /\ IsThinned(s, Append(t, n))
  <1>1. PICK at \in [DOMAIN s -> DOMAIN t] :
           \A i, j \in DOMAIN s : s[i] = t[at[i]] /\ (i < j => at[i] < at[j])
    BY DEF IsThinned
  <1>2. /\ DOMAIN s = 1..Len(s) /\ DOMAIN t = 1..Len(t) /\ Len(s) \in Nat /\ Len(t) \in Nat
        /\ DOMAIN Append(s, n) = 1..(Len(s) + 1) /\ DOMAIN Append(t, n) = 1..(Len(t) + 1)
        /\ \A i \in 1..Len(s) : Append(s, n)[i] = s[i]
        /\ \A i \in 1..Len(t) : Append(t, n)[i] = t[i]
        /\ Append(s, n)[Len(s) + 1] = n /\ Append(t, n)[Len(t) + 1] = n
    OBVIOUS
  <1>3. \A i \in 1..Len(s) : at[i] \in 1..Len(t)
    BY <1>2
  <1>4. IsThinned(s, Append(t, n))
    <2>1. at \in [DOMAIN s -> DOMAIN Append(t, n)]
      BY <1>2, <1>3
    <2>2. \A i, j \in DOMAIN s : s[i] = Append(t, n)[at[i]] /\ (i < j => at[i] < at[j])
      BY <1>1, <1>2, <1>3
    <2> QED
      BY <2>1, <2>2 DEF IsThinned
  <1>5. IsThinned(Append(s, n), Append(t, n))
    <2> DEFINE up == [i \in 1..(Len(s) + 1) |-> IF i <= Len(s) THEN at[i] ELSE Len(t) + 1]
    <2>1. up \in [DOMAIN Append(s, n) -> DOMAIN Append(t, n)]
      BY <1>2, <1>3
    <2>2. \A i \in 1..Len(s) : up[i] = at[i]
      BY <1>2
    <2>3. up[Len(s) + 1] = Len(t) + 1
      BY <1>2
    <2> HIDE DEF up
    <2>4. ASSUME NEW i \in 1..(Len(s) + 1), NEW j \in 1..(Len(s) + 1)
          PROVE  Append(s, n)[i] = Append(t, n)[up[i]] /\ (i < j => up[i] < up[j])
      <3>1. CASE i \in 1..Len(s)
        <4>1. up[i] \in 1..Len(t) /\ Append(s, n)[i] = Append(t, n)[up[i]]
          BY <1>1, <1>2, <1>3, <2>2, <3>1
        <4>2. CASE j \in 1..Len(s)
          BY <1>1, <1>2, <2>2, <3>1, <4>1, <4>2
        <4>3. CASE j = Len(s) + 1
          <5>1. Len(t) \in Nat
            BY <1>2
          <5>2. up[i] < up[j]
            BY <2>3, <4>1, <4>3, <5>1
          <5> QED
            BY <4>1, <5>2
        <4>4. j \in 1..Len(s) \/ j = Len(s) + 1
          OBVIOUS
        <4> QED
          BY <4>2, <4>3, <4>4
      <3>2. CASE i = Len(s) + 1
        <4>1. Len(s) \in Nat
          BY <1>2
        <4>2. ~(i < j)
          BY <3>2, <4>1
        <4> QED
          BY <1>2, <2>3, <3>2, <4>2
      <3>3. i \in 1..Len(s) \/ i = Len(s) + 1
        OBVIOUS
      <3> QED
        BY <3>1, <3>2, <3>3
    <2> QED
      BY <1>2, <2>1, <2>4 DEF IsThinned
  <1> QED
    BY <1>4, <1>5

\* A datagram that arrives is queued at the end, or finds the channel full, so
\* that the line has at least the channel's length already.
LEMMA PutKept ==
    ASSUME NEW cap \in Nat, NEW g \in Seq(Nat), NEW x \in Seq(Nat), NEW a \in Seq(Nat),
           NEW n \in Nat, Len(x) <= cap, IsKept(g \o x, a, cap)
    PROVE  IsKept(g \o Put(x, n, cap), Append(a, n), cap)
  <1> DEFINE l == g \o x
             b == Append(a, n)
  <1>1. l \in Seq(Nat) /\ Len(l) = Len(g) + Len(x)
        /\ Len(a) \in Nat /\ Len(g) \in Nat /\ Len(x) \in Nat /\ Len(l) \in Nat
    OBVIOUS
  <1>2. /\ Len(b) = Len(a) + 1
        /\ \A i \in 1..Len(a) : b[i] = a[i]
        /\ b[Len(a) + 1] = n
    BY AppendFacts
  <1>3. IsThinned(l, a) /\ Len(l) <= Len(a)
        /\ \A i \in 1..Len(a) : i <= cap => i <= Len(l) /\ l[i] = a[i]
    BY DEF IsKept
  <1>4. CASE Len(x) < cap
    <2> DEFINE m == Append(l, n)
    <2>1. g \o Put(x, n, cap) = m
      BY <1>4, ExtendTail DEF Put
    <2>2. /\ Len(m) = Len(l) + 1
          /\ \A i \in 1..Len(l) : m[i] = l[i]
          /\ m[Len(l) + 1] = n
      BY <1>1, AppendFacts
    <2>3. IsThinned(m, b)
      BY <1>1, <1>3, ThinnedKeeps
    <2> HIDE DEF m, l, b
    <2>4. Len(m) <= Len(b)
      BY <1>1, <1>2, <1>3, <2>2
    <2>5. ASSUME NEW i \in 1..Len(b), i <= cap
          PROVE  i <= Len(m) /\ m[i] = b[i]
      <3>1. CASE i <= Len(a)
        BY <1>1, <1>2, <1>3, <2>2, <2>5, <3>1
      <3>2. CASE i = Len(a) + 1
        <4>1. Len(l) = Len(a)
          <5>1. Len(a) # 0 => Len(a) <= Len(l)
            <6>1. Len(a) # 0 => Len(a) \in 1..Len(a) /\ Len(a) <= cap
              BY <1>1, <2>5, <3>2
            <6> QED
              BY <1>3, <6>1
          <5> QED
            BY <1>1, <1>3, <5>1
        <4>2. m[i] = n /\ b[i] = n
          BY <1>2, <2>2, <3>2, <4>1
        <4>3. i <= Len(m)
          BY <1>1, <2>2, <3>2, <4>1
        <4> QED
          BY <4>2, <4>3
      <3> QED
        BY <1>1, <1>2, <3>1, <3>2
    <2> QED
      BY <2>1, <2>3, <2>4, <2>5 DEF IsKept, b
  <1>5. CASE ~(Len(x) < cap)
    <2>1. g \o Put(x, n, cap) = l
      BY <1>5 DEF Put
    <2>2. IsThinned(l, b)
      BY <1>1, <1>3, ThinnedKeeps
    <2> HIDE DEF l, b
    <2>3. cap <= Len(l) /\ cap <= Len(a)
      BY <1>1, <1>3, <1>5
    <2>4. Len(l) <= Len(b)
      BY <1>1, <1>2, <1>3
    <2>5. ASSUME NEW i \in 1..Len(b), i <= cap
          PROVE  i <= Len(l) /\ l[i] = b[i]
      <3>1. i \in 1..Len(a)
        BY <1>1, <1>2, <2>3, <2>5
      <3> QED
        BY <1>2, <1>3, <2>5, <3>1
    <2> QED
      BY <2>1, <2>2, <2>4, <2>5 DEF IsKept, b
  <1> QED
    BY <1>4, <1>5

-----------------------------------------------------------------------------
(* One receiving side.                                                     *)

ReceiverOK(r, cap) ==
    /\ r \in Receiver /\ Len(r.rx) <= cap
    /\ IsKept(r.got \o r.rx, r.arrived, cap)

LEMMA FreshOK == ASSUME NEW cap \in Nat PROVE ReceiverOK(Fresh, cap)
  <1>1. Fresh \in Receiver /\ Fresh.rx = <<>> /\ Fresh.got = <<>> /\ Fresh.arrived = <<>>
    BY DEF Fresh, Receiver
  <1>2. <<>> \o <<>> = <<>> /\ Len(<<>>) = 0
    OBVIOUS
  <1> QED
    BY <1>1, <1>2, EmptyKept DEF ReceiverOK

\* RecvBytes moves the boundary between what was returned and what is queued.
LEMMA ReceivedOK ==
    ASSUME NEW cap \in Nat, NEW r, ReceiverOK(r, cap), r.rx # <<>>
    PROVE  ReceiverOK(Received(r), cap)
  <1> DEFINE q == Received(r)
  <1>1. r.got \in Seq(Nat) /\ r.rx \in Seq(Nat) /\ r.arrived \in Seq(Nat)
    BY DEF ReceiverOK, Receiver
  <1>2. /\ q \in Receiver
        /\ q.rx = Tail(r.rx) /\ q.got = Append(r.got, Head(r.rx)) /\ q.arrived = r.arrived
    <2>1. r \in Receiver
      BY DEF ReceiverOK
    <2>2. Head(r.rx) \in Nat /\ Tail(r.rx) \in Seq(Nat)
      BY <1>1, HeadTailProperties
    <2>3. Append(r.got, Head(r.rx)) \in Seq(Nat)
      BY <1>1, <2>2, AppendFacts
    <2> QED
      BY <2>1, <2>2, <2>3 DEF Receiver, Received
  <1>3. Len(q.rx) <= cap
    BY <1>1, <1>2 DEF ReceiverOK
  <1>4. q.got \o q.rx = r.got \o r.rx
    BY <1>1, <1>2, MoveHead
  <1> QED
    BY <1>2, <1>3, <1>4 DEF ReceiverOK

\* A datagram that is read is put into the channel.
LEMMA QueuedOK ==
    ASSUME NEW cap \in Nat, NEW r, ReceiverOK(r, cap), NEW n \in Nat
    PROVE  ReceiverOK(Queued(r, n, cap), cap)
  <1> DEFINE q == Queued(r, n, cap)
  <1>1. r.got \in Seq(Nat) /\ r.rx \in Seq(Nat) /\ r.arrived \in Seq(Nat)
    BY DEF ReceiverOK, Receiver
  <1>2. Len(r.rx) <= cap /\ IsKept(r.got \o r.rx, r.arrived, cap)
    BY DEF ReceiverOK
  <1>3. Put(r.rx, n, cap) \in Seq(Nat) /\ Len(Put(r.rx, n, cap)) <= cap
    BY <1>1, <1>2, PutType
  <1>4. /\ q \in Receiver
        /\ q.rx = Put(r.rx, n, cap) /\ q.got = r.got /\ q.arrived = Append(r.arrived, n)
    <2>1. r \in Receiver
      BY DEF ReceiverOK
    <2>2. Append(r.arrived, n) \in Seq(Nat)
      BY <1>1, AppendFacts
    <2> QED
      BY <1>3, <2>1, <2>2 DEF Receiver, Queued
  <1>5. IsKept(r.got \o Put(r.rx, n, cap), Append(r.arrived, n), cap)
    BY <1>1, <1>2, PutKept
  <1> QED
    BY <1>3, <1>4, <1>5 DEF ReceiverOK

-----------------------------------------------------------------------------
(* The listener, whatever the transport.                                   *)

\* The sessions that were handed out, and those that wait for Accept.
Handed == accepted \o newCh

\* Accepting moves a session from one part to the other; nothing else that all
\* listeners do touches them.
LEMMA ListenerStep ==
    ASSUME LsTypeOK,
           \/ AcceptFails \/ LoopFails \/ Cancel
           \/ \E c \in Closers : CloseLooks(c) \/ CloseCloseCh(c) \/ CloseConn(c)
           \/ \E a \in Addrs, taken \in BOOLEAN : Accept(a, taken)
    PROVE  LsTypeOK' /\ kind' = kind /\ Handed' = Handed
  <1>1. CASE AcceptFails \/ LoopFails \/ Cancel
    BY <1>1 DEF AcceptFails, LoopFails, Cancel, LsTypeOK, Handed
  <1>2. ASSUME NEW c \in Closers, CloseLooks(c) \/ CloseCloseCh(c) \/ CloseConn(c)
        PROVE  LsTypeOK' /\ kind' = kind /\ Handed' = Handed
    BY <1>2 DEF CloseLooks, CloseCloseCh, CloseConn, LsTypeOK, Handed
  <1>3. ASSUME NEW a \in Addrs, NEW taken \in BOOLEAN, Accept(a, taken)
        PROVE  LsTypeOK' /\ kind' = kind /\ Handed' = Handed
    <2>1. /\ newCh # <<>> /\ newCh' = Tail(newCh) /\ accepted' = Append(accepted, Head(newCh))
          /\ a = Head(newCh)
          /\ newCh \in Seq(Addrs) /\ accepted \in Seq(Addrs)
      BY <1>3 DEF Accept, LsTypeOK
    <2>2. Handed' = Handed
      BY <2>1, MoveHead DEF Handed
    <2>3. newCh' \in Seq(Addrs) /\ accepted' \in Seq(Addrs) /\ Len(newCh') <= Len(newCh)
      BY <2>1
    <2>4. served' \in SUBSET Addrs
      BY <1>3 DEF Accept, LsTypeOK
    <2>5. Len(newCh') <= AcceptCap
      <3>1. Len(newCh) \in Nat /\ Len(newCh') \in Nat
        BY <2>1, <2>3
      <3> QED
        BY <2>3, <3>1, ListenerAssumption DEF LsTypeOK
    <2> QED
      BY <1>3, <2>2, <2>3, <2>4, <2>5 DEF Accept, LsTypeOK
  <1> QED
    BY <1>1, <1>2, <1>3

\* A session that is put into newCh is the only new one.
LEMMA PutStep ==
    ASSUME LsTypeOK, OneSession, NEW a \in Addrs, a \notin ToSet(Handed),
           newCh' = Put(newCh, a, AcceptCap),
           UNCHANGED <<kind, sock, closeCh, cancelled, closer, loops, accepted, served, panicked>>
    PROVE  LsTypeOK' /\ OneSession' /\ ToSet(Handed') \subseteq ToSet(Handed) \cup {a}
  <1>1. /\ newCh \in Seq(Addrs) /\ accepted \in Seq(Addrs) /\ Len(newCh) <= AcceptCap
        /\ AcceptCap \in Nat
    BY ListenerAssumption DEF LsTypeOK
  <1>2. newCh' \in Seq(Addrs) /\ Len(newCh') <= AcceptCap
    BY <1>1, PutType
  <1>3. LsTypeOK'
    BY <1>2 DEF LsTypeOK
  <1>4. Handed \in Seq(Addrs) /\ IsInjective(Handed)
    BY <1>1 DEF Handed, OneSession
  <1>5. Handed' = Append(Handed, a) \/ Handed' = Handed
    BY <1>1, ExtendTail DEF Put, Handed
  <1>6. IsInjective(Handed') /\ ToSet(Handed') \subseteq ToSet(Handed) \cup {a}
    <2>1. CASE Handed' = Handed
      BY <1>4, <2>1
    <2>2. CASE Handed' = Append(Handed, a)
      <3>1. IsInjective(Append(Handed, a)) /\ ToSet(Append(Handed, a)) \subseteq ToSet(Handed) \cup {a}
        <4>1. ToSet(Append(Handed, a)) \subseteq ToSet(Handed) \cup {a}
          BY <1>4, AppendSet
        <4>2. IsInjective(Append(Handed, a))
          BY <1>4, AppendNew
        <4> QED
          BY <4>1, <4>2
      <3> QED
        BY <2>2, <3>1
    <2> QED
      BY <1>5, <2>1, <2>2
  <1> QED
    BY <1>3, <1>6 DEF Handed, OneSession

-----------------------------------------------------------------------------
(* The specification.                                                      *)

\* OneSession needs to know why an address is not handed out twice: its entry in
\* the table of the UDP listener, or a connection that is no longer waiting.
THandedOK ==
    \A a \in ToSet(Handed) : IF kind = "udp" THEN a \in sessions
                                             ELSE far[a] \notin {"no", "backlog"}

TDialledOK == \A a \in Addrs : near[a] = "no" => far[a] = "no"

TReceiversOK == \A a \in Addrs : ReceiverOK(in[a], InCap) /\ ReceiverOK(out[a], OutCap)

TInv == TransportsTypeOK /\ OneSession /\ THandedOK /\ TDialledOK /\ TReceiversOK

LEMMA CapsType == InCap \in Nat /\ OutCap \in Nat
  BY CapsAssumption

LEMMA InitInv == TInit => TInv
  <1> SUFFICES ASSUME TInit PROVE TInv
    OBVIOUS
  <1> USE DEF TInit
  <1>1. LsTypeOK
    <2>1. loops \in [{"read", "accept"} -> {"running", "ended"}]
      BY DEF LInit
    <2>2. /\ newCh \in Seq(Addrs) /\ accepted \in Seq(Addrs)
          /\ Len(newCh) = 0
      BY DEF LInit
    <2>3. Len(newCh) <= AcceptCap
      BY <2>2, ListenerAssumption
    <2>4. /\ kind \in Kinds /\ sock \in {"open", "closed"}
          /\ closeCh \in BOOLEAN /\ cancelled \in BOOLEAN /\ panicked \in BOOLEAN
          /\ closer \in [Closers -> {"idle", "close", "conn", "done"}]
          /\ served \in SUBSET Addrs
      BY DEF LInit
    <2> QED
      BY <2>1, <2>2, <2>3, <2>4 DEF LsTypeOK
  <1>2. TReceiversOK
    BY FreshOK, CapsType DEF UInit, TReceiversOK
  <1>3. UTypeOK
    <2>1. in \in [Addrs -> Receiver] /\ out \in [Addrs -> Receiver]
      BY FreshOK, CapsType DEF UInit, ReceiverOK
    <2>2. \A a \in Addrs : Len(in[a].rx) <= InCap /\ Len(out[a].rx) <= OutCap
      BY <1>2 DEF TReceiversOK, ReceiverOK
    <2> QED
      BY <2>1, <2>2 DEF UInit, UTypeOK
  <1>4. STypeOK
    BY DEF SInit, STypeOK
  <1>5. Handed = <<>> /\ DOMAIN Handed = {}
    BY DEF LInit, Handed
  <1>6. OneSession /\ THandedOK
    BY <1>5 DEF OneSession, THandedOK, Handed, IsInjective, ToSet
  <1>7. TDialledOK
    BY DEF SInit, TDialledOK
  <1> QED
    BY <1>1, <1>2, <1>3, <1>4, <1>6, <1>7 DEF TInv, TransportsTypeOK

\* What arrives and what is received, for the sessions of both ends.
LEMMA UDPStep ==
    ASSUME TInv, kind = "udp", UNext, UNCHANGED svars
    PROVE  TInv'
  <1> DEFINE Goal == UTypeOK' /\ TReceiversOK'
  <1>t. LsTypeOK /\ UTypeOK /\ STypeOK /\ OneSession /\ THandedOK /\ TDialledOK /\ TReceiversOK
    BY DEF TInv, TransportsTypeOK
  <1>s. STypeOK' /\ TDialledOK'
    BY <1>t DEF svars, STypeOK, TDialledOK
  \* the receivers' part, from what a step does to in and out
  <1>r. ASSUME TReceiversOK', sessions' \in SUBSET Addrs,
               in' \in [Addrs -> Receiver], out' \in [Addrs -> Receiver],
               dialled' \in [Addrs -> {"no", "open", "deaf", "closed"}],
               sent' \in [Addrs -> Nat], replies' \in [Addrs -> Nat]
        PROVE  UTypeOK'
    BY <1>r DEF TReceiversOK, ReceiverOK, UTypeOK
  \* the listener's part, when a step leaves newCh and the table alone
  <1>l. ASSUME LsTypeOK', kind' = kind, Handed' = Handed, sessions' = sessions, Goal
        PROVE  TInv'
    <2>1. OneSession'
      BY <1>t, <1>l DEF OneSession, Handed
    <2>2. THandedOK'
      BY <1>t, <1>l DEF THandedOK
    <2> QED
      BY <1>l, <1>s, <2>1, <2>2 DEF TInv, TransportsTypeOK
  <1>u. ASSUME UNCHANGED lvars PROVE LsTypeOK' /\ kind' = kind /\ Handed' = Handed
    BY <1>t, <1>u DEF lvars, LsTypeOK, Handed
  <1>v. ASSUME UNCHANGED uvars PROVE Goal /\ sessions' = sessions
    BY <1>t, <1>v DEF uvars, UTypeOK, TReceiversOK
  <1>1. ASSUME NEW a \in Addrs, ReadFromUDP(a) PROVE TInv'
    <2>1. PICK n \in 1..sent[a] : Dispatch(a, n)
      BY <1>1 DEF ReadFromUDP
    <2>2. n \in Nat
      BY <1>t DEF UTypeOK
    <2>3. ReceiverOK(Queued(in[a], n, InCap), InCap)
      BY <1>t, <2>2, QueuedOK, CapsType DEF TReceiversOK
    <2>4. in' = [in EXCEPT ![a] = Queued(in[a], n, InCap)] /\ sessions' = sessions \cup {a}
      BY <2>1 DEF Dispatch
    <2>5. in' \in [Addrs -> Receiver]
      BY <1>t, <2>3, <2>4 DEF UTypeOK, ReceiverOK
    <2>6. TReceiversOK'
      BY <1>1, <1>t, <2>3, <2>4 DEF ReadFromUDP, TReceiversOK, UTypeOK
    <2>7. UTypeOK'
      BY <1>1, <1>r, <1>t, <2>4, <2>5, <2>6 DEF ReadFromUDP, UTypeOK
    <2>8. LsTypeOK' /\ OneSession' /\ THandedOK'
      <3>1. CASE a \in sessions
        BY <1>1, <1>t, <2>1, <2>4, <3>1
          DEF ReadFromUDP, Dispatch, LsTypeOK, OneSession, THandedOK, Handed
      <3>2. CASE a \notin sessions
        <4>1. a \notin ToSet(Handed)
          BY <1>t, <3>2 DEF THandedOK
        <4>2. newCh' = Put(newCh, a, AcceptCap)
          BY <2>1, <3>2 DEF Dispatch
        <4>3. LsTypeOK' /\ OneSession' /\ ToSet(Handed') \subseteq ToSet(Handed) \cup {a}
          BY <1>1, <1>t, <4>1, <4>2, PutStep DEF ReadFromUDP
        <4>4. THandedOK'
          BY <1>1, <1>t, <2>4, <4>3 DEF THandedOK, ReadFromUDP
        <4> QED
          BY <4>3, <4>4
      <3> QED
        BY <3>1, <3>2
    <2> QED
      BY <1>s, <2>6, <2>7, <2>8 DEF TInv, TransportsTypeOK
  <1>2. ASSUME NEW a \in Addrs, RecvBytes(a) PROVE TInv'
    <2>1. ReceiverOK(Received(in[a]), InCap) /\ in' = [in EXCEPT ![a] = Received(in[a])]
      BY <1>2, <1>t, ReceivedOK, CapsType DEF RecvBytes, TReceiversOK
    <2>2. in' \in [Addrs -> Receiver]
      BY <1>t, <2>1 DEF UTypeOK, ReceiverOK
    <2>3. TReceiversOK'
      BY <1>2, <1>t, <2>1 DEF RecvBytes, TReceiversOK, UTypeOK
    <2>4. Goal /\ sessions' = sessions
      BY <1>2, <1>r, <1>t, <2>2, <2>3 DEF RecvBytes, UTypeOK
    <2> QED
      BY <1>2, <1>l, <1>u, <2>4 DEF RecvBytes
  <1>3. ASSUME NEW a \in Addrs, WriteToUDP(a) \/ Dial(a) \/ SendBytes(a) \/ ReadRefused(a) \/ CloseDialled(a)
        PROVE  TInv'
    <2>1. UNCHANGED <<lvars, sessions, in, out>>
      BY <1>3 DEF WriteToUDP, Dial, SendBytes, ReadRefused, CloseDialled
    <2>2. TReceiversOK'
      BY <1>t, <2>1 DEF TReceiversOK
    <2>3. /\ dialled' \in [Addrs -> {"no", "open", "deaf", "closed"}]
          /\ sent' \in [Addrs -> Nat] /\ replies' \in [Addrs -> Nat]
      <3>1. CASE WriteToUDP(a) \/ SendBytes(a)
        <4>1. sent[a] + 1 \in Nat /\ replies[a] + 1 \in Nat
          BY <1>t DEF UTypeOK
        <4>2. sent' \in {sent, [sent EXCEPT ![a] = sent[a] + 1]}
              /\ replies' \in {replies, [replies EXCEPT ![a] = replies[a] + 1]} /\ dialled' = dialled
          BY <3>1 DEF WriteToUDP, SendBytes
        <4> QED
          BY <1>t, <4>1, <4>2 DEF UTypeOK
      <3>2. CASE Dial(a) \/ ReadRefused(a) \/ CloseDialled(a)
        BY <1>t, <3>2 DEF Dial, ReadRefused, CloseDialled, UTypeOK
      <3> QED
        BY <1>3, <3>1, <3>2
    <2>4. UTypeOK'
      BY <1>r, <1>t, <2>1, <2>2, <2>3 DEF UTypeOK
    <2> QED
      BY <1>l, <1>u, <2>1, <2>2, <2>4
  <1>4. ASSUME NEW a \in Addrs, Read(a) PROVE TInv'
    <2>1. PICK n \in 1..replies[a] : out' = [out EXCEPT ![a] = Queued(out[a], n, OutCap)]
      BY <1>4 DEF Read
    <2>2. n \in Nat
      BY <1>t DEF UTypeOK
    <2>3. ReceiverOK(Queued(out[a], n, OutCap), OutCap)
      BY <1>t, <2>2, QueuedOK, CapsType DEF TReceiversOK
    <2>4. out' \in [Addrs -> Receiver]
      BY <1>t, <2>1, <2>3 DEF UTypeOK, ReceiverOK
    <2>5. TReceiversOK'
      BY <1>4, <1>t, <2>1, <2>3 DEF Read, TReceiversOK, UTypeOK
    <2>6. Goal /\ sessions' = sessions
      BY <1>4, <1>r, <1>t, <2>4, <2>5 DEF Read, UTypeOK
    <2> QED
      BY <1>4, <1>l, <1>u, <2>6 DEF Read
  <1>5. ASSUME NEW a \in Addrs, RecvReply(a) PROVE TInv'
    <2>1. ReceiverOK(Received(out[a]), OutCap) /\ out' = [out EXCEPT ![a] = Received(out[a])]
      BY <1>5, <1>t, ReceivedOK, CapsType DEF RecvReply, TReceiversOK
    <2>2. out' \in [Addrs -> Receiver]
      BY <1>t, <2>1 DEF UTypeOK, ReceiverOK
    <2>3. TReceiversOK'
      BY <1>5, <1>t, <2>1 DEF RecvReply, TReceiversOK, UTypeOK
    <2>4. Goal /\ sessions' = sessions
      BY <1>5, <1>r, <1>t, <2>2, <2>3 DEF RecvReply, UTypeOK
    <2> QED
      BY <1>5, <1>l, <1>u, <2>4 DEF RecvReply
  <1>6. ASSUME UAccepts \/ ULoopFails \/ UShutdown \/ \E c \in Closers : UCloses(c) PROVE TInv'
    <2>1. LsTypeOK' /\ kind' = kind /\ Handed' = Handed
      BY <1>6, <1>t, ListenerStep DEF UAccepts, ULoopFails, UShutdown, UCloses
    <2>2. UNCHANGED uvars
      BY <1>6 DEF UAccepts, ULoopFails, UShutdown, UCloses
    <2> QED
      BY <1>l, <1>v, <2>1, <2>2
  <1> QED
    BY <1>1, <1>2, <1>3, <1>4, <1>5, <1>6 DEF UNext

LEMMA StreamStep ==
    ASSUME TInv, kind # "udp", SNext, UNCHANGED uvars
    PROVE  TInv'
  <1>t. LsTypeOK /\ UTypeOK /\ STypeOK /\ OneSession /\ THandedOK /\ TDialledOK /\ TReceiversOK
    BY DEF TInv, TransportsTypeOK
  <1>u. UTypeOK' /\ TReceiversOK'
    BY <1>t DEF uvars, UTypeOK, TReceiversOK
  <1>e. ClosedEnd \in {"open", "closed"}
    BY DEF ClosedEnd
  <1>h. \A a \in ToSet(Handed) : a \in Addrs /\ far[a] \notin {"no", "backlog"}
    <2>1. Handed \in Seq(Addrs)
      BY <1>t DEF LsTypeOK, Handed
    <2>2. ToSet(Handed) \subseteq Addrs
      BY <2>1 DEF ToSet
    <2> QED
      BY <1>t, <2>2 DEF THandedOK
  \* a step that hands out nothing, and leaves what was handed out connected
  <1>l. ASSUME LsTypeOK', kind' = kind, Handed' = Handed, STypeOK', TDialledOK',
               \A a \in ToSet(Handed) : far'[a] \notin {"no", "backlog"}
        PROVE  TInv'
    <2>1. OneSession'
      BY <1>t, <1>l DEF OneSession, Handed
    <2>2. THandedOK'
      BY <1>l DEF THandedOK
    <2> QED
      BY <1>l, <1>u, <2>1, <2>2 DEF TInv, TransportsTypeOK
  <1>v. ASSUME UNCHANGED lvars PROVE LsTypeOK' /\ kind' = kind /\ Handed' = Handed
    BY <1>t, <1>v DEF lvars, LsTypeOK, Handed
  \* a step that puts the session of a into newCh
  <1>p. ASSUME NEW a \in Addrs, a \notin ToSet(Handed), newCh' = Put(newCh, a, AcceptCap),
               UNCHANGED <<kind, sock, closeCh, cancelled, closer, loops, accepted, served, panicked>>,
               near'[a] # "no",
               far' = [far EXCEPT ![a] = IF Len(newCh) < AcceptCap THEN "open" ELSE ClosedEnd],
               near' \in [Addrs -> {"no", "open", "closed"}], hasClose' = hasClose,
               \A b \in Addrs \ {a} : near'[b] = near[b]
        PROVE  TInv'
    <2>1. LsTypeOK' /\ OneSession' /\ ToSet(Handed') \subseteq ToSet(Handed) \cup {a}
      BY <1>p, <1>t, PutStep
    <2>2. STypeOK' /\ TDialledOK'
      BY <1>e, <1>p, <1>t DEF STypeOK, TDialledOK
    <2>3. \A b \in ToSet(Handed) : far'[b] \notin {"no", "backlog"}
      BY <1>h, <1>p, <1>t DEF STypeOK
    <2>4. far'[a] \notin {"no", "backlog"}
      BY <1>e, <1>p, <1>t DEF STypeOK
    <2>5. THandedOK'
      BY <1>p, <2>1, <2>3, <2>4 DEF THandedOK
    <2> QED
      BY <1>u, <2>1, <2>2, <2>5 DEF TInv, TransportsTypeOK
  <1>1. ASSUME NEW a \in Addrs, Connect(a) \/ Hangup(a) PROVE TInv'
    <2>1. UNCHANGED lvars
      BY <1>1 DEF Connect, Hangup
    <2>2. STypeOK' /\ TDialledOK'
      BY <1>1, <1>e, <1>t DEF Connect, Hangup, STypeOK, TDialledOK
    <2>3. \A b \in ToSet(Handed) : far'[b] \notin {"no", "backlog"}
      BY <1>1, <1>h, <1>t DEF Connect, Hangup, STypeOK, TDialledOK
    <2> QED
      BY <1>l, <1>v, <2>1, <2>2, <2>3
  <1>2. ASSUME NEW a \in Addrs, MemDial(a) PROVE TInv'
    <2>1. a \notin ToSet(Handed)
      BY <1>2, <1>h, <1>t DEF MemDial, TDialledOK
    <2>2. near' = [near EXCEPT ![a] = "open"]
      BY <1>2 DEF MemDial
    <2>3. near' \in [Addrs -> {"no", "open", "closed"}] /\ near'[a] # "no"
          /\ \A b \in Addrs \ {a} : near'[b] = near[b]
      BY <1>t, <2>2 DEF STypeOK
    <2> QED
      BY <1>2, <1>p, <2>1, <2>3 DEF MemDial
  <1>3. ASSUME NEW a \in Addrs, AcceptConn(a) PROVE TInv'
    <2>1. a \notin ToSet(Handed)
      BY <1>3, <1>h DEF AcceptConn
    <2>2. near[a] # "no"
      BY <1>3, <1>t DEF AcceptConn, TDialledOK
    <2> QED
      BY <1>3, <1>p, <1>t, <2>1, <2>2 DEF AcceptConn, STypeOK
  <1>4. ASSUME SAccepts PROVE TInv'
    <2>1. LsTypeOK' /\ kind' = kind /\ Handed' = Handed
      BY <1>4, <1>t, ListenerStep DEF SAccepts
    <2>2. near' = near /\ hasClose' = hasClose
      BY <1>4 DEF SAccepts
    <2>3. far' = far \/ \E a \in Addrs : a = Head(newCh) /\ newCh # <<>>
                                     /\ far' = [far EXCEPT ![a] = ClosedEnd]
      BY <1>4 DEF SAccepts, Accept
    <2>h. newCh # <<>> => Head(newCh) \in ToSet(Handed)
      <3>1. /\ accepted \in Seq(Addrs) /\ newCh \in Seq(Addrs)
        BY <1>t DEF LsTypeOK
      <3>2. newCh # <<>> => Len(accepted) + 1 \in DOMAIN Handed /\ Handed[Len(accepted) + 1] = Head(newCh)
        BY <3>1 DEF Handed
      <3> QED
        BY <3>2 DEF ToSet
    <2>4. STypeOK' /\ TDialledOK' /\ \A b \in ToSet(Handed) : far'[b] \notin {"no", "backlog"}
      BY <1>e, <1>h, <1>t, <2>2, <2>3, <2>h DEF STypeOK, TDialledOK
    <2> QED
      BY <1>l, <2>1, <2>4
  <1>5. ASSUME SLoopFails \/ SShutdown PROVE TInv'
    <2>1. LsTypeOK' /\ kind' = kind /\ Handed' = Handed
      BY <1>5, <1>t, ListenerStep DEF SLoopFails, SShutdown
    <2>2. UNCHANGED svars
      BY <1>5 DEF SLoopFails, SShutdown
    <2> QED
      BY <1>h, <1>l, <1>t, <2>1, <2>2 DEF svars, STypeOK, TDialledOK
  <1>6. ASSUME NEW c \in Closers, SCloses(c) PROVE TInv'
    <2>1. LsTypeOK' /\ kind' = kind /\ Handed' = Handed
      BY <1>6, <1>t, ListenerStep DEF SCloses
    <2>2. near' = near /\ hasClose' = hasClose
      BY <1>6 DEF SCloses
    <2>3. \/ far' = far
          \/ far' = [a \in Addrs |-> IF far[a] = "backlog" /\ sock' = "closed" THEN "closed" ELSE far[a]]
      BY <1>6 DEF SCloses
    <2>4. STypeOK' /\ TDialledOK' /\ \A b \in ToSet(Handed) : far'[b] \notin {"no", "backlog"}
      BY <1>h, <1>t, <2>2, <2>3 DEF STypeOK, TDialledOK
    <2> QED
      BY <1>l, <2>1, <2>4
  <1> QED
    BY <1>1, <1>2, <1>3, <1>4, <1>5, <1>6 DEF SNext

LEMMA InductiveInv == Spec => []TInv
  <1>1. TInv /\ [TNext]_tvars => TInv'
    <2> SUFFICES ASSUME TInv, [TNext]_tvars PROVE TInv'
      OBVIOUS
    <2>1. CASE TNext
      BY <2>1, UDPStep, StreamStep DEF TNext
    <2>2. CASE UNCHANGED tvars
      BY <2>2 DEF tvars, lvars, uvars, svars, TInv, TransportsTypeOK, LsTypeOK, UTypeOK, STypeOK,
                  OneSession, THandedOK, TDialledOK, Handed, TReceiversOK
    <2> QED
      BY <2>1, <2>2
  <1> QED
    BY <1>1, InitInv, PTL DEF Spec

-----------------------------------------------------------------------------
(* Results, for the specification with the fairness the runs use.          *)

\* The listeners of all transports, and the tables of UDP and of the streams,
\* keep their types.
THEOREM TransportsType == FairSpec => []TransportsTypeOK
  <1>1. TInv => TransportsTypeOK
    BY DEF TInv
  <1> QED
    BY <1>1, InductiveInv, PTL DEF FairSpec

\* No listener hands out two sessions of one address: readLoop with the table
\* of the UDP listener, and the accept loops of the streams, put a session into
\* newCh once, and nothing puts one back.
THEOREM OneSessionHolds == FairSpec => []OneSession
  <1>1. TInv => OneSession
    BY DEF TInv
  <1> QED
    BY <1>1, InductiveInv, PTL DEF FairSpec

\* What recvLoop and readLoop queue is what arrived, in the order in which it
\* arrived, whatever the full channels drop.
THEOREM NoneAlteredHolds == FairSpec => []NoneAltered
  <1>1. TInv => NoneAltered
    BY DEF TInv, TReceiversOK, ReceiverOK, IsKept, NoneAltered
  <1> QED
    BY <1>1, InductiveInv, PTL DEF FairSpec

\* The first datagrams of an address are kept for its handler, up to the length
\* of rxCh, though the handler starts to read later.
THEOREM FirstKeptHolds == FairSpec => []FirstKept
  <1>1. ASSUME TInv PROVE FirstKept
    <2> SUFFICES ASSUME NEW a \in Addrs
                 PROVE  LET r == in[a]
                            n == IF Len(r.arrived) < InCap THEN Len(r.arrived) ELSE InCap
                        IN  IsPrefix(SubSeq(r.arrived, 1, n), r.got \o r.rx)
      BY DEF FirstKept
    <2> DEFINE r == in[a]
               n == IF Len(r.arrived) < InCap THEN Len(r.arrived) ELSE InCap
    <2>1. r \in Receiver /\ IsKept(r.got \o r.rx, r.arrived, InCap)
      BY <1>1 DEF TInv, TReceiversOK, ReceiverOK
    <2>2. r.arrived \in Seq(Nat) /\ r.got \o r.rx \in Seq(Nat)
      BY <2>1 DEF Receiver
    <2> HIDE DEF r
    <2>3. ASSUME NEW s \in Seq(Nat), NEW l \in Seq(Nat), IsKept(l, s, InCap),
                 NEW k \in Nat, k <= Len(s), k <= InCap
          PROVE  IsPrefix(SubSeq(s, 1, k), l)
      <3>1. k <= Len(l) /\ \A i \in 1..k : l[i] = s[i]
        BY <2>3, CapsType DEF IsKept
      <3>2. Len(SubSeq(s, 1, k)) = k
        BY <2>3
      <3>3. SubSeq(SubSeq(s, 1, k), 1, k) = SubSeq(l, 1, k)
        BY <2>3, <3>1
      <3> QED
        BY <3>1, <3>2, <3>3 DEF IsPrefix
    <2>4. n \in Nat /\ n <= Len(r.arrived) /\ n <= InCap
      BY <2>2, CapsType
    <2> HIDE DEF n
    <2>5. IsPrefix(SubSeq(r.arrived, 1, n), r.got \o r.rx)
      BY <2>1, <2>2, <2>3, <2>4
    <2> QED
      BY <2>5 DEF r, n
  <1> QED
    BY <1>1, InductiveInv, PTL DEF FairSpec

-----------------------------------------------------------------------------
(* Numbers.                                                                *)

LEMMA SmallestOf ==
    ASSUME NEW T, T \subseteq Nat, T # {}
    PROVE  \E x \in T : \A y \in T : x <= y
  <1> DEFINE R == {r \in Nat \X Nat : r[1] < r[2]}
  <1>1. IsWellFoundedOn(R, Nat)
    <2>1. OpToRel(<, Nat) = R
      BY DEF OpToRel
    <2> QED
      BY <2>1, NatLessThanWellFounded
  <1> HIDE DEF R
  <1>2. PICK x \in T : \A y \in T : ~(<<y, x>> \in R)
    BY <1>1, WFMin
  <1>3. ASSUME NEW y \in T PROVE x <= y
    <2>1. x \in Nat /\ y \in Nat /\ ~(<<y, x>> \in R)
      BY <1>2
    <2>2. ~(y < x)
      BY <2>1 DEF R
    <2> QED
      BY <2>1, <2>2
  <1> QED
    BY <1>3

\* Induction up to n, for a set of numbers.
LEMMA CountUp ==
    ASSUME NEW n \in Nat, NEW T, 0 \in T, \A i \in 1..n : i - 1 \in T => i \in T
    PROVE  \A i \in 0..n : i \in T
  <1> SUFFICES ASSUME NEW k \in 0..n, k \notin T PROVE FALSE
    OBVIOUS
  <1> DEFINE B == {i \in 0..n : i \notin T}
  <1>1. B \subseteq Nat /\ B # {}
    OBVIOUS
  <1>2. PICK x \in B : \A y \in B : x <= y
    BY <1>1, SmallestOf
  <1>3. x \in 1..n /\ x - 1 \in 0..n /\ ~(x <= x - 1)
    BY <1>2
  <1>4. x - 1 \in T
    BY <1>2, <1>3
  <1> QED
    BY <1>2, <1>3, <1>4

LEMMA MinOfTwo ==
    ASSUME NEW a \in Nat, NEW b \in Nat
    PROVE  Min({a, b}) = IF a <= b THEN a ELSE b
  <1> DEFINE m == IF a <= b THEN a ELSE b
  <1>1. m \in {a, b} /\ \A y \in {a, b} : m <= y
    OBVIOUS
  <1>2. ASSUME NEW x \in {a, b}, \A y \in {a, b} : x <= y PROVE x = m
    BY <1>2
  <1> HIDE DEF m
  <1>3. Min({a, b}) = m
    BY <1>1, <1>2 DEF Min
  <1> QED
    BY <1>3 DEF m

-----------------------------------------------------------------------------
(* FlattenSeq, one element after the other.                                *)

Grows(acc, S, w, n) ==
    /\ acc \in [0..n -> Seq(S)] /\ acc[0] = <<>>
    /\ \A i \in 1..n : acc[i] = acc[i - 1] \o w[i]

LEMMA GrowthExists ==
    ASSUME NEW S, NEW w \in Seq(Seq(S))
    PROVE  \E acc : Grows(acc, S, w, Len(w))
  <1> DEFINE n == Len(w)
             T == {k \in 0..n : \E f : Grows(f, S, w, k)}
  <1>0. n \in Nat /\ \A i \in 1..n : w[i] \in Seq(S)
    BY LenProperties, ElementOfSeq
  <1>1. 0 \in T
    <2>1. Grows([i \in 0..0 |-> <<>>], S, w, 0)
      BY DEF Grows
    <2> QED
      BY <1>0, <2>1
  <1>2. ASSUME NEW k \in 1..n, k - 1 \in T PROVE k \in T
    <2>1. PICK f : Grows(f, S, w, k - 1)
      BY <1>2
    <2>2. f[k - 1] \in Seq(S) /\ w[k] \in Seq(S)
      BY <1>0, <2>1 DEF Grows
    <2>3. PICK x \in Seq(S) : x = f[k - 1] \o w[k]
      BY <2>2, ConcatProperties
    <2> DEFINE g == [i \in 0..k |-> IF i = k THEN x ELSE f[i]]
    <2>4. g \in [0..k -> Seq(S)] /\ g[0] = <<>>
      BY <1>0, <2>1 DEF Grows
    <2>5. ASSUME NEW i \in 1..k PROVE g[i] = g[i - 1] \o w[i]
      <3>1. g[i - 1] = f[i - 1]
        BY <1>0
      <3>2. CASE i = k
        BY <2>3, <3>1, <3>2
      <3>3. CASE i # k
        <4>1. i \in 1..(k - 1) /\ g[i] = f[i]
          BY <1>0, <3>3
        <4> QED
          BY <2>1, <3>1, <4>1 DEF Grows
      <3> QED
        BY <3>2, <3>3
    <2> HIDE DEF g
    <2>6. Grows(g, S, w, k)
      BY <2>4, <2>5 DEF Grows
    <2> QED
      BY <2>6
  <1> HIDE DEF T
  <1>3. \A i \in 0..n : i \in T
    BY <1>0, <1>1, <1>2, CountUp
  <1>4. n \in T
    BY <1>0, <1>3
  <1> QED
    BY <1>4 DEF T

LEMMA FlattenGrows ==
    ASSUME NEW S, NEW w \in Seq(Seq(S)), w # <<>>
    PROVE  \E acc : Grows(acc, S, w, Len(w)) /\ FlattenSeq(w) = acc[Len(w)]
  <1> DEFINE n == Len(w)
             G(f, i) == IF i = 1 THEN w[i] ELSE f[i - 1] \o w[i]
  <1>0. n \in Nat \ {0} /\ \A i \in 1..n : w[i] \in Seq(S)
    BY LenProperties, ElementOfSeq, EmptySeq
  <1>1. PICK acc : Grows(acc, S, w, Len(w))
    BY GrowthExists
  <1> DEFINE fl == [i \in 1..n |-> acc[i]]
  <1>2. ASSUME NEW i \in 1..n PROVE fl[i] = G(fl, i)
    <2>1. fl[i] = acc[i - 1] \o w[i] /\ w[i] \in Seq(S)
      BY <1>0, <1>1 DEF Grows
    <2>2. CASE i = 1
      <3>1. acc[i - 1] = <<>>
        BY <1>1, <2>2 DEF Grows
      <3> QED
        BY <2>1, <2>2, <3>1, ConcatEmptySeq
    <2>3. CASE i # 1
      <3>1. i - 1 \in 1..n /\ fl[i - 1] = acc[i - 1]
        BY <1>0, <2>3
      <3> QED
        BY <2>1, <2>3, <3>1
    <2> QED
      BY <2>2, <2>3
  <1>3. fl = [i \in 1..n |-> G(fl, i)]
    <2>1. fl = [i \in 1..n |-> fl[i]]
      OBVIOUS
    <2> HIDE DEF fl, G
    <2> QED
      BY <1>2, <2>1
  <1> HIDE DEF fl
  <1>4. PICK flat : flat = [i \in 1..n |-> G(flat, i)] /\ FlattenSeq(w) = flat[n]
    <2>1. n # 0
      BY <1>0
    <2> QED
      BY <1>3, <2>1 DEF FlattenSeq
  <1>5. \A i \in 1..n : flat[i] = G(flat, i)
    <2> HIDE DEF G
    <2> QED
      BY <1>4
  <1> DEFINE T == {i \in 0..n : i = 0 \/ flat[i] = acc[i]}
  <1>6. 0 \in T
    BY <1>0
  <1>7. ASSUME NEW i \in 1..n, i - 1 \in T PROVE i \in T
    <2>1. acc[i] = acc[i - 1] \o w[i] /\ w[i] \in Seq(S)
      BY <1>0, <1>1 DEF Grows
    <2>2. CASE i = 1
      <3>1. acc[i - 1] = <<>>
        BY <1>1, <2>2 DEF Grows
      <3>2. flat[i] = w[i]
        BY <1>5, <2>2
      <3>3. acc[i] = w[i]
        BY <2>1, <3>1, ConcatEmptySeq
      <3> QED
        BY <3>2, <3>3
    <2>3. CASE i # 1
      <3>1. flat[i] = flat[i - 1] \o w[i]
        BY <1>5, <2>3
      <3>2. flat[i - 1] = acc[i - 1]
        <4>1. i - 1 # 0
          BY <1>0, <2>3
        <4> QED
          BY <1>7, <4>1
      <3>3. flat[i] = acc[i]
        BY <2>1, <3>1, <3>2
      <3> QED
        BY <3>3
    <2> QED
      BY <2>2, <2>3
  <1> HIDE DEF T
  <1>8. n \in T
    <2>1. \A i \in 0..n : i \in T
      BY <1>0, <1>6, <1>7, CountUp
    <2> QED
      BY <1>0, <2>1
  <1>9. flat[n] = acc[n]
    BY <1>0, <1>8 DEF T
  <1> QED
    BY <1>1, <1>4, <1>9

-----------------------------------------------------------------------------
(* Written of everything that is sent on a stream.                          *)

\* l is what all has behind its first p elements.
Piece(all, p, l) == p + Len(l) <= Len(all) /\ \A j \in 1..Len(l) : l[j] = all[p + j]

LEMMA SubSeqFacts ==
    ASSUME NEW S, NEW s \in Seq(S), NEW m \in Nat \ {0}, NEW n \in Nat, m <= n + 1, n <= Len(s)
    PROVE  /\ SubSeq(s, m, n) \in Seq(S) /\ Len(SubSeq(s, m, n)) = n - m + 1
           /\ \A i \in 1..(n - m + 1) : SubSeq(s, m, n)[i] = s[m + i - 1]
  <1>1. \A i \in m..n : s[i] \in S
    BY LenProperties, ElementOfSeq
  <1> QED
    BY <1>1, SubSeqProperties

LEMMA PieceJoin ==
    ASSUME NEW S, NEW all \in Seq(S), NEW p \in Nat, NEW l \in Seq(S), NEW m \in Seq(S),
           Piece(all, p, l), Piece(all, p + Len(l), m)
    PROVE  Piece(all, p, l \o m)
  <1>1. /\ Len(l) \in Nat /\ Len(m) \in Nat /\ Len(all) \in Nat
        /\ Len(l \o m) = Len(l) + Len(m)
        /\ \A i \in 1..(Len(l) + Len(m)) :
              (l \o m)[i] = IF i <= Len(l) THEN l[i] ELSE m[i - Len(l)]
    BY ConcatProperties, LenProperties
  <1>2. ASSUME NEW i \in 1..(Len(l) + Len(m)) PROVE (l \o m)[i] = all[p + i]
    <2>1. CASE i <= Len(l)
      BY <1>1, <2>1 DEF Piece
    <2>2. CASE ~(i <= Len(l))
      <3>1. i - Len(l) \in 1..Len(m) /\ (p + Len(l)) + (i - Len(l)) = p + i
        BY <1>1, <2>2
      <3>2. m[i - Len(l)] = all[(p + Len(l)) + (i - Len(l))]
        BY <3>1 DEF Piece
      <3> QED
        BY <1>1, <2>2, <3>1, <3>2
    <2> QED
      BY <2>1, <2>2
  <1> QED
    BY <1>1, <1>2 DEF Piece

LEMMA PieceSplit ==
    ASSUME NEW S, NEW all \in Seq(S), NEW p \in Nat, NEW l \in Seq(S), NEW n \in 0..Len(l),
           Piece(all, p, l)
    PROVE  /\ SubSeq(l, 1, n) \in Seq(S) /\ SubSeq(l, n + 1, Len(l)) \in Seq(S)
           /\ Len(SubSeq(l, 1, n)) = n /\ Len(SubSeq(l, n + 1, Len(l))) = Len(l) - n
           /\ Piece(all, p, SubSeq(l, 1, n))
           /\ Piece(all, p + n, SubSeq(l, n + 1, Len(l)))
  <1>1. Len(l) \in Nat /\ Len(all) \in Nat
    BY LenProperties
  <1>2. /\ SubSeq(l, 1, n) \in Seq(S) /\ Len(SubSeq(l, 1, n)) = n
        /\ \A i \in 1..n : SubSeq(l, 1, n)[i] = l[i]
    <2>1. /\ SubSeq(l, 1, n) \in Seq(S) /\ Len(SubSeq(l, 1, n)) = n - 1 + 1
          /\ \A i \in 1..(n - 1 + 1) : SubSeq(l, 1, n)[i] = l[1 + i - 1]
      BY <1>1, SubSeqFacts
    <2> QED
      BY <1>1, <2>1
  <1>3. /\ SubSeq(l, n + 1, Len(l)) \in Seq(S) /\ Len(SubSeq(l, n + 1, Len(l))) = Len(l) - n
        /\ \A i \in 1..(Len(l) - n) : SubSeq(l, n + 1, Len(l))[i] = l[n + i]
    <2>1. /\ SubSeq(l, n + 1, Len(l)) \in Seq(S)
          /\ Len(SubSeq(l, n + 1, Len(l))) = Len(l) - (n + 1) + 1
          /\ \A i \in 1..(Len(l) - (n + 1) + 1) : SubSeq(l, n + 1, Len(l))[i] = l[(n + 1) + i - 1]
      BY <1>1, SubSeqFacts
    <2> QED
      BY <1>1, <2>1
  <1>4. Piece(all, p, SubSeq(l, 1, n))
    BY <1>1, <1>2 DEF Piece
  <1>5. Piece(all, p + n, SubSeq(l, n + 1, Len(l)))
    <2>1. ASSUME NEW i \in 1..(Len(l) - n) PROVE SubSeq(l, n + 1, Len(l))[i] = all[(p + n) + i]
      <3>1. n + i \in 1..Len(l) /\ p + (n + i) = (p + n) + i
        BY <1>1
      <3>2. l[n + i] = all[p + (n + i)]
        BY <3>1 DEF Piece
      <3> QED
        BY <1>3, <3>1, <3>2
    <2>2. (p + n) + (Len(l) - n) <= Len(all)
      BY <1>1 DEF Piece
    <2> QED
      BY <1>3, <2>1, <2>2 DEF Piece
  <1> QED
    BY <1>2, <1>3, <1>4, <1>5

\* What is a piece stays one when more is sent.
LEMMA PieceGrows ==
    ASSUME NEW S, NEW all \in Seq(S), NEW more \in Seq(S), NEW p \in Nat, NEW l \in Seq(S),
           Piece(all, p, l)
    PROVE  Piece(all \o more, p, l)
  <1>1. Len(l) \in Nat /\ Len(all) \in Nat /\ Len(more) \in Nat
    BY LenProperties
  <1>2. /\ Len(all \o more) = Len(all) + Len(more)
        /\ \A i \in 1..Len(all) : (all \o more)[i] = all[i]
    BY <1>1, ConcatProperties
  <1>3. ASSUME NEW j \in 1..Len(l) PROVE p + j \in 1..Len(all)
    BY <1>1 DEF Piece
  <1> QED
    BY <1>1, <1>2, <1>3 DEF Piece

\* The writes in w are, one after the other, what all has between p and q.
Written(all, p, w, q) ==
    \E cp \in [1..(Len(w) + 1) -> Nat] :
        /\ cp[1] = p /\ cp[Len(w) + 1] = q
        /\ \A k \in 1..Len(w) : cp[k + 1] = cp[k] + Len(w[k]) /\ Piece(all, cp[k], w[k])

LEMMA WrittenNone == ASSUME NEW all, NEW p \in Nat PROVE Written(all, p, <<>>, p)
  <1> DEFINE cp == [i \in 1..1 |-> p]
  <1>1. Len(<<>>) = 0 /\ cp \in [1..(0 + 1) -> Nat] /\ cp[1] = p /\ cp[0 + 1] = p
    OBVIOUS
  <1> HIDE DEF cp
  <1> QED
    BY <1>1 DEF Written

LEMMA WrittenAppend ==
    ASSUME NEW S, NEW all, NEW p, NEW q \in Nat, NEW w \in Seq(Seq(S)), NEW x \in Seq(S),
           Written(all, p, w, q), Piece(all, q, x)
    PROVE  Written(all, p, Append(w, x), q + Len(x))
  <1>1. PICK cp \in [1..(Len(w) + 1) -> Nat] :
           /\ cp[1] = p /\ cp[Len(w) + 1] = q
           /\ \A k \in 1..Len(w) : cp[k + 1] = cp[k] + Len(w[k]) /\ Piece(all, cp[k], w[k])
    BY DEF Written
  <1> DEFINE n == Len(w)
             v == Append(w, x)
  <1>2. /\ n \in Nat /\ Len(x) \in Nat /\ Len(v) = n + 1
        /\ \A k \in 1..n : v[k] = w[k]
        /\ v[n + 1] = x
    BY LenProperties, AppendProperties
  <1> DEFINE dp == [k \in 1..(n + 2) |-> IF k = n + 2 THEN q + Len(x) ELSE cp[k]]
  <1>3. /\ dp \in [1..((n + 1) + 1) -> Nat] /\ dp[1] = p /\ dp[(n + 1) + 1] = q + Len(x)
        /\ \A k \in 1..(n + 1) : dp[k] = cp[k]
    BY <1>1, <1>2
  <1> HIDE DEF dp, v
  <1>4. ASSUME NEW k \in 1..(n + 1)
        PROVE  dp[k + 1] = dp[k] + Len(v[k]) /\ Piece(all, dp[k], v[k])
    <2>1. CASE k = n + 1
      BY <1>1, <1>2, <1>3, <2>1
    <2>2. CASE k # n + 1
      <3>1. k \in 1..n /\ k + 1 \in 1..(n + 1)
        BY <1>2, <2>2
      <3>2. dp[k] = cp[k] /\ dp[k + 1] = cp[k + 1] /\ v[k] = w[k]
        BY <1>2, <1>3, <3>1
      <3> QED
        BY <1>1, <3>1, <3>2
    <2> QED
      BY <2>1, <2>2
  <1>5. Written(all, p, v, q + Len(x))
    BY <1>2, <1>3, <1>4 DEF Written
  <1> QED
    BY <1>5 DEF v

LEMMA WrittenTail ==
    ASSUME NEW S, NEW all, NEW p, NEW q \in Nat, NEW w \in Seq(Seq(S)), w # <<>>,
           Written(all, p, w, q)
    PROVE  Piece(all, p, Head(w)) /\ Written(all, p + Len(Head(w)), Tail(w), q)
  <1>1. PICK cp \in [1..(Len(w) + 1) -> Nat] :
           /\ cp[1] = p /\ cp[Len(w) + 1] = q
           /\ \A k \in 1..Len(w) : cp[k + 1] = cp[k] + Len(w[k]) /\ Piece(all, cp[k], w[k])
    BY DEF Written
  <1> DEFINE n == Len(w)
             v == Tail(w)
  <1>2. /\ n \in Nat \ {0} /\ Len(v) = n - 1 /\ Head(w) = w[1]
        /\ \A k \in 1..(n - 1) : v[k] = w[k + 1]
    BY EmptySeq, HeadTailProperties
  <1>3. Piece(all, p, Head(w)) /\ cp[2] = p + Len(Head(w))
    BY <1>1, <1>2
  <1> DEFINE dp == [k \in 1..n |-> cp[k + 1]]
  <1>4. dp \in [1..((n - 1) + 1) -> Nat] /\ dp[1] = cp[2] /\ dp[(n - 1) + 1] = q
    BY <1>1, <1>2
  <1>5. ASSUME NEW k \in 1..(n - 1)
        PROVE  dp[k + 1] = dp[k] + Len(v[k]) /\ Piece(all, dp[k], v[k])
    <2>1. k + 1 \in 1..n /\ dp[k] = cp[k + 1] /\ dp[k + 1] = cp[(k + 1) + 1] /\ v[k] = w[k + 1]
      BY <1>2
    <2> HIDE DEF dp, v
    <2> QED
      BY <1>1, <2>1
  <1> HIDE DEF dp, v
  <1>6. Written(all, cp[2], v, q)
    BY <1>2, <1>4, <1>5 DEF Written
  <1> QED
    BY <1>3, <1>6 DEF v

LEMMA WrittenFirst ==
    ASSUME NEW S, NEW all, NEW p \in Nat, NEW q \in Nat, NEW w \in Seq(Seq(S)), NEW x \in Seq(S),
           Piece(all, p, x), Written(all, p + Len(x), w, q)
    PROVE  Written(all, p, <<x>> \o w, q)
  <1>1. PICK cp \in [1..(Len(w) + 1) -> Nat] :
           /\ cp[1] = p + Len(x) /\ cp[Len(w) + 1] = q
           /\ \A k \in 1..Len(w) : cp[k + 1] = cp[k] + Len(w[k]) /\ Piece(all, cp[k], w[k])
    BY DEF Written
  <1> DEFINE n == Len(w)
             v == <<x>> \o w
  <1>2. /\ n \in Nat /\ Len(v) = n + 1 /\ v[1] = x /\ Len(x) \in Nat
        /\ \A k \in 2..(n + 1) : v[k] = w[k - 1]
    <2>1. <<x>> \in Seq(Seq(S)) /\ Len(<<x>>) = 1 /\ <<x>>[1] = x
      OBVIOUS
    <2>2. n \in Nat /\ Len(x) \in Nat
      BY LenProperties
    <2>3. /\ Len(v) = 1 + n
          /\ \A i \in 1..(1 + n) : v[i] = IF i <= 1 THEN <<x>>[i] ELSE w[i - 1]
      BY <2>1, ConcatProperties
    <2> QED
      BY <2>1, <2>2, <2>3
  <1> DEFINE dp == [k \in 1..(n + 2) |-> IF k = 1 THEN p ELSE cp[k - 1]]
  <1>3. /\ dp \in [1..((n + 1) + 1) -> Nat] /\ dp[1] = p /\ dp[(n + 1) + 1] = q
        /\ \A k \in 2..(n + 2) : dp[k] = cp[k - 1]
    BY <1>1, <1>2
  <1> HIDE DEF dp, v
  <1>4. ASSUME NEW k \in 1..(n + 1)
        PROVE  dp[k + 1] = dp[k] + Len(v[k]) /\ Piece(all, dp[k], v[k])
    <2>1. CASE k = 1
      BY <1>1, <1>2, <1>3, <2>1
    <2>2. CASE k # 1
      <3>1. k \in 2..(n + 1) /\ k - 1 \in 1..n /\ (k + 1) - 1 = (k - 1) + 1 /\ k + 1 \in 2..(n + 2)
        <4> HIDE DEF n
        <4> QED
          BY <1>2, <2>2
      <3>2. dp[k] = cp[k - 1] /\ dp[k + 1] = cp[(k - 1) + 1] /\ v[k] = w[k - 1]
        BY <1>2, <1>3, <3>1
      <3> QED
        BY <1>1, <3>1, <3>2
    <2> QED
      BY <2>1, <2>2
  <1>5. Written(all, p, v, q)
    BY <1>2, <1>3, <1>4 DEF Written
  <1> QED
    BY <1>5 DEF v

LEMMA WrittenGrow ==
    ASSUME NEW S, NEW all \in Seq(S), NEW more \in Seq(S), NEW p, NEW q, NEW w \in Seq(Seq(S)),
           Written(all, p, w, q)
    PROVE  Written(all \o more, p, w, q)
  <1>1. PICK cp \in [1..(Len(w) + 1) -> Nat] :
           /\ cp[1] = p /\ cp[Len(w) + 1] = q
           /\ \A k \in 1..Len(w) : cp[k + 1] = cp[k] + Len(w[k]) /\ Piece(all, cp[k], w[k])
    BY DEF Written
  <1>2. ASSUME NEW k \in 1..Len(w) PROVE Piece(all \o more, cp[k], w[k])
    <2>1. cp[k] \in Nat /\ w[k] \in Seq(S)
      BY LenProperties, ElementOfSeq
    <2> QED
      BY <1>1, <2>1, PieceGrows
  <1> QED
    BY <1>1, <1>2 DEF Written

LEMMA WrittenFlat ==
    ASSUME NEW S, NEW all \in Seq(S), NEW p \in Nat, NEW q \in Nat, NEW w \in Seq(Seq(S)), w # <<>>,
           Written(all, p, w, q)
    PROVE  /\ FlattenSeq(w) \in Seq(S)
           /\ Piece(all, p, FlattenSeq(w))
           /\ q = p + Len(FlattenSeq(w))
  <1>1. PICK cp \in [1..(Len(w) + 1) -> Nat] :
           /\ cp[1] = p /\ cp[Len(w) + 1] = q
           /\ \A k \in 1..Len(w) : cp[k + 1] = cp[k] + Len(w[k]) /\ Piece(all, cp[k], w[k])
    BY DEF Written
  <1>2. PICK acc : Grows(acc, S, w, Len(w)) /\ FlattenSeq(w) = acc[Len(w)]
    BY FlattenGrows
  <1> DEFINE n == Len(w)
             T == {i \in 0..n : Piece(all, p, acc[i]) /\ cp[i + 1] = p + Len(acc[i])}
  <1>3. /\ n \in Nat /\ \A i \in 0..n : acc[i] \in Seq(S)
        /\ \A i \in 1..n : w[i] \in Seq(S)
    BY <1>2, LenProperties, ElementOfSeq DEF Grows
  <1>5. ASSUME NEW i \in 1..n, i - 1 \in T PROVE i \in T
    <2>1. i - 1 \in 0..n /\ (i - 1) + 1 = i
      BY <1>3
    <2>2. Piece(all, p, acc[i - 1]) /\ cp[i] = p + Len(acc[i - 1])
      BY <1>5, <2>1
    <2>3. acc[i] = acc[i - 1] \o w[i] /\ acc[i - 1] \in Seq(S) /\ w[i] \in Seq(S)
      BY <1>2, <1>3, <2>1 DEF Grows
    <2>4. Piece(all, cp[i], w[i]) /\ cp[i + 1] = cp[i] + Len(w[i])
      BY <1>1
    <2>5. Piece(all, p, acc[i])
      BY <2>2, <2>3, <2>4, PieceJoin
    <2>6. Len(acc[i]) = Len(acc[i - 1]) + Len(w[i]) /\ Len(acc[i - 1]) \in Nat /\ Len(w[i]) \in Nat
      BY <2>3, ConcatProperties, LenProperties
    <2>7. cp[i + 1] = p + Len(acc[i])
      <3>1. \A a, b, c \in Nat : (a + b) + c = a + (b + c)
        OBVIOUS
      <3>2. (p + Len(acc[i - 1])) + Len(w[i]) = p + (Len(acc[i - 1]) + Len(w[i]))
        BY <2>6, <3>1
      <3> HIDE DEF n, T
      <3> QED
        BY <2>2, <2>4, <2>6, <3>2
    <2> QED
      BY <1>3, <2>5, <2>7
  <1>4. 0 \in T
    <2>1. acc[0] = <<>> /\ Len(<<>>) = 0 /\ cp[0 + 1] = p
      BY <1>1, <1>2 DEF Grows
    <2>2. Piece(all, p, <<>>)
      <3>1. n \in Nat \ {0} /\ Len(all) \in Nat
        BY EmptySeq, LenProperties
      <3>2. 1 \in 1..n
        BY <3>1
      <3>3. Piece(all, p, w[1]) /\ Len(w[1]) \in Nat
        BY <1>1, <1>3, <3>2, LenProperties
      <3>4. p + 0 <= Len(all)
        BY <3>1, <3>3 DEF Piece
      <3> QED
        BY <2>1, <3>4 DEF Piece
    <2>3. Piece(all, p, acc[0]) /\ cp[0 + 1] = p + Len(acc[0])
      BY <2>1, <2>2
    <2> QED
      BY <1>3, <2>3
  <1> HIDE DEF T
  <1>6. n \in T
    <2>1. \A i \in 0..n : i \in T
      BY <1>3, <1>4, <1>5, CountUp
    <2> QED
      BY <1>3, <2>1
  <1>7. Piece(all, p, acc[n]) /\ cp[n + 1] = p + Len(acc[n])
    BY <1>6 DEF T
  <1>8. acc[n] \in Seq(S)
    BY <1>3
  <1> QED
    BY <1>1, <1>2, <1>7, <1>8

-----------------------------------------------------------------------------
(* Types.                                                                  *)

LEMMA StreamFacts ==
    /\ 1 \in Streams /\ Streams \subseteq Nat
    /\ Cardinality(Writers) \in Nat /\ Cardinality(Streams) = Cardinality(Writers)
    /\ Streams = 1..Cardinality(Writers)
  <1>1. Cardinality(Writers) \in Nat \ {0}
    BY FramesAssumption, FS_CardinalityType, FS_EmptySet
  <1>2. Cardinality(1..Cardinality(Writers)) = Cardinality(Writers)
    BY <1>1, FS_Interval
  <1> QED
    BY <1>1, <1>2 DEF Streams

LEMMA Numbers ==
    /\ PrefixLen \in Nat \ {0} /\ BufLen \in Nat \ {0} /\ BufLen > PrefixLen
    /\ FrameSizes \subseteq Nat /\ FrameLimit \in Nat
  BY FramesAssumption

LEMMA BytesFacts ==
    ASSUME NEW f \in Frame
    PROVE  /\ f.size \in Nat
           /\ Bytes(f) \in Seq(Byte) /\ Len(Bytes(f)) = PrefixLen + f.size
           /\ \A i \in 1..(PrefixLen + f.size) : Bytes(f)[i] = [frame |-> f, at |-> i]
           /\ Prefix(f) \in Seq(Byte) /\ Len(Prefix(f)) = PrefixLen
           /\ \A i \in 1..PrefixLen : Prefix(f)[i] = [frame |-> f, at |-> i]
           /\ Payload(f) \in Seq(Byte) /\ Len(Payload(f)) = f.size
           /\ \A i \in 1..f.size : Payload(f)[i] = [frame |-> f, at |-> PrefixLen + i]
  <1> USE Numbers
  <1>1. f.size \in Nat
    BY DEF Frame
  <1> DEFINE n == PrefixLen + f.size
             b == Bytes(f)
  <1>2. n \in Nat
    BY <1>1
  <1>3. \A i \in 1..n : [frame |-> f, at |-> i] \in Byte
    BY <1>2 DEF Byte
  <1>4. b \in [1..n -> Byte] /\ \A i \in 1..n : b[i] = [frame |-> f, at |-> i]
    BY <1>3 DEF Bytes
  <1>5. b \in Seq(Byte) /\ Len(b) = n
    <2> HIDE DEF b, n
    <2> QED
      BY <1>2, <1>4
  <1> HIDE DEF b
  <1>6. /\ SubSeq(b, 1, PrefixLen) \in Seq(Byte) /\ Len(SubSeq(b, 1, PrefixLen)) = PrefixLen
        /\ \A i \in 1..PrefixLen : SubSeq(b, 1, PrefixLen)[i] = b[i]
    <2>1. /\ SubSeq(b, 1, PrefixLen) \in Seq(Byte)
          /\ Len(SubSeq(b, 1, PrefixLen)) = PrefixLen - 1 + 1
          /\ \A i \in 1..(PrefixLen - 1 + 1) : SubSeq(b, 1, PrefixLen)[i] = b[1 + i - 1]
      BY <1>1, <1>5, SubSeqFacts
    <2> QED
      BY <2>1
  <1>7. /\ SubSeq(b, PrefixLen + 1, n) \in Seq(Byte) /\ Len(SubSeq(b, PrefixLen + 1, n)) = f.size
        /\ \A i \in 1..f.size : SubSeq(b, PrefixLen + 1, n)[i] = b[PrefixLen + i]
    <2>1. /\ SubSeq(b, PrefixLen + 1, n) \in Seq(Byte)
          /\ Len(SubSeq(b, PrefixLen + 1, n)) = n - (PrefixLen + 1) + 1
          /\ \A i \in 1..(n - (PrefixLen + 1) + 1) :
                SubSeq(b, PrefixLen + 1, n)[i] = b[(PrefixLen + 1) + i - 1]
      BY <1>1, <1>5, SubSeqFacts
    <2> QED
      BY <1>1, <2>1
  <1>8. \A i \in 1..PrefixLen : b[i] = [frame |-> f, at |-> i]
    BY <1>1, <1>4
  <1>9. \A i \in 1..f.size : b[PrefixLen + i] = [frame |-> f, at |-> PrefixLen + i]
    BY <1>1, <1>4
  <1>10. Prefix(f) = SubSeq(b, 1, PrefixLen) /\ Payload(f) = SubSeq(b, PrefixLen + 1, n)
    BY DEF Prefix, Payload, b
  <1>11. Bytes(f) = b
    BY DEF b
  <1> QED
    BY <1>1, <1>4, <1>5, <1>6, <1>7, <1>8, <1>9, <1>10, <1>11

LEMMA WriteType ==
    ASSUME FTypeOK, NEW s \in Streams, NEW bytes \in Seq(Byte), Write(s, bytes)
    PROVE  /\ wbuf' \in [Streams -> Seq(Byte)] /\ \A t \in Streams : Len(wbuf'[t]) <= BufLen
           /\ wire' \in [Streams -> Seq(Seq(Byte))]
  <1> DEFINE all == wbuf[s] \o bytes
             rest == SubSeq(all, BufLen + 1, Len(all))
             front == SubSeq(all, 1, BufLen)
  <1> USE Numbers
  <1>0. /\ wbuf \in [Streams -> Seq(Byte)] /\ \A t \in Streams : Len(wbuf[t]) <= BufLen
        /\ wire \in [Streams -> Seq(Seq(Byte))]
    BY DEF FTypeOK
  <1>1. all \in Seq(Byte) /\ Len(all) \in Nat
    BY <1>0, ConcatProperties, LenProperties
  <1>2. \/ Len(all) <= BufLen /\ wbuf' = [wbuf EXCEPT ![s] = all] /\ wire' = wire
        \/ /\ ~(Len(all) <= BufLen)
           /\ wire' = [wire EXCEPT ![s] = @ \o <<front>>
                                            \o (IF Len(rest) > BufLen THEN <<rest>> ELSE <<>>)]
           /\ wbuf' = [wbuf EXCEPT ![s] = IF Len(rest) > BufLen THEN <<>> ELSE rest]
    BY Zenon DEF Write
  <1> HIDE DEF all
  <1>3. CASE Len(all) <= BufLen /\ wbuf' = [wbuf EXCEPT ![s] = all] /\ wire' = wire
    BY <1>0, <1>1, <1>3
  <1>4. CASE /\ ~(Len(all) <= BufLen)
             /\ wire' = [wire EXCEPT ![s] = @ \o <<front>>
                                              \o (IF Len(rest) > BufLen THEN <<rest>> ELSE <<>>)]
             /\ wbuf' = [wbuf EXCEPT ![s] = IF Len(rest) > BufLen THEN <<>> ELSE rest]
    <2>1. rest \in Seq(Byte) /\ front \in Seq(Byte) /\ Len(rest) \in Nat
      BY <1>1, <1>4, SubSeqFacts, LenProperties
    <2> DEFINE more == IF Len(rest) > BufLen THEN <<rest>> ELSE <<>>
               keep == IF Len(rest) > BufLen THEN <<>> ELSE rest
    <2> HIDE DEF rest, front
    <2>2. <<front>> \in Seq(Seq(Byte)) /\ more \in Seq(Seq(Byte))
      BY <2>1
    <2>3. keep \in Seq(Byte) /\ Len(keep) <= BufLen
      BY <2>1
    <2> HIDE DEF more, keep
    <2>4. (wire[s] \o <<front>>) \o more \in Seq(Seq(Byte))
      BY <1>0, <2>2, ConcatProperties
    <2>5. wbuf' = [wbuf EXCEPT ![s] = keep] /\ wire' = [wire EXCEPT ![s] = (wire[s] \o <<front>>) \o more]
      BY <1>0, <1>4 DEF more, keep
    <2> QED
      BY <1>0, <2>3, <2>4, <2>5
  <1> QED
    BY <1>2, <1>3, <1>4

LEMMA TakenFacts ==
    ASSUME NEW r \in ReaderState
    PROVE  \E n \in Nat :
             /\ n <= r.need /\ n <= Len(r.buf) /\ (n = r.need \/ n = Len(r.buf))
             /\ Taken(r) \in ReaderState
             /\ Taken(r).at = r.at /\ Taken(r).got = r.got /\ Taken(r).need = r.need - n
             /\ Taken(r).have = r.have \o SubSeq(r.buf, 1, n)
             /\ Taken(r).buf = SubSeq(r.buf, n + 1, Len(r.buf))
             /\ Len(Taken(r).have) = Len(r.have) + n /\ Len(Taken(r).buf) = Len(r.buf) - n
  <1> DEFINE n == Min({r.need, Len(r.buf)})
             b == SubSeq(r.buf, n + 1, Len(r.buf))
             h == r.have \o SubSeq(r.buf, 1, n)
  <1>1. r.need \in Nat /\ r.buf \in Seq(Byte) /\ r.have \in Seq(Byte) /\ Len(r.buf) \in Nat
    BY LenProperties DEF ReaderState
  <1>2. n \in Nat /\ n <= r.need /\ n <= Len(r.buf) /\ (n = r.need \/ n = Len(r.buf))
    <2>1. n = IF r.need <= Len(r.buf) THEN r.need ELSE Len(r.buf)
      BY <1>1, MinOfTwo
    <2> QED
      BY <1>1, <2>1
  <1>3. Taken(r) = [r EXCEPT !.buf = b, !.have = h, !.need = r.need - n]
    BY DEF Taken, ReaderState
  <1> HIDE DEF n
  <1>4. /\ b \in Seq(Byte) /\ Len(b) = Len(r.buf) - n
        /\ SubSeq(r.buf, 1, n) \in Seq(Byte) /\ Len(SubSeq(r.buf, 1, n)) = n
    <2>1. SubSeq(r.buf, 1, n) \in Seq(Byte) /\ Len(SubSeq(r.buf, 1, n)) = n - 1 + 1
      BY <1>1, <1>2, SubSeqFacts
    <2>2. b \in Seq(Byte) /\ Len(b) = Len(r.buf) - (n + 1) + 1
      BY <1>1, <1>2, SubSeqFacts
    <2> QED
      BY <1>1, <1>2, <2>1, <2>2
  <1>5. h \in Seq(Byte) /\ Len(h) = Len(r.have) + n
    BY <1>1, <1>4, ConcatProperties
  <1>6. r.need - n \in Nat
    BY <1>1, <1>2
  <1> DEFINE t == [r EXCEPT !.buf = b, !.have = h, !.need = r.need - n]
  <1>7. /\ t.at = r.at /\ t.got = r.got /\ t.need = r.need - n /\ t.have = h /\ t.buf = b
        /\ t \in ReaderState
    <2> HIDE DEF b, h
    <2> QED
      BY <1>4, <1>5, <1>6 DEF ReaderState
  <1> QED
    BY <1>2, <1>3, <1>4, <1>5, <1>7

LEMMA LengthType ==
    ASSUME NEW r \in ReaderState, r.have # <<>>
    PROVE  Length(r) \in ReaderState /\ Length(r).buf = r.buf
  <1>1. r.have[1] \in Byte
    BY EmptySeq, ElementOfSeq DEF ReaderState
  <1>2. r.have[1].frame.size \in Nat
    BY <1>1, Numbers DEF Byte, Frame
  <1>3. <<>> \in Seq(Byte)
    OBVIOUS
  <1> DEFINE f == r.have[1].frame
  <1>4. \/ Length(r) = [r EXCEPT !.at = "lost"]
        \/ Length(r) = [r EXCEPT !.at = "ended"]
        \/ Length(r) = [r EXCEPT !.at = "payload", !.have = <<>>, !.need = f.size]
    BY DEF Length
  <1> HIDE DEF f
  <1>5. f.size \in Nat
    BY <1>2 DEF f
  <1> QED
    BY <1>3, <1>4, <1>5 DEF ReaderState

LEMMA FTypeInit == FInit => FTypeOK
  <1> SUFFICES ASSUME FInit PROVE FTypeOK
    OBVIOUS
  <1> USE StreamFacts, Numbers DEF FInit
  <1>1. opened \in 0..Cardinality(Writers) /\ ctrl \in 0..Cardinality(Writers)
    BY DEF Streams
  <1>2. writer \in [Writers -> WriterState]
    BY DEF WriterState, AtRest
  <1>3. /\ wbuf \in [Streams -> Seq(Byte)] /\ \A s \in Streams : Len(wbuf[s]) <= BufLen
        /\ wire \in [Streams -> Seq(Seq(Byte))] /\ frames \in [Streams -> Seq(Frame)]
    <2>1. Len(<<>>) = 0 /\ <<>> \in Seq(Byte) /\ <<>> \in Seq(Seq(Byte)) /\ <<>> \in Seq(Frame)
      OBVIOUS
    <2> QED
      BY <2>1
  <1>4. reader \in ReaderState /\ Len(reader.buf) <= BufLen
    BY DEF ReaderState
  <1>5. ends \in [{"dialled", "accepted"} -> {"open", "closed"}]
    OBVIOUS
  <1> QED
    BY <1>1, <1>2, <1>3, <1>4, <1>5 DEF FTypeOK

\* Where a writer is says which fields it has.
LEMMA WriterFields ==
    ASSUME FTypeOK, NEW w \in Writers
    PROVE  /\ writer[w] \in WriterState
           /\ writer[w].at \in {"opened", "ready", "prefix", "payload", "flushed"}
                => writer[w].stream \in Streams
           /\ writer[w].at \in {"prefix", "payload", "flushed"} => writer[w].frame \in Frame
           /\ writer[w].at \in {"opened", "ready"}
                => writer[w] = [at |-> writer[w].at, stream |-> writer[w].stream]
           /\ writer[w].at \in {"prefix", "payload", "flushed"}
                => writer[w] = [at |-> writer[w].at, stream |-> writer[w].stream,
                                frame |-> writer[w].frame]
  BY DEF FTypeOK, WriterState

LEMMA TypeWriters ==
    ASSUME FTypeOK, NEW w \in Writers,
           \/ OpenLooks(w) \/ OpenStreamSync(w) \/ CacheStream(w) \/ WrapFails(w) \/ SetBuffers(w)
           \/ SendReturns(w)
    PROVE  FTypeOK'
  <1> USE StreamFacts, Numbers, WriterFields DEF FTypeOK
  <1>0. AtRest \in WriterState /\ [at |-> "none"] \in WriterState
    BY DEF AtRest, WriterState
  <1>1. \A s \in Streams : \A a \in {"opened", "ready"} : [at |-> a, stream |-> s] \in WriterState
    BY DEF WriterState
  <1>2. CASE OpenLooks(w)
    <2>1. ctrl # 0 => ctrl \in Streams
      OBVIOUS
    <2> DEFINE x == IF ctrl = 0 THEN [at |-> "none"] ELSE [at |-> "ready", stream |-> ctrl]
    <2>2. x \in WriterState
      BY <1>0, <1>1, <2>1
    <2> HIDE DEF x
    <2>3. writer' = [writer EXCEPT ![w] = x]
      BY <1>2 DEF OpenLooks, x
    <2> QED
      BY <1>2, <2>2, <2>3 DEF OpenLooks
  <1>3. CASE OpenStreamSync(w)
    <2>1. opened + 1 \in Streams /\ opened' = opened + 1 /\ ctrl' = ctrl
      BY <1>3 DEF OpenStreamSync
    <2>2. [at |-> "opened", stream |-> opened + 1] \in WriterState
      BY <1>1, <2>1
    <2>3. opened' \in 0..Cardinality(Writers) /\ ctrl' \in 0..Cardinality(Writers)
      BY <2>1
    <2> QED
      BY <1>3, <2>2, <2>3 DEF OpenStreamSync
  <1>4. CASE CacheStream(w)
    <2>1. writer[w].at = "opened" /\ writer[w].stream \in Streams
      BY <1>4 DEF CacheStream
    <2>2. [writer[w] EXCEPT !.at = "ready"] \in WriterState
      BY <2>1 DEF WriterState
    <2>3. ctrl' \in 0..Cardinality(Writers)
      BY <1>4, <2>1 DEF CacheStream
    <2> QED
      BY <1>4, <2>2, <2>3 DEF CacheStream
  <1>5. CASE WrapFails(w)
    BY <1>0, <1>5 DEF WrapFails
  <1>6. CASE SetBuffers(w)
    <2>1. [at |-> "ready", stream |-> 1] \in WriterState
      BY <1>1
    <2>2. <<>> \in Seq(Byte) /\ Len(<<>>) = 0
      OBVIOUS
    <2>3. /\ wbuf' \in [Streams -> Seq(Byte)] /\ \A t \in Streams : Len(wbuf'[t]) <= BufLen
      BY <1>6, <2>2 DEF SetBuffers
    <2>4. opened' \in 0..Cardinality(Writers) /\ ctrl' \in 0..Cardinality(Writers)
      BY <1>6 DEF SetBuffers
    <2>5. writer' \in [Writers -> WriterState] /\ reopened' \in BOOLEAN
      BY <1>6, <2>1 DEF SetBuffers
    <2> QED
      BY <1>6, <2>3, <2>4, <2>5 DEF SetBuffers
  <1>7. CASE SendReturns(w)
    BY <1>0, <1>7 DEF SendReturns
  <1> QED
    BY <1>2, <1>3, <1>4, <1>5, <1>6, <1>7

LEMMA TypeSends ==
    ASSUME FTypeOK, NEW w \in Writers,
           \/ \E n \in FrameSizes : SendPrefix(w, n)
           \/ SendPayload(w) \/ Flush(w)
    PROVE  FTypeOK'
  <1> USE StreamFacts, Numbers, WriterFields
  <1>1. ASSUME NEW n \in FrameSizes, SendPrefix(w, n) PROVE FTypeOK'
    <2> DEFINE s == writer[w].stream
               f == [stream |-> s, no |-> Len(frames[s]) + 1, size |-> n]
    <2>1. s \in Streams
      BY <1>1 DEF SendPrefix
    <2>2. frames[s] \in Seq(Frame) /\ frames \in [Streams -> Seq(Frame)]
      BY <2>1 DEF FTypeOK
    <2>3. f \in Frame
      <3>1. Len(frames[s]) \in Nat
        BY <2>2, LenProperties
      <3> QED
        BY <2>1, <3>1 DEF Frame
    <2>4. /\ mu' = [mu EXCEPT ![s] = w] /\ Write(s, Prefix(f))
          /\ frames' = [frames EXCEPT ![s] = Append(frames[s], f)]
          /\ writer' = [writer EXCEPT ![w] = [at |-> "prefix", stream |-> s, frame |-> f]]
      BY <1>1, <2>2 DEF SendPrefix
    <2> HIDE DEF s, f
    <2>5. [at |-> "prefix", stream |-> s, frame |-> f] \in WriterState
      BY <2>1, <2>3 DEF WriterState
    <2>6. Append(frames[s], f) \in Seq(Frame)
      BY <2>2, <2>3, AppendProperties
    <2>7. /\ wbuf' \in [Streams -> Seq(Byte)] /\ \A t \in Streams : Len(wbuf'[t]) <= BufLen
          /\ wire' \in [Streams -> Seq(Seq(Byte))]
      BY <2>1, <2>3, <2>4, BytesFacts, WriteType
    <2>8. frames' \in [Streams -> Seq(Frame)]
      BY <2>1, <2>2, <2>4, <2>6
    <2>9. writer' \in [Writers -> WriterState] /\ mu' \in [Streams -> {"free"} \cup Writers]
      BY <2>1, <2>4, <2>5 DEF FTypeOK
    <2>10. /\ over' = over /\ ends' = ends /\ opened' = opened /\ ctrl' = ctrl /\ reader' = reader
           /\ other' = other /\ reopened' = reopened
      BY <1>1 DEF SendPrefix
    <2> QED
      BY <2>7, <2>8, <2>9, <2>10 DEF FTypeOK
  <1>2. CASE SendPayload(w)
    <2> DEFINE x == writer[w]
    <2>1. x.at = "prefix" /\ x.stream \in Streams /\ x.frame \in Frame
      BY <1>2 DEF SendPayload
    <2>2. Write(x.stream, Payload(x.frame))
      BY <1>2 DEF SendPayload
    <2>3. /\ wbuf' \in [Streams -> Seq(Byte)] /\ \A t \in Streams : Len(wbuf'[t]) <= BufLen
          /\ wire' \in [Streams -> Seq(Seq(Byte))]
      BY <2>1, <2>2, BytesFacts, WriteType
    <2>4. [x EXCEPT !.at = "payload"] \in WriterState
      BY <2>1 DEF WriterState
    <2> QED
      BY <1>2, <2>3, <2>4 DEF FTypeOK, SendPayload
  <1>3. CASE Flush(w)
    <2> DEFINE s == writer[w].stream
    <2>1. writer[w].at = "payload" /\ s \in Streams
      BY <1>3 DEF Flush
    <2>2. [writer[w] EXCEPT !.at = "flushed"] \in WriterState
      BY <2>1 DEF WriterState
    <2>3. wbuf[s] \in Seq(Byte) /\ wire[s] \in Seq(Seq(Byte))
      BY <2>1 DEF FTypeOK
    <2>4. Append(wire[s], wbuf[s]) \in Seq(Seq(Byte))
      BY <2>3, AppendProperties
    <2>5. <<>> \in Seq(Byte) /\ Len(<<>>) = 0
      OBVIOUS
    <2> DEFINE x == IF wbuf[s] = <<>> THEN wire[s] ELSE Append(wire[s], wbuf[s])
    <2>6. x \in Seq(Seq(Byte))
      BY <2>3, <2>4
    <2>7. wire' = [wire EXCEPT ![s] = x] /\ wbuf' = [wbuf EXCEPT ![s] = <<>>]
      BY <1>3, <2>1 DEF Flush, FTypeOK
    <2> HIDE DEF x, s
    <2>8. wire' \in [Streams -> Seq(Seq(Byte))]
      BY <2>1, <2>6, <2>7 DEF FTypeOK
    <2>9. wbuf' \in [Streams -> Seq(Byte)] /\ \A t \in Streams : Len(wbuf'[t]) <= BufLen
      BY <2>1, <2>5, <2>7 DEF FTypeOK
    <2> QED
      BY <1>3, <2>2, <2>8, <2>9 DEF FTypeOK, Flush
  <1> QED
    BY <1>1, <1>2, <1>3

\* A reader that was not opened has nothing, and one that has taken a part of a
\* prefix still needs the rest of it.
Counted ==
    /\ reader.at = "open" => reader.have = <<>> /\ reader.buf = <<>>
    /\ reader.at = "prefix" => Len(reader.have) + reader.need = PrefixLen

LEMMA TypeReader ==
    ASSUME FTypeOK, Counted,
           OpenReader \/ OtherLooks \/ OtherSets \/ Fill \/ RecvPrefix \/ RecvPayload \/ RecvFails
    PROVE  FTypeOK'
  <1> USE StreamFacts, Numbers
  <1>0. reader \in ReaderState /\ Len(reader.buf) <= BufLen
    BY DEF FTypeOK
  <1>1. CASE OpenReader
    <2>1. [reader EXCEPT !.at = "prefix", !.need = PrefixLen] \in ReaderState
      BY <1>0 DEF ReaderState
    <2>2. reader'.buf = reader.buf
      BY <1>0, <1>1 DEF OpenReader, ReaderState
    <2> QED
      BY <1>0, <1>1, <2>1, <2>2 DEF FTypeOK, OpenReader
  <1>2. CASE OtherLooks
    BY <1>2 DEF FTypeOK, OtherLooks
  <1>3. CASE OtherSets
    <2>1. <<>> \in Seq(Byte) /\ Len(<<>>) = 0
      OBVIOUS
    <2>2. [reader EXCEPT !.buf = <<>>] \in ReaderState /\ [reader EXCEPT !.buf = <<>>].buf = <<>>
      BY <1>0, <2>1 DEF ReaderState
    <2>3. reopened' \in BOOLEAN /\ other' = "done"
      BY <1>3 DEF OtherSets
    <2> QED
      BY <1>3, <2>1, <2>2, <2>3 DEF FTypeOK, OtherSets
  <1>4. CASE Fill
    <2>1. wire[1] \in Seq(Seq(Byte)) /\ wire[1] # <<>>
      BY <1>4 DEF FTypeOK, Fill
    <2> DEFINE here  == IF over = "mem" THEN Head(wire[1]) ELSE FlattenSeq(wire[1])
               later == IF over = "mem" THEN Tail(wire[1]) ELSE <<>>
               most  == Min({BufLen, Len(here)})
    <2>2. here \in Seq(Byte) /\ later \in Seq(Seq(Byte))
      <3>1. Head(wire[1]) \in Seq(Byte) /\ Tail(wire[1]) \in Seq(Seq(Byte))
        BY <2>1, HeadTailProperties
      <3>2. FlattenSeq(wire[1]) \in Seq(Byte)
        <4>1. PICK acc : Grows(acc, Byte, wire[1], Len(wire[1])) /\ FlattenSeq(wire[1]) = acc[Len(wire[1])]
          BY <2>1, FlattenGrows
        <4>2. Len(wire[1]) \in 0..Len(wire[1])
          BY <2>1, LenProperties
        <4> QED
          BY <4>1, <4>2 DEF Grows
      <3> QED
        BY <3>1, <3>2
    <2>3. PICK n \in (IF over = "mem" THEN {most} ELSE 1..most) :
            /\ reader' = [reader EXCEPT !.buf = SubSeq(here, 1, n)]
            /\ wire' = [wire EXCEPT ![1] =
                   (IF n < Len(here) THEN <<SubSeq(here, n + 1, Len(here))>> ELSE <<>>) \o later]
      BY <1>4 DEF Fill
    <2> HIDE DEF here, later
    <2>4. Len(here) \in Nat /\ most = IF BufLen <= Len(here) THEN BufLen ELSE Len(here)
      BY <2>2, LenProperties, MinOfTwo
    <2>5. n \in Nat /\ n <= BufLen /\ n <= Len(here)
      BY <2>3, <2>4
    <2>6. SubSeq(here, 1, n) \in Seq(Byte) /\ Len(SubSeq(here, 1, n)) = n - 1 + 1
      BY <2>2, <2>4, <2>5, SubSeqFacts
    <2>7. SubSeq(here, n + 1, Len(here)) \in Seq(Byte)
      BY <2>2, <2>4, <2>5, SubSeqFacts
    <2> DEFINE rest == IF n < Len(here) THEN <<SubSeq(here, n + 1, Len(here))>> ELSE <<>>
    <2>8. rest \in Seq(Seq(Byte))
      BY <2>7
    <2> HIDE DEF rest
    <2>9. rest \o later \in Seq(Seq(Byte))
      BY <2>2, <2>8, ConcatProperties
    <2>10. wire' \in [Streams -> Seq(Seq(Byte))]
      BY <2>3, <2>9 DEF FTypeOK, rest
    <2>11. reader' \in ReaderState /\ Len(reader'.buf) <= BufLen
      <3> DEFINE b == SubSeq(here, 1, n)
      <3>1. b \in Seq(Byte) /\ Len(b) <= BufLen
        BY <2>5, <2>6
      <3>2. reader' = [reader EXCEPT !.buf = b]
        BY <2>3
      <3> HIDE DEF b
      <3> QED
        BY <1>0, <3>1, <3>2 DEF ReaderState
    <2> QED
      BY <1>4, <2>10, <2>11 DEF FTypeOK, Fill
  <1> DEFINE t == Taken(reader)
  <1>5. PICK n \in Nat :
             /\ n <= reader.need /\ n <= Len(reader.buf) /\ (n = reader.need \/ n = Len(reader.buf))
             /\ t \in ReaderState /\ t.need = reader.need - n
             /\ Len(t.have) = Len(reader.have) + n /\ Len(t.buf) = Len(reader.buf) - n
    BY <1>0, TakenFacts
  <1> HIDE DEF t
  <1>6. /\ reader.buf \in Seq(Byte) /\ Len(reader.buf) \in Nat /\ reader.have \in Seq(Byte)
        /\ Len(reader.have) \in Nat /\ reader.need \in Nat
    BY <1>0, LenProperties DEF ReaderState
  <1>7. Len(t.buf) <= BufLen
    BY <1>0, <1>5, <1>6
  <1>8. ASSUME reader' \in ReaderState, Len(reader'.buf) <= BufLen,
               UNCHANGED <<over, ends, opened, ctrl, writer, mu, wbuf, wire, other, reopened, frames>>
        PROVE  FTypeOK'
    BY <1>8 DEF FTypeOK
  <1>9. CASE RecvPrefix
    <2>1. reader.at = "prefix" /\ reader.buf # <<>>
      BY <1>9 DEF RecvPrefix
    <2>2. t.have # <<>>
      <3>1. Len(reader.buf) # 0
        BY <1>6, <2>1, EmptySeq
      <3>2. Len(reader.have) + reader.need = PrefixLen
        BY <2>1 DEF Counted
      <3>3. Len(t.have) # 0
        BY <1>5, <1>6, <3>1, <3>2
      <3>4. Len(<<>>) = 0
        OBVIOUS
      <3> QED
        BY <3>3, <3>4
    <2>3. Length(t) \in ReaderState /\ Length(t).buf = t.buf
      BY <1>5, <2>2, LengthType
    <2>4. reader' = Length(t) \/ reader' = t
      BY <1>9 DEF RecvPrefix, t
    <2>5. UNCHANGED <<over, ends, opened, ctrl, writer, mu, wbuf, wire, other, reopened, frames>>
      BY <1>9 DEF RecvPrefix
    <2>6. reader' \in ReaderState /\ Len(reader'.buf) <= BufLen
      BY <1>5, <1>7, <2>3, <2>4
    <2> QED
      BY <1>8, <2>5, <2>6
  <1>10. CASE RecvPayload
    <2> DEFINE u == [t EXCEPT !.at = "prefix", !.need = PrefixLen, !.have = <<>>,
                              !.got = Append(t.got, t.have)]
    <2>1. t.have \in Seq(Byte) /\ t.got \in Seq(Seq(Byte)) /\ <<>> \in Seq(Byte)
      BY <1>5 DEF ReaderState
    <2>2. Append(t.got, t.have) \in Seq(Seq(Byte))
      BY <2>1, AppendProperties
    <2>3. u \in ReaderState /\ u.buf = t.buf
      BY <1>5, <2>1, <2>2 DEF ReaderState
    <2>4. reader' = t \/ reader' = u
      <3>1. t \in ReaderState
        BY <1>5
      <3> QED
        BY <1>10, <3>1 DEF RecvPayload, t, ReaderState
    <2>5. UNCHANGED <<over, ends, opened, ctrl, writer, mu, wbuf, wire, other, reopened, frames>>
      BY <1>10 DEF RecvPayload
    <2> HIDE DEF u
    <2>6. reader' \in ReaderState /\ Len(reader'.buf) <= BufLen
      BY <1>5, <1>7, <2>3, <2>4
    <2> QED
      BY <1>8, <2>5, <2>6
  <1>11. CASE RecvFails
    <2>1. reader' \in ReaderState /\ reader'.buf = reader.buf
      BY <1>0, <1>11 DEF RecvFails, ReaderState
    <2>2. UNCHANGED <<over, ends, opened, ctrl, writer, mu, wbuf, wire, other, reopened, frames>>
      BY <1>11 DEF RecvFails
    <2> QED
      BY <1>0, <1>8, <2>1, <2>2
  <1> QED
    BY <1>1, <1>2, <1>3, <1>4, <1>9, <1>10, <1>11

LEMMA CountedKept ==
    ASSUME FTypeOK, Counted, [FNext]_fvars
    PROVE  Counted'
  <1> USE Numbers
  <1>0. reader \in ReaderState
    BY DEF FTypeOK
  <1>1. CASE reader' = reader
    BY <1>1 DEF Counted
  <1>2. CASE OpenReader
    <2>1. reader.have = <<>> /\ Len(<<>>) = 0
      BY <1>2 DEF OpenReader, Counted
    <2>2. reader'.at = "prefix" /\ reader'.have = reader.have /\ reader'.need = PrefixLen
      BY <1>0, <1>2 DEF OpenReader, ReaderState
    <2> QED
      BY <2>1, <2>2 DEF Counted
  <1>3. CASE OtherSets
    <2>1. /\ reader'.at = reader.at /\ reader'.have = reader.have /\ reader'.need = reader.need
          /\ reader'.buf = <<>>
      BY <1>0, <1>3 DEF OtherSets, ReaderState
    <2> QED
      BY <2>1 DEF Counted
  <1>4. CASE Fill
    <2>1. PICK b : reader' = [reader EXCEPT !.buf = b]
      BY <1>4 DEF Fill
    <2>2. /\ reader'.at = reader.at /\ reader'.have = reader.have /\ reader'.need = reader.need
          /\ reader.at # "open"
      BY <1>0, <1>4, <2>1 DEF Fill, Reading, ReaderState
    <2> QED
      BY <2>2 DEF Counted
  <1> DEFINE t == Taken(reader)
  <1>5. PICK n \in Nat :
             /\ n <= reader.need /\ t \in ReaderState /\ t.at = reader.at
             /\ t.need = reader.need - n /\ Len(t.have) = Len(reader.have) + n
    BY <1>0, TakenFacts
  <1> HIDE DEF t
  <1>6. Len(reader.have) \in Nat /\ reader.need \in Nat
    BY <1>0, LenProperties DEF ReaderState
  <1>7. CASE RecvPrefix
    <2>1. reader.at = "prefix" /\ Len(reader.have) + reader.need = PrefixLen
      BY <1>7 DEF RecvPrefix, Counted
    <2>2. CASE reader' = t
      <3>1. t.at = "prefix" /\ Len(t.have) + t.need = PrefixLen
        BY <1>5, <1>6, <2>1
      <3> QED
        BY <2>2, <3>1 DEF Counted
    <2>3. CASE reader' = Length(t)
      <3>1. Length(t).at \in {"lost", "ended", "payload"}
        BY <1>5 DEF Length, ReaderState
      <3> QED
        BY <2>3, <3>1 DEF Counted
    <2> QED
      BY <1>7, <2>2, <2>3 DEF RecvPrefix, t
  <1>8. CASE RecvPayload
    <2>1. reader.at = "payload"
      BY <1>8 DEF RecvPayload
    <2> DEFINE u == [t EXCEPT !.at = "prefix", !.need = PrefixLen, !.have = <<>>,
                              !.got = Append(t.got, t.have)]
    <2>2. reader' = t \/ reader' = u
      BY <1>5, <1>8 DEF RecvPayload, t, ReaderState
    <2>3. u.at = "prefix" /\ u.need = PrefixLen /\ u.have = <<>> /\ Len(<<>>) = 0
      BY <1>5 DEF ReaderState
    <2> HIDE DEF u
    <2> QED
      BY <1>5, <2>1, <2>2, <2>3 DEF Counted
  <1>9. CASE RecvFails
    <2>1. reader'.at = "ended"
      BY <1>0, <1>9 DEF RecvFails, ReaderState
    <2> QED
      BY <2>1 DEF Counted
  <1>10. CASE UNCHANGED fvars
    BY <1>1, <1>10 DEF fvars
  <1>11. CASE \E e \in {"dialled", "accepted"} : CloseEnd(e)
    BY <1>1, <1>11 DEF CloseEnd
  <1>12. ASSUME NEW w \in Writers,
                \/ OpenLooks(w) \/ OpenStreamSync(w) \/ CacheStream(w) \/ WrapFails(w) \/ SetBuffers(w)
                \/ \E z \in FrameSizes : SendPrefix(w, z)
                \/ SendPayload(w) \/ Flush(w) \/ SendReturns(w)
         PROVE  Counted'
    BY <1>1, <1>12 DEF OpenLooks, OpenStreamSync, CacheStream, WrapFails, SetBuffers, SendPrefix,
                       SendPayload, Flush, SendReturns
  <1>13. CASE OtherLooks
    BY <1>1, <1>13 DEF OtherLooks
  <1> QED
    BY <1>2, <1>3, <1>4, <1>7, <1>8, <1>9, <1>10, <1>11, <1>12, <1>13 DEF FNext

LEMMA TypeStep == FTypeOK /\ Counted /\ [FNext]_fvars => FTypeOK' /\ Counted'
  <1> SUFFICES ASSUME FTypeOK, Counted, [FNext]_fvars PROVE FTypeOK' /\ Counted'
    OBVIOUS
  <1>1. Counted'
    BY CountedKept
  <1>2. CASE UNCHANGED fvars
    BY <1>1, <1>2 DEF fvars, FTypeOK
  <1>3. CASE \E e \in {"dialled", "accepted"} : CloseEnd(e)
    BY <1>1, <1>3 DEF CloseEnd, FTypeOK
  <1> QED
    BY <1>1, <1>2, <1>3, TypeWriters, TypeSends, TypeReader DEF FNext

\* The buffers of a session never hold more than their size, and readers and
\* writers are where SendBytes and RecvBytes can be.
THEOREM FramesType == FSpec => []FTypeOK
  <1>1. FInit => FTypeOK /\ Counted
    <2>1. FInit => Counted
      BY DEF FInit, Counted
    <2> QED
      BY <2>1, FTypeInit
  <1> QED
    BY <1>1, TypeStep, PTL DEF FSpec

-----------------------------------------------------------------------------
(* The lock of SendBytes, and sessions that were not opened.               *)

Busy == {"prefix", "payload", "flushed"}

\* Who sends on a stream holds its lock, and nobody else does.
Locked ==
    /\ \A w \in Writers : writer[w].at \in Busy => mu[writer[w].stream] = w
    /\ \A s \in Streams : mu[s] # "free" => writer[mu[s]].at \in Busy /\ writer[mu[s]].stream = s

\* Nothing is written before the buffers are made.
Unopened ==
    Lazy /\ ctrl = 0 => wbuf[1] = <<>> /\ \A w \in Writers : writer[w].at \in {"idle", "none"}

\* A writer moves, and takes no lock by that.
LEMMA LockedMove ==
    ASSUME FTypeOK, Locked, NEW w \in Writers, NEW x, writer' = [writer EXCEPT ![w] = x], mu' = mu,
           \/ writer[w].at \notin Busy /\ x.at \notin Busy
           \/ writer[w].at \in Busy /\ x.at \in Busy /\ x.stream = writer[w].stream
    PROVE  Locked'
  <1>1. \A v \in Writers : writer'[v] = IF v = w THEN x ELSE writer[v]
    BY DEF FTypeOK
  <1>2. ASSUME NEW v \in Writers, writer'[v].at \in Busy PROVE mu'[writer'[v].stream] = v
    BY <1>1, <1>2 DEF Locked
  <1>3. ASSUME NEW s \in Streams, mu'[s] # "free"
        PROVE  writer'[mu'[s]].at \in Busy /\ writer'[mu'[s]].stream = s
    <2>1. mu[s] \in Writers /\ writer[mu[s]].at \in Busy /\ writer[mu[s]].stream = s
      BY <1>3 DEF Locked, FTypeOK
    <2> QED
      BY <1>1, <2>1
  <1> QED
    BY <1>2, <1>3 DEF Locked

LEMMA LockedStep ==
    ASSUME FTypeOK, Locked, [FNext]_fvars
    PROVE  Locked'
  <1> USE WriterFields
  <1>1. CASE writer' = writer /\ mu' = mu
    BY <1>1 DEF Locked
  <1>2. ASSUME NEW w \in Writers, OpenLooks(w) PROVE Locked'
    <2> DEFINE x == IF ctrl = 0 THEN [at |-> "none"] ELSE [at |-> "ready", stream |-> ctrl]
    <2>1. x.at \notin Busy /\ writer[w].at \notin Busy
      BY <1>2 DEF OpenLooks, Busy
    <2>2. writer' = [writer EXCEPT ![w] = x] /\ mu' = mu
      BY <1>2 DEF OpenLooks
    <2> HIDE DEF x
    <2> QED
      BY <2>1, <2>2, LockedMove
  <1>3. ASSUME NEW w \in Writers, OpenStreamSync(w) PROVE Locked'
    <2> DEFINE x == [at |-> "opened", stream |-> opened + 1]
    <2>1. x.at \notin Busy /\ writer[w].at \notin Busy
      BY <1>3 DEF OpenStreamSync, Busy
    <2>2. writer' = [writer EXCEPT ![w] = x] /\ mu' = mu
      BY <1>3 DEF OpenStreamSync
    <2> HIDE DEF x
    <2> QED
      BY <2>1, <2>2, LockedMove
  <1>4. ASSUME NEW w \in Writers, CacheStream(w) PROVE Locked'
    <2> DEFINE x == [writer[w] EXCEPT !.at = "ready"]
    <2>1. writer[w].at = "opened" /\ writer' = [writer EXCEPT ![w] = x] /\ mu' = mu
      BY <1>4 DEF CacheStream, FTypeOK
    <2>2. x.at = "ready"
      BY <2>1
    <2>3. x.at \notin Busy /\ writer[w].at \notin Busy
      BY <2>1, <2>2 DEF Busy
    <2> HIDE DEF x
    <2> QED
      BY <2>1, <2>3, LockedMove
  <1>5. ASSUME NEW w \in Writers, WrapFails(w) PROVE Locked'
    <2>1. writer[w].at \notin Busy /\ AtRest.at \notin Busy
      BY <1>5 DEF WrapFails, AtRest, Busy
    <2>2. writer' = [writer EXCEPT ![w] = AtRest] /\ mu' = mu
      BY <1>5 DEF WrapFails
    <2> QED
      BY <2>1, <2>2, LockedMove
  <1>6. ASSUME NEW w \in Writers, SetBuffers(w) PROVE Locked'
    <2> DEFINE x == [at |-> "ready", stream |-> 1]
    <2>1. x.at \notin Busy /\ writer[w].at \notin Busy
      BY <1>6 DEF SetBuffers, Busy
    <2>2. writer' = [writer EXCEPT ![w] = x] /\ mu' = mu
      BY <1>6 DEF SetBuffers
    <2> HIDE DEF x
    <2> QED
      BY <2>1, <2>2, LockedMove
  <1>7. ASSUME NEW w \in Writers, NEW n \in FrameSizes, SendPrefix(w, n) PROVE Locked'
    <2> DEFINE s == writer[w].stream
               f == [stream |-> s, no |-> Len(frames[s]) + 1, size |-> n]
    <2>1. writer[w].at = "ready" /\ s \in Streams /\ mu[s] = "free"
      BY <1>7 DEF SendPrefix
    <2>2. /\ mu' = [mu EXCEPT ![s] = w]
          /\ writer' = [writer EXCEPT ![w] = [at |-> "prefix", stream |-> s, frame |-> f]]
      BY <1>7 DEF SendPrefix
    <2> HIDE DEF s, f
    <2>3. \A v \in Writers : writer'[v] = IF v = w THEN [at |-> "prefix", stream |-> s, frame |-> f]
                                          ELSE writer[v]
      BY <2>2 DEF FTypeOK
    <2>4. \A t \in Streams : mu'[t] = IF t = s THEN w ELSE mu[t]
      BY <2>1, <2>2 DEF FTypeOK
    <2>5. ASSUME NEW v \in Writers, writer'[v].at \in Busy PROVE mu'[writer'[v].stream] = v
      <3>1. CASE v = w
        BY <2>1, <2>3, <2>4, <3>1
      <3>2. CASE v # w
        <4>1. writer[v].at \in Busy /\ writer'[v] = writer[v]
          BY <2>3, <2>5, <3>2
        <4>2. mu[writer[v].stream] = v /\ writer[v].stream \in Streams
          BY <4>1 DEF Locked, Busy
        <4>3. v # "free"
          BY FramesAssumption
        <4>4. writer[v].stream # s
          BY <2>1, <4>2, <4>3
        <4> QED
          BY <2>4, <4>1, <4>2, <4>4
      <3> QED
        BY <3>1, <3>2
    <2>6. ASSUME NEW t \in Streams, mu'[t] # "free"
          PROVE  writer'[mu'[t]].at \in Busy /\ writer'[mu'[t]].stream = t
      <3>1. CASE t = s
        BY <2>1, <2>3, <2>4, <3>1 DEF Busy
      <3>2. CASE t # s
        <4>1. mu'[t] = mu[t] /\ mu[t] \in Writers /\ writer[mu[t]].at \in Busy /\ writer[mu[t]].stream = t
          BY <2>4, <2>6, <3>2 DEF Locked, FTypeOK
        <4>2. mu[t] # w
          BY <2>1, <4>1 DEF Busy
        <4> QED
          BY <2>3, <4>1, <4>2
      <3> QED
        BY <3>1, <3>2
    <2> QED
      BY <2>5, <2>6 DEF Locked
  <1>8. ASSUME NEW w \in Writers, SendPayload(w) \/ Flush(w) PROVE Locked'
    <2>1. PICK a \in {"payload", "flushed"} : writer' = [writer EXCEPT ![w].at = a]
      BY <1>8 DEF SendPayload, Flush
    <2> DEFINE x == [writer[w] EXCEPT !.at = a]
    <2>2. writer[w].at \in {"prefix", "payload"} /\ mu' = mu
      BY <1>8 DEF SendPayload, Flush
    <2>3. writer' = [writer EXCEPT ![w] = x]
      BY <2>1 DEF FTypeOK
    <2>4. x.at = a /\ x.stream = writer[w].stream
      BY <2>2
    <2>5. x.at \in Busy /\ writer[w].at \in Busy
      BY <2>2, <2>4 DEF Busy
    <2> HIDE DEF x
    <2> QED
      BY <2>2, <2>3, <2>4, <2>5, LockedMove
  <1>9. ASSUME NEW w \in Writers, SendReturns(w) PROVE Locked'
    <2>1. /\ mu' = [s \in Streams |-> IF mu[s] = w THEN "free" ELSE mu[s]]
          /\ writer' = [writer EXCEPT ![w] = AtRest]
      BY <1>9 DEF SendReturns
    <2>2. \A v \in Writers : writer'[v] = IF v = w THEN AtRest ELSE writer[v]
      BY <2>1 DEF FTypeOK
    <2>3. AtRest.at \notin Busy
      BY DEF AtRest, Busy
    <2>4. ASSUME NEW v \in Writers, writer'[v].at \in Busy PROVE mu'[writer'[v].stream] = v
      <3>1. v # w /\ writer'[v] = writer[v] /\ writer[v].at \in Busy
        BY <2>2, <2>3, <2>4
      <3>2. mu[writer[v].stream] = v /\ writer[v].stream \in Streams
        BY <3>1 DEF Locked, Busy
      <3> QED
        BY <2>1, <3>1, <3>2
    <2>5. ASSUME NEW s \in Streams, mu'[s] # "free"
          PROVE  writer'[mu'[s]].at \in Busy /\ writer'[mu'[s]].stream = s
      <3>1. mu'[s] = mu[s] /\ mu[s] # w /\ mu[s] # "free"
        BY <2>1, <2>5
      <3>2. mu[s] \in Writers /\ writer[mu[s]].at \in Busy /\ writer[mu[s]].stream = s
        BY <3>1 DEF Locked, FTypeOK
      <3> QED
        BY <2>2, <3>1, <3>2
    <2> QED
      BY <2>4, <2>5 DEF Locked
  <1>10. CASE UNCHANGED fvars
    BY <1>1, <1>10 DEF fvars
  <1>11. CASE \/ \E e \in {"dialled", "accepted"} : CloseEnd(e)
              \/ OpenReader \/ OtherLooks \/ OtherSets \/ Fill \/ RecvPrefix \/ RecvPayload \/ RecvFails
    BY <1>1, <1>11 DEF CloseEnd, OpenReader, OtherLooks, OtherSets, Fill, RecvPrefix, RecvPayload, RecvFails
  <1> QED
    BY <1>2, <1>3, <1>4, <1>5, <1>6, <1>7, <1>8, <1>9, <1>10, <1>11 DEF FNext

LEMMA UnopenedStep ==
    ASSUME FTypeOK, Unopened, [FNext]_fvars
    PROVE  Unopened'
  <1> USE StreamFacts, WriterFields
  <1>1. CASE writer' = writer /\ wbuf' = wbuf /\ over' = over /\ ctrl' = ctrl
    BY <1>1 DEF Unopened, Lazy
  <1>2. ASSUME NEW w \in Writers, OpenLooks(w) PROVE Unopened'
    <2>1. /\ wbuf' = wbuf /\ over' = over /\ ctrl' = ctrl
          /\ writer' = [writer EXCEPT ![w] = IF ctrl = 0 THEN [at |-> "none"]
                                             ELSE [at |-> "ready", stream |-> ctrl]]
      BY <1>2 DEF OpenLooks
    <2> SUFFICES ASSUME Lazy, ctrl = 0 PROVE wbuf[1] = <<>> /\ \A v \in Writers : writer'[v].at \in {"idle", "none"}
      BY <2>1 DEF Unopened, Lazy
    <2>2. writer' = [writer EXCEPT ![w] = [at |-> "none"]]
      BY <2>1
    <2> QED
      BY <2>2 DEF Unopened, FTypeOK
  <1>3. ASSUME NEW w \in Writers, OpenStreamSync(w) PROVE Unopened'
    BY <1>3 DEF OpenStreamSync, Unopened, Lazy
  <1>4. ASSUME NEW w \in Writers, CacheStream(w) PROVE Unopened'
    <2>1. writer[w].stream \in Streams /\ ctrl' = writer[w].stream
      BY <1>4 DEF CacheStream
    <2>2. ctrl' # 0
      BY <2>1
    <2> QED
      BY <2>2 DEF Unopened
  <1>5. ASSUME NEW w \in Writers, WrapFails(w) \/ SendReturns(w) PROVE Unopened'
    <2>1. /\ writer' = [writer EXCEPT ![w] = AtRest] /\ wbuf' = wbuf /\ over' = over /\ ctrl' = ctrl
      BY <1>5 DEF WrapFails, SendReturns
    <2> QED
      BY <2>1 DEF Unopened, FTypeOK, AtRest, Lazy
  <1>6. ASSUME NEW w \in Writers, SetBuffers(w) PROVE Unopened'
    BY <1>6 DEF SetBuffers, Unopened
  <1>7. ASSUME NEW w \in Writers, (\E n \in FrameSizes : SendPrefix(w, n)) \/ SendPayload(w) \/ Flush(w)
        PROVE  Unopened'
    <2>1. writer[w].at \in {"ready", "prefix", "payload"} /\ over' = over /\ ctrl' = ctrl
      BY <1>7 DEF SendPrefix, SendPayload, Flush
    <2> QED
      BY <2>1 DEF Unopened, Lazy
  <1>8. CASE UNCHANGED fvars
    BY <1>1, <1>8 DEF fvars
  <1>9. CASE \/ \E e \in {"dialled", "accepted"} : CloseEnd(e)
             \/ OpenReader \/ OtherLooks \/ OtherSets \/ Fill \/ RecvPrefix \/ RecvPayload \/ RecvFails
    BY <1>1, <1>9 DEF CloseEnd, OpenReader, OtherLooks, OtherSets, Fill, RecvPrefix, RecvPayload, RecvFails
  <1> QED
    BY <1>2, <1>3, <1>4, <1>5, <1>6, <1>7, <1>8, <1>9 DEF FNext

-----------------------------------------------------------------------------
(* Everything that is sent on the stream that is read, as one line: the    *)
(* bytes of the frames F, frame k behind the first st[k].                  *)

Layout(F, all, st) ==
    /\ st \in [1..(Len(F) + 1) -> Nat] /\ st[1] = 0
    /\ all \in Seq(Byte) /\ Len(all) = st[Len(F) + 1]
    /\ \A k \in 1..Len(F) :
          /\ st[k + 1] = st[k] + PrefixLen + F[k].size /\ st[k + 1] <= Len(all)
          /\ \A i \in 1..(PrefixLen + F[k].size) : all[st[k] + i] = [frame |-> F[k], at |-> i]

LEMMA LayoutAppend ==
    ASSUME NEW F \in Seq(Frame), NEW f \in Frame, NEW all, NEW st, Layout(F, all, st)
    PROVE  \E tt : /\ Layout(Append(F, f), all \o Bytes(f), tt)
                   /\ \A k \in 1..(Len(F) + 1) : tt[k] = st[k]
  <1> DEFINE n == Len(F)
             G == Append(F, f)
             b == Bytes(f)
             m == all \o b
  <1>1. /\ n \in Nat /\ G \in Seq(Frame) /\ Len(G) = n + 1 /\ G[n + 1] = f
        /\ \A k \in 1..n : G[k] = F[k]
    BY LenProperties, AppendProperties
  <1>2. /\ b \in Seq(Byte) /\ Len(b) = PrefixLen + f.size /\ f.size \in Nat
        /\ \A i \in 1..(PrefixLen + f.size) : b[i] = [frame |-> f, at |-> i]
    BY BytesFacts
  <1>3. all \in Seq(Byte) /\ Len(all) \in Nat
    BY LenProperties DEF Layout
  <1>4. /\ m \in Seq(Byte) /\ Len(m) = Len(all) + Len(b)
        /\ \A i \in 1..(Len(all) + Len(b)) : m[i] = IF i <= Len(all) THEN all[i] ELSE b[i - Len(all)]
    BY <1>2, <1>3, ConcatProperties
  <1> DEFINE tt == [k \in 1..(n + 2) |-> IF k = n + 2 THEN Len(m) ELSE st[k]]
  <1> HIDE DEF G, b, m
  <1>5. Len(m) = Len(all) + PrefixLen + f.size /\ Len(m) \in Nat
    BY <1>2, <1>3, <1>4, Numbers
  <1>6. /\ tt \in [1..((n + 1) + 1) -> Nat] /\ tt[(n + 1) + 1] = Len(m) /\ tt[n + 1] = Len(all)
        /\ \A k \in 1..(n + 1) : tt[k] = st[k]
    BY <1>1, <1>5 DEF Layout
  <1>7. tt[1] = 0
    BY <1>1, <1>6 DEF Layout
  <1> HIDE DEF tt
  <1>8. ASSUME NEW k \in 1..(n + 1)
        PROVE  /\ tt[k + 1] = tt[k] + PrefixLen + G[k].size /\ tt[k + 1] <= Len(m)
               /\ \A i \in 1..(PrefixLen + G[k].size) : m[tt[k] + i] = [frame |-> G[k], at |-> i]
    <2>1. CASE k = n + 1
      <3>1. G[k] = f /\ tt[k] = Len(all) /\ tt[k + 1] = Len(m)
        BY <1>1, <1>6, <2>1
      <3>2. ASSUME NEW i \in 1..(PrefixLen + f.size) PROVE m[Len(all) + i] = [frame |-> f, at |-> i]
        <4>1. /\ Len(all) + i \in 1..(Len(all) + Len(b)) /\ ~(Len(all) + i <= Len(all))
              /\ (Len(all) + i) - Len(all) = i
          BY <1>2, <1>3, Numbers
        <4>2. m[Len(all) + i] = b[(Len(all) + i) - Len(all)]
          BY <1>4, <4>1
        <4> QED
          BY <1>2, <4>1, <4>2
      <3> QED
        BY <1>5, <3>1, <3>2
    <2>2. CASE k # n + 1
      <3>1. k \in 1..n /\ k + 1 \in 1..(n + 1) /\ k \in 1..(n + 1)
        BY <1>1, <2>2
      <3>2. G[k] = F[k] /\ tt[k] = st[k] /\ tt[k + 1] = st[k + 1]
        BY <1>1, <1>6, <3>1
      <3>3. /\ st[k + 1] = st[k] + PrefixLen + F[k].size /\ st[k + 1] <= Len(all) /\ st[k] \in Nat
            /\ st[k + 1] \in Nat
            /\ \A i \in 1..(PrefixLen + F[k].size) : all[st[k] + i] = [frame |-> F[k], at |-> i]
        BY <3>1 DEF Layout
      <3>4. F[k].size \in Nat
        <4>1. F[k] \in Frame
          BY <3>1, ElementOfSeq
        <4> QED
          BY <4>1, BytesFacts
      <3>5. ASSUME NEW i \in 1..(PrefixLen + F[k].size) PROVE m[st[k] + i] = all[st[k] + i]
        <4>1. st[k] + i \in 1..(Len(all) + Len(b)) /\ st[k] + i <= Len(all)
          <5>1. \A a, c, d, e, j \in Nat : a + c <= d /\ j >= 1 /\ j <= c
                                          => a + j \in 1..(d + e) /\ a + j <= d
            OBVIOUS
          <5>2. PrefixLen + F[k].size \in Nat /\ st[k] + (PrefixLen + F[k].size) <= Len(all)
            <6>1. \A x, y, z \in Nat : y + z \in Nat /\ (x + y) + z = x + (y + z)
              OBVIOUS
            <6>2. PICK x \in Nat, z \in Nat : x = st[k] /\ z = F[k].size
              BY <3>3, <3>4
            <6>3. PrefixLen \in Nat
              BY Numbers
            <6>4. PrefixLen + z \in Nat /\ (x + PrefixLen) + z = x + (PrefixLen + z)
              BY <6>1, <6>3
            <6> QED
              BY <3>3, <6>2, <6>4
          <5>3. i \in Nat /\ i >= 1 /\ i <= PrefixLen + F[k].size /\ Len(b) \in Nat
            BY <1>2, <5>2, Numbers
          <5> QED
            BY <1>3, <3>3, <5>1, <5>2, <5>3
        <4> QED
          BY <1>4, <4>1
      <3>6. st[k + 1] <= Len(m)
        BY <1>2, <1>3, <1>5, <3>3, Numbers
      <3> QED
        BY <3>2, <3>3, <3>5, <3>6
    <2> QED
      BY <2>1, <2>2
  <1>9. Layout(G, m, tt)
    BY <1>1, <1>4, <1>6, <1>7, <1>8 DEF Layout
  <1> QED
    BY <1>6, <1>9 DEF G, b, m

\* The bytes that are behind the start of a frame are its prefix, and then its
\* payload.
LEMMA PrefixThere ==
    ASSUME NEW F \in Seq(Frame), NEW all, NEW st, Layout(F, all, st), NEW k \in 1..Len(F),
           NEW h \in Seq(Byte), Len(h) = PrefixLen, Piece(all, st[k], h)
    PROVE  h = Prefix(F[k])
  <1>1. F[k] \in Frame
    BY ElementOfSeq
  <1>2. /\ Prefix(F[k]) \in Seq(Byte) /\ Len(Prefix(F[k])) = PrefixLen /\ F[k].size \in Nat
        /\ \A i \in 1..PrefixLen : Prefix(F[k])[i] = [frame |-> F[k], at |-> i]
    BY <1>1, BytesFacts
  <1>3. ASSUME NEW i \in 1..PrefixLen PROVE h[i] = Prefix(F[k])[i]
    <2>1. i \in 1..(PrefixLen + F[k].size)
      BY <1>2, Numbers
    <2>2. all[st[k] + i] = [frame |-> F[k], at |-> i]
      BY <2>1 DEF Layout
    <2> QED
      BY <1>2, <2>2 DEF Piece
  <1> QED
    BY <1>2, <1>3, SeqEqual

LEMMA PayloadThere ==
    ASSUME NEW F \in Seq(Frame), NEW all, NEW st, Layout(F, all, st), NEW k \in 1..Len(F),
           NEW h \in Seq(Byte), Len(h) = F[k].size, Piece(all, st[k] + PrefixLen, h)
    PROVE  h = Payload(F[k])
  <1>1. F[k] \in Frame
    BY ElementOfSeq
  <1>2. /\ Payload(F[k]) \in Seq(Byte) /\ Len(Payload(F[k])) = F[k].size /\ F[k].size \in Nat
        /\ \A i \in 1..F[k].size : Payload(F[k])[i] = [frame |-> F[k], at |-> PrefixLen + i]
    BY <1>1, BytesFacts
  <1>3. st[k] \in Nat
    <2>1. Len(F) \in Nat /\ st \in [1..(Len(F) + 1) -> Nat]
      BY LenProperties DEF Layout
    <2>2. k \in 1..(Len(F) + 1)
      BY <2>1
    <2> QED
      BY <2>1, <2>2
  <1>4. ASSUME NEW i \in 1..F[k].size PROVE h[i] = Payload(F[k])[i]
    <2>1. PrefixLen + i \in 1..(PrefixLen + F[k].size) /\ (st[k] + PrefixLen) + i = st[k] + (PrefixLen + i)
      BY <1>2, <1>3, Numbers
    <2>2. all[st[k] + (PrefixLen + i)] = [frame |-> F[k], at |-> PrefixLen + i]
      BY <2>1 DEF Layout
    <2>3. h[i] = all[(st[k] + PrefixLen) + i]
      BY DEF Piece
    <2> QED
      BY <1>2, <2>1, <2>2, <2>3
  <1> QED
    BY <1>2, <1>4, SeqEqual

\* Bytes that follow one another in one frame; a write of them, which has the
\* whole prefix if it has its first byte.
Steady(c) == \A j \in 1..Len(c) : c[j].at = c[1].at + j - 1
Whole(c) == Steady(c) /\ (c # <<>> /\ c[1].at = 1 => Len(c) >= PrefixLen)

LEMMA SteadyParts ==
    ASSUME NEW c \in Seq(Byte), Steady(c), NEW n \in 0..Len(c)
    PROVE  /\ Steady(SubSeq(c, 1, n))
           /\ Steady(SubSeq(c, n + 1, Len(c)))
           /\ n >= 1 => SubSeq(c, 1, n)[1] = c[1]
           /\ n < Len(c) => SubSeq(c, n + 1, Len(c))[1].at = c[1].at + n
           /\ n >= 1 /\ n < Len(c) => SubSeq(c, n + 1, Len(c))[1].at # 1
           /\ n >= 1 => Whole(SubSeq(c, n + 1, Len(c)))
  <1> DEFINE a == SubSeq(c, 1, n)
             b == SubSeq(c, n + 1, Len(c))
  <1>1. Len(c) \in Nat /\ \A i \in 1..Len(c) : c[i].at \in Nat \ {0}
    <2>1. \A i \in 1..Len(c) : c[i] \in Byte
      BY ElementOfSeq
    <2> QED
      BY <2>1, LenProperties DEF Byte
  <1>2. a \in Seq(Byte) /\ Len(a) = n /\ \A i \in 1..n : a[i] = c[i]
    <2>1. a \in Seq(Byte) /\ Len(a) = n - 1 + 1 /\ \A i \in 1..(n - 1 + 1) : a[i] = c[1 + i - 1]
      BY <1>1, SubSeqFacts
    <2> HIDE DEF a
    <2> QED
      BY <1>1, <2>1
  <1>3. b \in Seq(Byte) /\ Len(b) = Len(c) - n /\ \A i \in 1..(Len(c) - n) : b[i] = c[n + i]
    <2>1. /\ b \in Seq(Byte) /\ Len(b) = Len(c) - (n + 1) + 1
          /\ \A i \in 1..(Len(c) - (n + 1) + 1) : b[i] = c[(n + 1) + i - 1]
      BY <1>1, SubSeqFacts
    <2> HIDE DEF b
    <2> QED
      BY <1>1, <2>1
  <1> HIDE DEF a, b
  <1>4. Steady(a)
    <2>1. ASSUME NEW j \in 1..n PROVE a[j].at = a[1].at + j - 1
      <3>1. j \in 1..Len(c) /\ 1 \in 1..n
        BY <1>1
      <3>2. a[j] = c[j] /\ a[1] = c[1] /\ c[j].at = c[1].at + j - 1
        BY <1>2, <3>1 DEF Steady
      <3> QED
        BY <3>2
    <2> QED
      BY <1>2, <2>1 DEF Steady
  <1>5. ASSUME NEW j \in 1..(Len(c) - n) PROVE b[j].at = c[1].at + n + j - 1
    <2>1. n + j \in 1..Len(c) /\ 1 \in 1..Len(c)
      BY <1>1
    <2>2. b[j] = c[n + j] /\ c[n + j].at = c[1].at + (n + j) - 1 /\ c[1].at \in Nat
      BY <1>1, <1>3, <2>1 DEF Steady
    <2>3. \A x \in Nat : x + (n + j) - 1 = x + n + j - 1
      BY <1>1
    <2> QED
      BY <2>2, <2>3
  <1>6. n < Len(c) => b[1].at = c[1].at + n /\ c[1].at \in Nat \ {0}
    <2>1. SUFFICES ASSUME n < Len(c) PROVE b[1].at = c[1].at + n /\ c[1].at \in Nat \ {0}
      OBVIOUS
    <2>2. 1 \in 1..(Len(c) - n) /\ 1 \in 1..Len(c)
      BY <1>1, <2>1
    <2>3. b[1].at = c[1].at + n + 1 - 1 /\ c[1].at \in Nat \ {0}
      BY <1>1, <1>5, <2>2
    <2> QED
      BY <1>1, <2>3
  <1>7. Steady(b)
    <2>1. ASSUME NEW j \in 1..(Len(c) - n) PROVE b[j].at = b[1].at + j - 1
      <3>1. n < Len(c)
        BY <1>1
      <3>2. b[1].at = c[1].at + n
        BY <1>6, <3>1
      <3> QED
        BY <1>5, <3>2
    <2> QED
      BY <1>3, <2>1 DEF Steady
  <1>8. n >= 1 /\ n < Len(c) => b[1].at # 1
    BY <1>1, <1>6
  <1>9. n >= 1 => Whole(b)
    <2>1. b # <<>> => n < Len(c)
      <3>1. b # <<>> => Len(b) # 0
        BY <1>3, EmptySeq
      <3> QED
        BY <1>1, <1>3, <3>1
    <2> QED
      BY <1>7, <1>8, <2>1 DEF Whole
  <1> QED
    BY <1>2, <1>4, <1>6, <1>7, <1>8, <1>9 DEF a, b

LEMMA EmptyWhole == Steady(<<>>) /\ Whole(<<>>)
  BY DEF Steady, Whole

\* Write moves bytes from the buffer to the wire, in order and without loss.
LEMMA WriteMoves ==
    ASSUME FTypeOK, NEW bytes \in Seq(Byte), Write(1, bytes),
           NEW all \in Seq(Byte), NEW p \in Nat, NEW q \in Nat,
           Written(all, p, wire[1], q), Piece(all, q, wbuf[1]), Piece(all, q + Len(wbuf[1]), bytes),
           over = "mem" => /\ \A k \in 1..Len(wire[1]) : Whole(wire[1][k])
                           /\ Whole(wbuf[1] \o bytes)
    PROVE  /\ over = "mem" => /\ \A k \in 1..Len(wire'[1]) : Whole(wire'[1][k])
                              /\ Whole(wbuf'[1])
           /\ \E r \in Nat :
                /\ Written(all, p, wire'[1], r) /\ Piece(all, r, wbuf'[1])
                /\ r + Len(wbuf'[1]) = q + Len(wbuf[1]) + Len(bytes)
  <1> USE Numbers, StreamFacts
  <1> DEFINE c == wbuf[1] \o bytes
             rest == SubSeq(c, BufLen + 1, Len(c))
             front == SubSeq(c, 1, BufLen)
             more == IF Len(rest) > BufLen THEN <<rest>> ELSE <<>>
             keep == IF Len(rest) > BufLen THEN <<>> ELSE rest
  <1>0. /\ wbuf[1] \in Seq(Byte) /\ wire[1] \in Seq(Seq(Byte))
        /\ Len(wbuf[1]) \in Nat /\ Len(bytes) \in Nat /\ Len(wire[1]) \in Nat
    BY LenProperties DEF FTypeOK
  <1>1. c \in Seq(Byte) /\ Len(c) = Len(wbuf[1]) + Len(bytes) /\ Len(c) \in Nat
    BY <1>0, ConcatProperties
  <1>2. Piece(all, q, c)
    BY <1>0, PieceJoin
  <1>3. \/ Len(c) <= BufLen /\ wbuf' = [wbuf EXCEPT ![1] = c] /\ wire' = wire
        \/ /\ ~(Len(c) <= BufLen)
           /\ wire' = [wire EXCEPT ![1] = @ \o <<front>> \o more]
           /\ wbuf' = [wbuf EXCEPT ![1] = keep]
    BY Zenon DEF Write
  <1> HIDE DEF c
  <1>4. over = "mem" => Whole(c)
    BY DEF c
  <1>5. CASE Len(c) <= BufLen /\ wbuf' = [wbuf EXCEPT ![1] = c] /\ wire' = wire
    <2>1. wbuf'[1] = c /\ wire'[1] = wire[1]
      BY <1>5 DEF FTypeOK
    <2>2. q + Len(c) = q + Len(wbuf[1]) + Len(bytes)
      BY <1>0, <1>1
    <2> QED
      BY <1>2, <1>4, <2>1, <2>2
  <1>6. CASE /\ ~(Len(c) <= BufLen)
             /\ wire' = [wire EXCEPT ![1] = @ \o <<front>> \o more]
             /\ wbuf' = [wbuf EXCEPT ![1] = keep]
    <2>1. wire'[1] = (wire[1] \o <<front>>) \o more /\ wbuf'[1] = keep
      <3> HIDE DEF front, more, keep
      <3> QED
        BY <1>6 DEF FTypeOK
    <2>2. BufLen \in 0..Len(c)
      BY <1>1, <1>6
    <2>3. /\ front \in Seq(Byte) /\ rest \in Seq(Byte) /\ Len(front) = BufLen
          /\ Len(rest) = Len(c) - BufLen
          /\ Piece(all, q, front) /\ Piece(all, q + BufLen, rest)
      <3>1. \A m \in 0..Len(c) :
               /\ SubSeq(c, 1, m) \in Seq(Byte) /\ SubSeq(c, m + 1, Len(c)) \in Seq(Byte)
               /\ Len(SubSeq(c, 1, m)) = m /\ Len(SubSeq(c, m + 1, Len(c))) = Len(c) - m
               /\ Piece(all, q, SubSeq(c, 1, m)) /\ Piece(all, q + m, SubSeq(c, m + 1, Len(c)))
        BY <1>1, <1>2, PieceSplit
      <3> QED
        BY <2>2, <3>1
    <2>4. over = "mem" => Whole(front) /\ Whole(rest)
      <3> SUFFICES ASSUME over = "mem" PROVE Whole(front) /\ Whole(rest)
        OBVIOUS
      <3>1. Steady(c)
        BY <1>4 DEF Whole
      <3>2. Steady(front) /\ Whole(rest)
        <4>1. PICK m \in 0..Len(c) : m = BufLen /\ m >= 1
          BY <2>2
        <4>2. Steady(SubSeq(c, 1, m)) /\ Whole(SubSeq(c, m + 1, Len(c)))
          BY <1>1, <3>1, <4>1, SteadyParts
        <4> QED
          BY <4>1, <4>2
      <3> QED
        BY <2>3, <3>2 DEF Whole
    <2> DEFINE w1 == Append(wire[1], front)
    <2> HIDE DEF front, rest
    <2>5. w1 \in Seq(Seq(Byte)) /\ w1 = wire[1] \o <<front>> /\ Written(all, p, w1, q + BufLen)
      <3>1. w1 \in Seq(Seq(Byte)) /\ w1 = wire[1] \o <<front>>
        BY <1>0, <2>3, AppendProperties, AppendIsConcat
      <3>2. Written(all, p, w1, q + Len(front))
        BY <1>0, <2>3, WrittenAppend
      <3> QED
        BY <2>3, <3>1, <3>2
    <2>6. over = "mem" => \A k \in 1..Len(w1) : Whole(w1[k])
      <3>1. /\ Len(w1) = Len(wire[1]) + 1 /\ w1[Len(wire[1]) + 1] = front
            /\ \A k \in 1..Len(wire[1]) : w1[k] = wire[1][k]
        BY <1>0, <2>3, AppendProperties
      <3> HIDE DEF w1
      <3>2. ASSUME over = "mem", NEW k \in 1..Len(w1) PROVE Whole(w1[k])
        <4>1. k \in 1..Len(wire[1]) \/ k = Len(wire[1]) + 1
          BY <1>0, <3>1
        <4> QED
          BY <2>4, <3>1, <3>2, <4>1
      <3> QED
        BY <3>2
    <2> HIDE DEF w1
    <2>7. q + BufLen \in Nat /\ Len(rest) \in Nat
      BY <1>1, <2>2, <2>3
    <2>8. CASE Len(rest) > BufLen
      <3>1. wire'[1] = Append(w1, rest) /\ wbuf'[1] = <<>>
        <4>1. w1 \o <<rest>> = Append(w1, rest)
          BY <2>3, <2>5, AppendIsConcat
        <4> QED
          BY <2>1, <2>5, <2>8, <4>1
      <3>2. Written(all, p, Append(w1, rest), q + BufLen + Len(rest))
        BY <2>3, <2>5, <2>7, WrittenAppend
      <3>3. over = "mem" => \A k \in 1..Len(Append(w1, rest)) : Whole(Append(w1, rest)[k])
        <4> DEFINE w2 == Append(w1, rest)
        <4>1. /\ Len(w2) = Len(w1) + 1 /\ w2[Len(w1) + 1] = rest /\ Len(w1) \in Nat
              /\ \A k \in 1..Len(w1) : w2[k] = w1[k]
          BY <2>3, <2>5, AppendProperties, LenProperties
        <4> HIDE DEF w2
        <4>2. over = "mem" => \A k \in 1..Len(w2) : Whole(w2[k])
          BY <2>4, <2>6, <4>1
        <4> QED
          BY <4>2 DEF w2
      <3>4. Len(<<>>) = 0 /\ q + BufLen + Len(rest) \in Nat
        BY <2>7
      <3>5. Piece(all, q + BufLen + Len(rest), <<>>)
        <4>1. (q + BufLen) + Len(rest) <= Len(all)
          BY <2>3 DEF Piece
        <4>2. q + BufLen + Len(rest) + 0 = (q + BufLen) + Len(rest)
          BY <2>7
        <4> QED
          BY <3>4, <4>1, <4>2 DEF Piece
      <3>6. q + BufLen + Len(rest) + 0 = q + Len(wbuf[1]) + Len(bytes)
        <4>2. q + BufLen + ((Len(wbuf[1]) + Len(bytes)) - BufLen) = q + Len(wbuf[1]) + Len(bytes)
          <5>1. PICK x \in Nat, y \in Nat, z \in Nat : x = Len(wbuf[1]) /\ y = Len(bytes) /\ z = BufLen
            BY <1>0
          <5>2. q + z + ((x + y) - z) = q + x + y
            OBVIOUS
          <5> QED
            BY <5>1, <5>2
        <4>3. q + BufLen + Len(rest) + 0 = q + BufLen + Len(rest)
          BY <2>7
        <4> QED
          BY <1>1, <2>3, <4>2, <4>3
      <3> QED
        BY <3>1, <3>2, <3>3, <3>4, <3>5, <3>6, EmptyWhole
    <2>9. CASE ~(Len(rest) > BufLen)
      <3>1. wire'[1] = w1 /\ wbuf'[1] = rest
        <4>1. w1 \o <<>> = w1
          BY <2>5, ConcatEmptySeq
        <4> QED
          BY <2>1, <2>5, <2>9, <4>1
      <3>2. q + BufLen + Len(rest) = q + Len(wbuf[1]) + Len(bytes)
        <4>2. q + BufLen + ((Len(wbuf[1]) + Len(bytes)) - BufLen) = q + Len(wbuf[1]) + Len(bytes)
          <5>1. PICK x \in Nat, y \in Nat, z \in Nat : x = Len(wbuf[1]) /\ y = Len(bytes) /\ z = BufLen
            BY <1>0
          <5>2. q + z + ((x + y) - z) = q + x + y
            OBVIOUS
          <5> QED
            BY <5>1, <5>2
        <4> QED
          BY <1>1, <2>3, <4>2
      <3> QED
        BY <2>3, <2>4, <2>5, <2>6, <2>7, <3>1, <3>2
    <2> QED
      BY <2>8, <2>9
  <1> QED
    BY <1>3, <1>5, <1>6

-----------------------------------------------------------------------------
(* The invariant: what the reader has, its buffer, the wire and the write  *)
(* buffer are consecutive pieces of the line, up to its end but for what   *)
(* the holder of the lock has still to write.                              *)

Following == reader.at \in {"open", "prefix", "payload"}

\* Where the bytes that the reader has now begin.
Position(st) == st[Len(reader.got) + 1] + (IF reader.at = "payload" THEN PrefixLen ELSE 0)

\* All payloads that were returned.
Returned ==
    /\ Len(reader.got) <= Len(frames[1])
    /\ \A i \in 1..Len(reader.got) : reader.got[i] = Payload(frames[1][i])

\* The reader has taken the length of the frame for what it needs.
Wanted ==
    reader.at = "payload" =>
        /\ Len(reader.got) + 1 <= Len(frames[1])
        /\ Len(reader.have) + reader.need = frames[1][Len(reader.got) + 1].size

Underway(all, st, q) ==
    LET p == Position(st) IN
    /\ Piece(all, p, reader.have)
    /\ Piece(all, p + Len(reader.have), reader.buf)
    /\ Written(all, p + Len(reader.have) + Len(reader.buf), wire[1], q)
    /\ Piece(all, q, wbuf[1])

Sending(all, q) ==
    ~Broken =>
        /\ mu[1] = "free" => wbuf[1] = <<>> /\ q = Len(all)
        /\ mu[1] # "free" =>
             LET x == writer[mu[1]] IN
             /\ x.at = "prefix" => /\ Len(frames[1]) > 0 /\ x.frame = frames[1][Len(frames[1])]
                                   /\ wbuf[1] = Prefix(x.frame)
                                   /\ q + PrefixLen + x.frame.size = Len(all)
             /\ x.at = "payload" => q + Len(wbuf[1]) = Len(all)
             /\ x.at = "flushed" => wbuf[1] = <<>> /\ q = Len(all)

\* On mem's pipe a prefix is never divided.
Undivided ==
    over = "mem" =>
        /\ \A k \in 1..Len(wire[1]) : Whole(wire[1][k])
        /\ Whole(wbuf[1]) /\ Steady(reader.buf)
        /\ reader.at = "prefix" =>
              reader.have = <<>> /\ (reader.buf = <<>> \/ Len(reader.buf) >= PrefixLen)
        /\ reader.at = "payload" /\ reader.buf # <<>> => reader.buf[1].at # 1

StreamOK(all, st, q) ==
    /\ Layout(frames[1], all, st) /\ q \in Nat
    /\ Wanted /\ Underway(all, st, q) /\ Sending(all, q) /\ Undivided

StreamInv ==
    over # "winpipe" /\ ~reopened =>
        /\ Returned /\ reader.at # "lost"
        /\ Following => \E all, st, q : StreamOK(all, st, q)

FramesInv == FTypeOK /\ Counted /\ Locked /\ Unopened /\ StreamInv

LEMMA TypeFacts ==
    ASSUME FTypeOK
    PROVE  /\ frames[1] \in Seq(Frame) /\ Len(frames[1]) \in Nat
           /\ wbuf[1] \in Seq(Byte) /\ Len(wbuf[1]) \in Nat /\ Len(wbuf[1]) <= BufLen
           /\ wire[1] \in Seq(Seq(Byte)) /\ Len(wire[1]) \in Nat
           /\ reader \in ReaderState
           /\ reader.buf \in Seq(Byte) /\ reader.have \in Seq(Byte) /\ reader.need \in Nat
           /\ reader.got \in Seq(Seq(Byte))
           /\ Len(reader.buf) \in Nat /\ Len(reader.have) \in Nat /\ Len(reader.got) \in Nat
  <1>1. /\ frames[1] \in Seq(Frame) /\ wbuf[1] \in Seq(Byte) /\ wire[1] \in Seq(Seq(Byte))
        /\ Len(wbuf[1]) <= BufLen /\ reader \in ReaderState
    BY StreamFacts DEF FTypeOK
  <1>2. /\ reader.buf \in Seq(Byte) /\ reader.have \in Seq(Byte) /\ reader.need \in Nat
        /\ reader.got \in Seq(Seq(Byte))
    BY <1>1 DEF ReaderState
  <1> QED
    BY <1>1, <1>2, LenProperties

\* What does not touch the stream, nor who holds its lock, keeps the invariant.
LEMMA SameStream ==
    ASSUME StreamInv, reader' = reader, frames'[1] = frames[1], wire'[1] = wire[1],
           wbuf'[1] = wbuf[1], over' = over, reopened' = reopened,
           \A all, q : Sending(all, q) => Sending(all, q)'
    PROVE  StreamInv'
  <1> SUFFICES ASSUME over # "winpipe", ~reopened
               PROVE  /\ Returned' /\ reader'.at # "lost"
                      /\ Following' => \E all, st, q : StreamOK(all, st, q)'
    BY DEF StreamInv
  <1>1. Returned' /\ reader'.at # "lost" /\ (Following' <=> Following)
    BY DEF StreamInv, Returned, Following
  <1>2. ASSUME Following PROVE \E all, st, q : StreamOK(all, st, q)'
    <2>1. PICK all, st, q : StreamOK(all, st, q)
      BY <1>2 DEF StreamInv
    <2>2. Sending(all, q)'
      BY <2>1 DEF StreamOK
    <2>3. Wanted' /\ Undivided'
      BY <2>1 DEF StreamOK, Wanted, Undivided
    <2>4. Underway(all, st, q)'
      BY <2>1 DEF StreamOK, Underway, Position
    <2>5. Layout(frames'[1], all, st) /\ q \in Nat
      BY <2>1 DEF StreamOK
    <2>6. StreamOK(all, st, q)'
      BY <2>2, <2>3, <2>4, <2>5 DEF StreamOK
    <2> QED
      BY <2>6
  <1> QED
    BY <1>1, <1>2

LEMMA SameSender ==
    ASSUME NEW all, NEW q, Sending(all, q), ends' = ends, frames'[1] = frames[1],
           wbuf'[1] = wbuf[1], mu'[1] = mu[1], mu[1] # "free" => writer'[mu[1]] = writer[mu[1]]
    PROVE  Sending(all, q)'
  BY DEF Sending, Broken

\* The writers that do not send on the stream.
LEMMA OtherWriters ==
    ASSUME FTypeOK, Locked, Unopened, StreamInv, NEW w \in Writers,
           \/ OpenLooks(w) \/ OpenStreamSync(w) \/ CacheStream(w) \/ WrapFails(w) \/ SetBuffers(w)
    PROVE  StreamInv'
  <1> USE StreamFacts
  <1>1. /\ ends' = ends /\ frames' = frames /\ mu' = mu /\ wire' = wire /\ reader' = reader
        /\ over' = over /\ writer[w].at \notin Busy
        /\ \A v \in Writers \ {w} : writer'[v] = writer[v]
    <2>1. CASE OpenLooks(w)
      BY <2>1 DEF OpenLooks, FTypeOK, Busy
    <2>2. CASE OpenStreamSync(w)
      BY <2>2 DEF OpenStreamSync, FTypeOK, Busy
    <2>3. CASE CacheStream(w)
      BY <2>3 DEF CacheStream, FTypeOK, Busy
    <2>4. CASE WrapFails(w)
      BY <2>4 DEF WrapFails, FTypeOK, Busy
    <2>5. CASE SetBuffers(w)
      BY <2>5 DEF SetBuffers, FTypeOK, Busy
    <2> QED
      BY <2>1, <2>2, <2>3, <2>4, <2>5
  <1>2. mu[1] # "free" => mu[1] \in Writers \ {w}
    BY <1>1 DEF Locked, FTypeOK
  <1>3. CASE reopened'
    BY <1>3 DEF StreamInv
  <1>4. CASE ~reopened'
    <2>1. wbuf'[1] = wbuf[1] /\ reopened' = reopened
      <3>1. CASE SetBuffers(w)
        <4>1. Lazy /\ wbuf' = [wbuf EXCEPT ![1] = <<>>] /\ reopened' = (reopened \/ ctrl # 0)
          BY <3>1 DEF SetBuffers
        <4>2. ctrl = 0 /\ reopened = FALSE /\ reopened' = FALSE
          BY <1>4, <4>1 DEF FTypeOK
        <4>3. wbuf[1] = <<>>
          BY <4>1, <4>2 DEF Unopened
        <4>4. wbuf'[1] = <<>>
          BY <4>1 DEF FTypeOK
        <4> QED
          BY <4>2, <4>3, <4>4
      <3>2. CASE OpenLooks(w) \/ OpenStreamSync(w) \/ CacheStream(w) \/ WrapFails(w)
        BY <3>2 DEF OpenLooks, OpenStreamSync, CacheStream, WrapFails
      <3> QED
        BY <3>1, <3>2
    <2>2. \A all, q : Sending(all, q) => Sending(all, q)'
      BY <1>1, <1>2, <2>1, SameSender
    <2> QED
      BY <1>1, <2>1, <2>2, SameStream
  <1> QED
    BY <1>3, <1>4

LEMMA SendElsewhere ==
    ASSUME FTypeOK, Locked, StreamInv, NEW w \in Writers, writer[w].stream # 1,
           (\E n \in FrameSizes : SendPrefix(w, n)) \/ SendPayload(w) \/ Flush(w)
    PROVE  StreamInv'
  <1> USE StreamFacts
  <1> DEFINE s == writer[w].stream
  <1>0. s \in Streams /\ s # 1
    <2>1. writer[w].at \in {"ready", "prefix", "payload"}
      BY DEF SendPrefix, SendPayload, Flush
    <2> QED
      BY <2>1, WriterFields
  <1>1. mu[1] # "free" => mu[1] \in Writers \ {w}
    BY DEF Locked, FTypeOK
  <1>2. ends' = ends /\ reader' = reader /\ over' = over /\ reopened' = reopened
    BY DEF SendPrefix, SendPayload, Flush
  <1>3. ASSUME NEW bytes, Write(s, bytes) PROVE wire'[1] = wire[1] /\ wbuf'[1] = wbuf[1]
    <2>1. \/ \E x : wbuf' = [wbuf EXCEPT ![s] = x] /\ wire' = wire
          \/ \E x, y : wbuf' = [wbuf EXCEPT ![s] = x] /\ wire' = [wire EXCEPT ![s] = y]
      BY <1>3, Zenon DEF Write
    <2> HIDE DEF s
    <2> QED
      BY <1>0, <2>1 DEF FTypeOK
  <1>4. /\ frames'[1] = frames[1] /\ wire'[1] = wire[1] /\ wbuf'[1] = wbuf[1] /\ mu'[1] = mu[1]
        /\ \A v \in Writers \ {w} : writer'[v] = writer[v]
    <2>1. ASSUME NEW n \in FrameSizes, SendPrefix(w, n)
          PROVE  /\ frames'[1] = frames[1] /\ wire'[1] = wire[1] /\ wbuf'[1] = wbuf[1]
                 /\ mu'[1] = mu[1] /\ \A v \in Writers \ {w} : writer'[v] = writer[v]
      <3> DEFINE f == [stream |-> s, no |-> Len(frames[s]) + 1, size |-> n]
      <3>1. Write(s, Prefix(f))
        BY <2>1 DEF SendPrefix
      <3>2. PICK x, y : /\ frames' = [frames EXCEPT ![s] = x] /\ mu' = [mu EXCEPT ![s] = w]
                        /\ writer' = [writer EXCEPT ![w] = y]
        BY <2>1 DEF SendPrefix
      <3> HIDE DEF s, f
      <3> QED
        BY <1>0, <1>3, <3>1, <3>2 DEF FTypeOK
    <2>2. CASE SendPayload(w)
      <3>1. /\ Write(s, Payload(writer[w].frame)) /\ frames' = frames /\ mu' = mu
            /\ writer' = [writer EXCEPT ![w].at = "payload"]
        BY <2>2 DEF SendPayload
      <3> HIDE DEF s
      <3> QED
        BY <1>3, <3>1 DEF FTypeOK
    <2>3. CASE Flush(w)
      <3>1. PICK x, y : wire' = [wire EXCEPT ![s] = x] /\ wbuf' = [wbuf EXCEPT ![s] = y]
        BY <2>3 DEF Flush
      <3>2. /\ frames' = frames /\ mu' = mu /\ writer' = [writer EXCEPT ![w].at = "flushed"]
        BY <2>3 DEF Flush
      <3> HIDE DEF s
      <3> QED
        BY <1>0, <3>1, <3>2 DEF FTypeOK
    <2> QED
      BY <2>1, <2>2, <2>3
  <1>5. \A all, q : Sending(all, q) => Sending(all, q)'
    BY <1>1, <1>2, <1>4, SameSender
  <1> QED
    BY <1>2, <1>4, <1>5, SameStream

\* The line from where the reader is, for all steps of the writers.
LEMMA PositionFacts ==
    ASSUME FTypeOK, Returned, NEW all, NEW st, NEW q, StreamOK(all, st, q)
    PROVE  /\ all \in Seq(Byte) /\ Len(all) \in Nat /\ q \in Nat
           /\ Len(reader.got) + 1 \in 1..(Len(frames[1]) + 1)
           /\ st[Len(reader.got) + 1] \in Nat /\ Position(st) \in Nat
           /\ Position(st) + Len(reader.have) \in Nat
           /\ Position(st) + Len(reader.have) + Len(reader.buf) \in Nat
  <1>1. Len(reader.got) + 1 \in 1..(Len(frames[1]) + 1)
    BY TypeFacts DEF Returned
  <1>2. all \in Seq(Byte) /\ st \in [1..(Len(frames[1]) + 1) -> Nat] /\ q \in Nat
    BY DEF StreamOK, Layout
  <1>3. st[Len(reader.got) + 1] \in Nat
    BY <1>1, <1>2
  <1>4. Position(st) \in Nat
    BY <1>3, Numbers DEF Position
  <1>5. PICK a \in Nat, b \in Nat, c \in Nat :
           a = Position(st) /\ b = Len(reader.have) /\ c = Len(reader.buf)
    BY <1>4, TypeFacts
  <1>6. a + b \in Nat /\ a + b + c \in Nat
    OBVIOUS
  <1>7. Len(all) \in Nat
    BY <1>2, LenProperties
  <1> QED
    BY <1>1, <1>2, <1>3, <1>4, <1>5, <1>6, <1>7

LEMMA PrefixSent ==
    ASSUME FTypeOK, Locked, StreamInv, NEW w \in Writers, NEW n \in FrameSizes, SendPrefix(w, n),
           writer[w].stream = 1
    PROVE  StreamInv'
  <1> USE StreamFacts, Numbers
  <1>0. PICK f : f = [stream |-> 1, no |-> Len(frames[1]) + 1, size |-> n]
    OBVIOUS
  <1> DEFINE F == frames[1]
             G == Append(F, f)
  <1>1. /\ ~Broken /\ mu[1] = "free" /\ mu' = [mu EXCEPT ![1] = w]
        /\ Write(1, Prefix(f)) /\ frames' = [frames EXCEPT ![1] = G]
        /\ writer' = [writer EXCEPT ![w] = [at |-> "prefix", stream |-> 1, frame |-> f]]
        /\ over' = over /\ ends' = ends /\ reader' = reader /\ reopened' = reopened
    BY <1>0 DEF SendPrefix, FTypeOK
  <1>2. f \in Frame
    BY <1>0, TypeFacts DEF Frame
  <1>3. /\ F \in Seq(Frame) /\ Len(F) \in Nat /\ frames'[1] = G
        /\ G \in Seq(Frame) /\ Len(G) = Len(F) + 1 /\ G[Len(F) + 1] = f
        /\ \A k \in 1..Len(F) : G[k] = F[k]
    <2>1. frames'[1] = G
      BY <1>1 DEF FTypeOK
    <2> QED
      BY <1>2, <2>1, TypeFacts, AppendProperties
  <1>4. /\ Prefix(f) \in Seq(Byte) /\ Len(Prefix(f)) = PrefixLen /\ f.size \in Nat
        /\ Bytes(f) \in Seq(Byte) /\ Len(Bytes(f)) = PrefixLen + f.size
        /\ \A i \in 1..PrefixLen : Prefix(f)[i] = [frame |-> f, at |-> i]
        /\ \A i \in 1..(PrefixLen + f.size) : Bytes(f)[i] = [frame |-> f, at |-> i]
    BY <1>2, BytesFacts
  <1> HIDE DEF F, G
  <1> SUFFICES ASSUME over # "winpipe", ~reopened
               PROVE  /\ Returned' /\ reader'.at # "lost"
                      /\ Following' => \E all, st, q : StreamOK(all, st, q)'
    BY <1>1 DEF StreamInv
  <1>5. Returned /\ reader.at # "lost" /\ Len(reader.got) \in Nat /\ frames[1] = F
    BY TypeFacts DEF StreamInv, F
  <1>6. Returned' /\ reader'.at # "lost"
    <2>1. Len(reader.got) <= Len(G)
      BY <1>3, <1>5 DEF Returned
    <2>2. \A i \in 1..Len(reader.got) : reader.got[i] = Payload(G[i])
      <3>1. \A i \in 1..Len(reader.got) : i \in 1..Len(F)
        BY <1>3, <1>5 DEF Returned
      <3> QED
        BY <1>3, <1>5, <3>1 DEF Returned
    <2> QED
      BY <1>1, <1>3, <1>5, <2>1, <2>2 DEF Returned
  <1>7. ASSUME Following PROVE \E all, st, q : StreamOK(all, st, q)'
    <2>1. PICK all, st, q : StreamOK(all, st, q)
      BY <1>7 DEF StreamInv
    <2>2. /\ all \in Seq(Byte) /\ Len(all) \in Nat /\ q \in Nat /\ Position(st) \in Nat
          /\ Len(reader.got) + 1 \in 1..(Len(F) + 1)
          /\ Position(st) + Len(reader.have) \in Nat
      BY <1>5, <2>1, PositionFacts
    <2>3. wbuf[1] = <<>> /\ q = Len(all)
      BY <1>1, <2>1 DEF StreamOK, Sending
    <2> DEFINE m == all \o Bytes(f)
    <2>4. PICK tt : Layout(G, m, tt) /\ \A k \in 1..(Len(F) + 1) : tt[k] = st[k]
      BY <1>2, <1>3, <1>5, <2>1, LayoutAppend DEF StreamOK, G
    <2>5. /\ m \in Seq(Byte) /\ Len(m) = Len(all) + (PrefixLen + f.size)
          /\ \A i \in 1..(Len(all) + (PrefixLen + f.size)) :
                m[i] = IF i <= Len(all) THEN all[i] ELSE Bytes(f)[i - Len(all)]
      <3>1. /\ m \in Seq(Byte) /\ Len(m) = Len(all) + Len(Bytes(f))
            /\ \A i \in 1..(Len(all) + Len(Bytes(f))) :
                  m[i] = IF i <= Len(all) THEN all[i] ELSE Bytes(f)[i - Len(all)]
        BY <1>4, <2>2, ConcatProperties
      <3> QED
        BY <1>4, <3>1
    <2>6. wbuf'[1] = Prefix(f) /\ wire'[1] = wire[1]
      <3>1. wbuf[1] \o Prefix(f) = Prefix(f)
        BY <1>4, <2>3, ConcatEmptySeq
      <3>2. Len(wbuf[1] \o Prefix(f)) <= BufLen
        BY <1>4, <3>1
      <3>3. wbuf' = [wbuf EXCEPT ![1] = wbuf[1] \o Prefix(f)] /\ wire' = wire
        BY <1>1, <3>2 DEF Write
      <3> QED
        BY <3>1, <3>3 DEF FTypeOK
    <2>7. Position(tt)' = Position(st)
      BY <1>1, <2>2, <2>4 DEF Position
    <2>8. Underway(m, tt, q)'
      <3>1. /\ Piece(all, Position(st), reader.have)
            /\ Piece(all, Position(st) + Len(reader.have), reader.buf)
            /\ Written(all, Position(st) + Len(reader.have) + Len(reader.buf), wire[1], q)
        BY <2>1 DEF StreamOK, Underway
      <3>2. /\ Piece(m, Position(st), reader.have)
            /\ Piece(m, Position(st) + Len(reader.have), reader.buf)
            /\ Written(m, Position(st) + Len(reader.have) + Len(reader.buf), wire[1], q)
        BY <1>4, <2>2, <3>1, TypeFacts, PieceGrows, WrittenGrow
      <3>3. Piece(m, q, Prefix(f))
        <4>1. ASSUME NEW i \in 1..PrefixLen PROVE Prefix(f)[i] = m[q + i]
          <5>1. PICK a \in Nat, z \in Nat : a = Len(all) /\ z = f.size
            BY <1>4, <2>2
          <5>2. /\ a + i \in 1..(a + (PrefixLen + z)) /\ ~(a + i <= a)
                /\ (a + i) - a = i /\ i \in 1..(PrefixLen + z)
            OBVIOUS
          <5>3. m[a + i] = Bytes(f)[(a + i) - a]
            BY <2>5, <5>1, <5>2
          <5>4. Bytes(f)[i] = [frame |-> f, at |-> i] /\ Prefix(f)[i] = [frame |-> f, at |-> i]
            BY <1>4, <5>1, <5>2
          <5>5. m[q + i] = Bytes(f)[i]
            BY <2>3, <5>1, <5>2, <5>3
          <5> QED
            BY <5>4, <5>5
        <4>2. q + PrefixLen <= Len(m)
          BY <1>4, <2>2, <2>3, <2>5
        <4> QED
          BY <1>4, <4>1, <4>2 DEF Piece
      <3> QED
        BY <1>1, <2>6, <2>7, <3>2, <3>3 DEF Underway
    <2>9. Wanted'
      <3>1. Len(reader.got) + 1 <= Len(F) => G[Len(reader.got) + 1] = F[Len(reader.got) + 1]
        BY <1>3, <2>2
      <3>2. Len(reader.got) + 1 <= Len(F) => Len(reader.got) + 1 <= Len(G)
        BY <1>3, <1>5
      <3> QED
        BY <1>1, <1>3, <1>5, <2>1, <3>1, <3>2 DEF StreamOK, Wanted
    <2>10. Sending(m, q)'
      <3>1. mu'[1] = w /\ w # "free"
        BY <1>1, FramesAssumption DEF FTypeOK
      <3>2. writer'[w] = [at |-> "prefix", stream |-> 1, frame |-> f]
        BY <1>1 DEF FTypeOK
      <3>3. q + PrefixLen + f.size = Len(m)
        BY <1>4, <2>2, <2>3, <2>5
      <3>4. Len(G) > 0 /\ G[Len(G)] = f
        BY <1>3
      <3>5. /\ writer'[mu'[1]].at = "prefix" /\ writer'[mu'[1]].frame = f
        BY <3>1, <3>2
      <3> QED
        BY <1>3, <2>6, <3>3, <3>4, <3>5, <3>1 DEF Sending
    <2>11. Undivided'
      <3>1. Whole(Prefix(f))
        <4>1. 1 \in 1..PrefixLen /\ Prefix(f)[1].at = 1
          BY <1>4
        <4>2. \A j \in 1..PrefixLen : Prefix(f)[j].at = 1 + j - 1
          BY <1>4
        <4> QED
          BY <1>4, <4>1, <4>2 DEF Whole, Steady
      <3> QED
        BY <1>1, <2>1, <2>6, <3>1 DEF StreamOK, Undivided
    <2> HIDE DEF m
    <2>12. StreamOK(m, tt, q)'
      BY <1>3, <2>2, <2>4, <2>8, <2>9, <2>10, <2>11 DEF StreamOK
    <2> QED
      BY <2>12
  <1> QED
    BY <1>1, <1>6, <1>7 DEF Following

LEMMA PayloadSent ==
    ASSUME FTypeOK, Locked, StreamInv, NEW w \in Writers, SendPayload(w), writer[w].stream = 1
    PROVE  StreamInv'
  <1> USE StreamFacts, Numbers
  <1>0. PICK f : f = writer[w].frame
    OBVIOUS
  <1> DEFINE F == frames[1]
  <1>1. /\ ~Broken /\ writer[w].at = "prefix" /\ f \in Frame
        /\ Write(1, Payload(f)) /\ writer' = [writer EXCEPT ![w].at = "payload"]
        /\ over' = over /\ ends' = ends /\ reader' = reader /\ reopened' = reopened
        /\ frames' = frames /\ mu' = mu
    BY <1>0, WriterFields DEF SendPayload
  <1>2. mu[1] = w /\ w # "free"
    BY <1>1, FramesAssumption DEF Locked, Busy
  <1> SUFFICES ASSUME over # "winpipe", ~reopened
               PROVE  /\ Returned' /\ reader'.at # "lost"
                      /\ Following' => \E all, st, q : StreamOK(all, st, q)'
    BY <1>1 DEF StreamInv
  <1>3. Returned /\ Returned' /\ reader'.at # "lost" /\ (Following' => Following)
    BY <1>1 DEF StreamInv, Returned, Following
  <1>4. ASSUME Following PROVE \E all, st, q : StreamOK(all, st, q)'
    <2>1. PICK all, st, q : StreamOK(all, st, q)
      BY <1>4 DEF StreamInv
    <2>2. /\ all \in Seq(Byte) /\ Len(all) \in Nat /\ q \in Nat
          /\ Position(st) + Len(reader.have) + Len(reader.buf) \in Nat
      BY <1>3, <2>1, PositionFacts
    <2>3. /\ Len(F) > 0 /\ f = F[Len(F)] /\ wbuf[1] = Prefix(f) /\ q + PrefixLen + f.size = Len(all)
      BY <1>0, <1>1, <1>2, <2>1 DEF StreamOK, Sending
    <2>4. F \in Seq(Frame) /\ Len(F) \in Nat /\ Layout(F, all, st)
      BY <2>1, TypeFacts DEF StreamOK
    <2> HIDE DEF F
    <2>5. /\ Payload(f) \in Seq(Byte) /\ Len(Payload(f)) = f.size /\ f.size \in Nat
          /\ \A i \in 1..f.size : Payload(f)[i] = [frame |-> f, at |-> PrefixLen + i]
          /\ Prefix(f) \in Seq(Byte) /\ Len(Prefix(f)) = PrefixLen
          /\ \A i \in 1..PrefixLen : Prefix(f)[i] = [frame |-> f, at |-> i]
      BY <1>1, BytesFacts
    <2>6. q = st[Len(F)]
      <3>1. Len(F) \in 1..Len(F) /\ Len(F) \in 1..(Len(F) + 1)
        BY <2>3, <2>4
      <3>2. st[Len(F)] \in Nat /\ Len(all) = st[Len(F)] + PrefixLen + f.size
        BY <2>3, <2>4, <3>1 DEF Layout
      <3> QED
        BY <2>2, <2>3, <2>5, <3>2
    <2>7. Piece(all, q + PrefixLen, Payload(f))
      <3>1. ASSUME NEW i \in 1..f.size PROVE Payload(f)[i] = all[(q + PrefixLen) + i]
        <4>1. PrefixLen + i \in 1..(PrefixLen + f.size) /\ (q + PrefixLen) + i = q + (PrefixLen + i)
          BY <2>2, <2>5
        <4>2. Len(F) \in 1..Len(F)
          BY <2>3, <2>4
        <4>3. all[st[Len(F)] + (PrefixLen + i)] = [frame |-> f, at |-> PrefixLen + i]
          BY <2>3, <2>4, <4>1, <4>2 DEF Layout
        <4> QED
          BY <2>5, <2>6, <4>1, <4>3
      <3> QED
        BY <2>2, <2>3, <2>5, <3>1 DEF Piece
    <2>8. Whole(wbuf[1] \o Payload(f))
      <3> DEFINE c == Prefix(f) \o Payload(f)
      <3>1. /\ c \in Seq(Byte) /\ Len(c) = PrefixLen + f.size
            /\ \A i \in 1..(PrefixLen + f.size) :
                  c[i] = IF i <= PrefixLen THEN Prefix(f)[i] ELSE Payload(f)[i - PrefixLen]
        <4>1. /\ c \in Seq(Byte) /\ Len(c) = Len(Prefix(f)) + Len(Payload(f))
              /\ \A i \in 1..(Len(Prefix(f)) + Len(Payload(f))) :
                    c[i] = IF i <= Len(Prefix(f)) THEN Prefix(f)[i] ELSE Payload(f)[i - Len(Prefix(f))]
          BY <2>5, ConcatProperties
        <4> QED
          BY <2>5, <4>1
      <3> HIDE DEF c
      <3>2. ASSUME NEW i \in 1..(PrefixLen + f.size) PROVE c[i].at = i
        <4>1. CASE i <= PrefixLen
          <5>1. c[i] = Prefix(f)[i] /\ i \in 1..PrefixLen
            BY <3>1, <4>1
          <5>2. Prefix(f)[i] = [frame |-> f, at |-> i]
            BY <2>5, <5>1
          <5> QED
            BY <5>1, <5>2
        <4>2. CASE ~(i <= PrefixLen)
          <5>1. i - PrefixLen \in 1..f.size /\ PrefixLen + (i - PrefixLen) = i
            BY <2>5, <4>2
          <5>2. c[i] = Payload(f)[i - PrefixLen]
            BY <3>1, <4>2
          <5>3. Payload(f)[i - PrefixLen] = [frame |-> f, at |-> PrefixLen + (i - PrefixLen)]
            BY <2>5, <5>1
          <5> QED
            BY <5>1, <5>2, <5>3
        <4> QED
          BY <4>1, <4>2
      <3>3. 1 \in 1..(PrefixLen + f.size) /\ PrefixLen + f.size >= PrefixLen
        BY <2>5
      <3>4. \A j \in 1..(PrefixLen + f.size) : c[j].at = c[1].at + j - 1
        BY <2>5, <3>2, <3>3
      <3> QED
        BY <2>3, <3>1, <3>3, <3>4 DEF Whole, Steady, c
    <2> DEFINE p == Position(st) + Len(reader.have) + Len(reader.buf)
    <2>9. /\ Piece(all, Position(st), reader.have)
          /\ Piece(all, Position(st) + Len(reader.have), reader.buf)
          /\ Written(all, p, wire[1], q) /\ Piece(all, q, wbuf[1])
      BY <2>1 DEF StreamOK, Underway
    <2>10. over = "mem" => \A k \in 1..Len(wire[1]) : Whole(wire[1][k])
      BY <2>1 DEF StreamOK, Undivided
    <2> HIDE DEF p
    <2>11. /\ over = "mem" => /\ \A k \in 1..Len(wire'[1]) : Whole(wire'[1][k])
                              /\ Whole(wbuf'[1])
           /\ \E r \in Nat :
                /\ Written(all, p, wire'[1], r) /\ Piece(all, r, wbuf'[1])
                /\ r + Len(wbuf'[1]) = q + Len(wbuf[1]) + Len(Payload(f))
      <3>1. Write(1, Payload(f)) /\ p \in Nat
        BY <1>1, <2>2 DEF p
      <3>2. Piece(all, q + Len(wbuf[1]), Payload(f))
        BY <2>3, <2>5, <2>7
      <3>3. over = "mem" => /\ \A k \in 1..Len(wire[1]) : Whole(wire[1][k])
                            /\ Whole(wbuf[1] \o Payload(f))
        BY <2>8, <2>10
      <3>4. Payload(f) \in Seq(Byte)
        BY <2>5
      <3> QED
        BY <2>2, <2>9, <3>1, <3>2, <3>3, <3>4, WriteMoves
    <2>12. PICK r \in Nat :
                /\ Written(all, p, wire'[1], r) /\ Piece(all, r, wbuf'[1])
                /\ r + Len(wbuf'[1]) = q + Len(wbuf[1]) + Len(Payload(f))
      BY <2>11
    <2>13. Underway(all, st, r)'
      BY <1>1, <2>9, <2>12 DEF Underway, Position, p
    <2>14. Sending(all, r)'
      <3>1. writer'[mu'[1]].at = "payload"
        BY <1>1, <1>2 DEF FTypeOK
      <3>2. r + Len(wbuf'[1]) = Len(all)
        BY <2>3, <2>5, <2>12
      <3> QED
        BY <1>1, <1>2, <3>1, <3>2 DEF Sending
    <2>15. Undivided'
      BY <1>1, <2>1, <2>11 DEF StreamOK, Undivided
    <2>16. Wanted' /\ Layout(frames'[1], all, st)
      BY <1>1, <2>1 DEF StreamOK, Wanted
    <2>17. StreamOK(all, st, r)'
      BY <2>13, <2>14, <2>15, <2>16 DEF StreamOK
    <2> QED
      BY <2>17
  <1> QED
    BY <1>3, <1>4

LEMMA FrameFlushed ==
    ASSUME FTypeOK, Locked, StreamInv, NEW w \in Writers, Flush(w), writer[w].stream = 1
    PROVE  StreamInv'
  <1> USE StreamFacts, Numbers
  <1>1. /\ ~Broken /\ writer[w].at = "payload"
        /\ writer' = [writer EXCEPT ![w].at = "flushed"]
        /\ over' = over /\ ends' = ends /\ reader' = reader /\ reopened' = reopened
        /\ frames' = frames /\ mu' = mu
    BY DEF Flush
  <1>2. mu[1] = w /\ w # "free"
    BY <1>1, FramesAssumption DEF Locked, Busy
  <1>3. wbuf'[1] = <<>> /\ wire'[1] = IF wbuf[1] = <<>> THEN wire[1] ELSE Append(wire[1], wbuf[1])
    BY DEF Flush, FTypeOK
  <1> SUFFICES ASSUME over # "winpipe", ~reopened
               PROVE  /\ Returned' /\ reader'.at # "lost"
                      /\ Following' => \E all, st, q : StreamOK(all, st, q)'
    BY <1>1 DEF StreamInv
  <1>4. Returned /\ Returned' /\ reader'.at # "lost" /\ (Following' => Following)
    BY <1>1 DEF StreamInv, Returned, Following
  <1>5. ASSUME Following PROVE \E all, st, q : StreamOK(all, st, q)'
    <2>1. PICK all, st, q : StreamOK(all, st, q)
      BY <1>5 DEF StreamInv
    <2>2. all \in Seq(Byte) /\ Len(all) \in Nat /\ q \in Nat
      BY <1>4, <2>1, PositionFacts
    <2>3. q + Len(wbuf[1]) = Len(all)
      BY <1>1, <1>2, <2>1 DEF StreamOK, Sending
    <2> DEFINE p == Position(st) + Len(reader.have) + Len(reader.buf)
    <2>4. /\ Piece(all, Position(st), reader.have)
          /\ Piece(all, Position(st) + Len(reader.have), reader.buf)
          /\ Written(all, p, wire[1], q) /\ Piece(all, q, wbuf[1])
      BY <2>1 DEF StreamOK, Underway
    <2> HIDE DEF p
    <2>5. PICK r \in Nat : r = Len(all)
      BY <2>2
    <2>6. Written(all, p, wire'[1], r)
      <3>1. CASE wbuf[1] = <<>>
        <4>1. q = Len(all)
          BY <2>2, <2>3, <3>1
        <4> QED
          BY <1>3, <2>4, <2>5, <3>1, <4>1
      <3>2. CASE wbuf[1] # <<>>
        <4>1. Written(all, p, Append(wire[1], wbuf[1]), q + Len(wbuf[1]))
          BY <2>2, <2>4, TypeFacts, WrittenAppend
        <4> QED
          BY <1>3, <2>3, <2>5, <3>2, <4>1
      <3> QED
        BY <3>1, <3>2
    <2>7. Piece(all, r, <<>>)
      BY <2>2, <2>5 DEF Piece
    <2>8. Underway(all, st, r)'
      BY <1>1, <1>3, <2>4, <2>6, <2>7 DEF Underway, Position, p
    <2>9. Sending(all, r)'
      <3>1. writer'[mu'[1]].at = "flushed"
        BY <1>1, <1>2 DEF FTypeOK
      <3> QED
        BY <1>1, <1>2, <1>3, <2>5, <3>1 DEF Sending
    <2>10. Undivided'
      <3> SUFFICES ASSUME over = "mem" PROVE Undivided'
        BY <1>1 DEF Undivided
      <3>1. /\ \A k \in 1..Len(wire[1]) : Whole(wire[1][k])
            /\ Whole(wbuf[1]) /\ Steady(reader.buf)
            /\ reader.at = "prefix" =>
                  reader.have = <<>> /\ (reader.buf = <<>> \/ Len(reader.buf) >= PrefixLen)
            /\ reader.at = "payload" /\ reader.buf # <<>> => reader.buf[1].at # 1
        BY <2>1 DEF StreamOK, Undivided
      <3>2. \A k \in 1..Len(wire'[1]) : Whole(wire'[1][k])
        <4> DEFINE v == Append(wire[1], wbuf[1])
        <4>1. /\ Len(v) = Len(wire[1]) + 1 /\ v[Len(wire[1]) + 1] = wbuf[1]
              /\ \A k \in 1..Len(wire[1]) : v[k] = wire[1][k]
          BY TypeFacts, AppendProperties
        <4>2. Len(wire[1]) \in Nat
          BY TypeFacts
        <4> HIDE DEF v
        <4>3. ASSUME NEW k \in 1..Len(v) PROVE Whole(v[k])
          <5>1. k \in 1..Len(wire[1]) \/ k = Len(wire[1]) + 1
            BY <4>1, <4>2
          <5> QED
            BY <3>1, <4>1, <5>1
        <4>4. wire'[1] = wire[1] \/ wire'[1] = v
          BY <1>3 DEF v
        <4> QED
          BY <3>1, <4>3, <4>4
      <3> QED
        BY <1>1, <1>3, <3>1, <3>2, EmptyWhole DEF Undivided
    <2>11. Wanted' /\ Layout(frames'[1], all, st)
      BY <1>1, <2>1 DEF StreamOK, Wanted
    <2>12. StreamOK(all, st, r)'
      BY <2>8, <2>9, <2>10, <2>11 DEF StreamOK
    <2> QED
      BY <2>12
  <1> QED
    BY <1>4, <1>5

LEMMA SendEnds ==
    ASSUME FTypeOK, Locked, StreamInv, NEW w \in Writers, SendReturns(w)
    PROVE  StreamInv'
  <1> USE StreamFacts
  <1>1. /\ frames' = frames /\ wire' = wire /\ wbuf' = wbuf /\ ends' = ends /\ reader' = reader
        /\ over' = over /\ reopened' = reopened
        /\ mu'[1] = IF mu[1] = w THEN "free" ELSE mu[1]
        /\ \A v \in Writers \ {w} : writer'[v] = writer[v]
    BY DEF SendReturns, FTypeOK
  <1>2. ASSUME NEW all, NEW q, Sending(all, q) PROVE Sending(all, q)'
    <2>1. CASE mu[1] = w
      <3>1. w # "free"
        BY FramesAssumption
      <3>2. CASE Broken
        BY <1>1, <3>2 DEF Sending, Broken
      <3>3. CASE ~Broken
        <4>1. writer[w].at = "flushed"
          BY <3>3 DEF SendReturns
        <4>2. wbuf[1] = <<>> /\ q = Len(all)
          BY <1>2, <2>1, <3>1, <3>3, <4>1 DEF Sending
        <4>3. mu'[1] = "free"
          BY <1>1, <2>1
        <4> QED
          BY <1>1, <4>2, <4>3 DEF Sending
      <3> QED
        BY <3>2, <3>3
    <2>2. CASE mu[1] # w
      <3>1. mu'[1] = mu[1] /\ (mu[1] # "free" => mu[1] \in Writers \ {w})
        BY <1>1, <2>2 DEF FTypeOK
      <3> QED
        BY <1>1, <1>2, <3>1, SameSender
    <2> QED
      BY <2>1, <2>2
  <1> QED
    BY <1>1, <1>2, SameStream

LEMMA EndCloses ==
    ASSUME FTypeOK, StreamInv, NEW e \in {"dialled", "accepted"}, CloseEnd(e)
    PROVE  StreamInv'
  <1>1. /\ frames' = frames /\ wire' = wire /\ wbuf' = wbuf /\ reader' = reader
        /\ over' = over /\ reopened' = reopened /\ ends' = [ends EXCEPT ![e] = "closed"]
    BY DEF CloseEnd
  <1>2. Broken'
    BY <1>1 DEF Broken, FTypeOK
  <1>3. \A all, q : Sending(all, q)'
    BY <1>2 DEF Sending
  <1> QED
    BY <1>1, <1>3, SameStream

-----------------------------------------------------------------------------
(* The reader.                                                             *)

\* What of the invariant is not the reader's.
LEMMA SameWriters ==
    ASSUME NEW all, NEW st, NEW q, StreamOK(all, st, q),
           over' = over, ends' = ends, frames' = frames, mu' = mu, writer' = writer, wbuf' = wbuf
    PROVE  /\ Layout(frames'[1], all, st) /\ q \in Nat /\ Sending(all, q)' /\ Piece(all, q, wbuf'[1])
           /\ over = "mem" => Whole(wbuf'[1])
  BY DEF StreamOK, Sending, Broken, Underway, Undivided

LEMMA ReaderOpens ==
    ASSUME FTypeOK, Counted, StreamInv, OpenReader
    PROVE  StreamInv'
  <1> USE StreamFacts, Numbers
  <1>1. /\ over' = over /\ ends' = ends /\ frames' = frames /\ mu' = mu /\ writer' = writer
        /\ wbuf' = wbuf /\ wire' = wire /\ reopened' = reopened /\ reader.at = "open"
        /\ reader' = [reader EXCEPT !.at = "prefix", !.need = PrefixLen]
    BY DEF OpenReader
  <1>2. /\ reader'.at = "prefix" /\ reader'.have = reader.have /\ reader'.buf = reader.buf
        /\ reader'.got = reader.got
    BY <1>1, TypeFacts DEF ReaderState
  <1>3. reader.have = <<>> /\ reader.buf = <<>>
    BY <1>1 DEF Counted
  <1> SUFFICES ASSUME over # "winpipe", ~reopened
               PROVE  Returned' /\ \E all, st, q : StreamOK(all, st, q)'
    BY <1>1, <1>2 DEF StreamInv
  <1>4. Returned'
    BY <1>1, <1>2 DEF StreamInv, Returned
  <1>5. PICK all, st, q : StreamOK(all, st, q)
    BY <1>1 DEF StreamInv, Following
  <1>6. /\ Layout(frames'[1], all, st) /\ q \in Nat /\ Sending(all, q)' /\ Piece(all, q, wbuf'[1])
        /\ over = "mem" => Whole(wbuf'[1])
    BY <1>1, <1>5, SameWriters
  <1>7. Underway(all, st, q)'
    <2>1. Position(st)' = Position(st)
      BY <1>1, <1>2 DEF Position
    <2> QED
      BY <1>1, <1>2, <1>5, <2>1 DEF StreamOK, Underway
  <1>8. Wanted' /\ Undivided'
    BY <1>1, <1>2, <1>3, <1>5, <1>6, EmptyWhole DEF StreamOK, Wanted, Undivided
  <1>9. StreamOK(all, st, q)'
    BY <1>6, <1>7, <1>8 DEF StreamOK
  <1> QED
    BY <1>4, <1>9

LEMMA ReaderEnds ==
    ASSUME FTypeOK, StreamInv, RecvFails
    PROVE  StreamInv'
  <1>1. /\ over' = over /\ frames' = frames /\ reopened' = reopened
        /\ reader' = [reader EXCEPT !.at = "ended"]
    BY DEF RecvFails
  <1>2. reader'.at = "ended" /\ reader'.got = reader.got
    BY <1>1, TypeFacts DEF ReaderState
  <1> QED
    BY <1>1, <1>2 DEF StreamInv, Returned, Following

LEMMA OthersOpen ==
    ASSUME FTypeOK, Counted, StreamInv, OtherLooks \/ OtherSets
    PROVE  StreamInv'
  <1>1. CASE reopened'
    BY <1>1 DEF StreamInv
  <1>2. CASE ~reopened'
    <2>1. /\ over' = over /\ ends' = ends /\ frames' = frames /\ mu' = mu /\ writer' = writer
          /\ wbuf' = wbuf /\ wire' = wire
      BY DEF OtherLooks, OtherSets
    <2>2. reader' = reader /\ reopened' = reopened
      <3>1. CASE OtherLooks
        BY <3>1 DEF OtherLooks
      <3>2. CASE OtherSets
        <4>1. reader' = [reader EXCEPT !.buf = <<>>] /\ reopened' = (reopened \/ reader.at # "open")
          BY <3>2 DEF OtherSets
        <4>2. reader.at = "open" /\ reopened = FALSE /\ reopened' = FALSE
          BY <1>2, <4>1 DEF FTypeOK
        <4>3. reader.buf = <<>>
          BY <4>2 DEF Counted
        <4>4. reader' = reader
          BY <4>1, <4>3, TypeFacts DEF ReaderState
        <4> QED
          BY <4>2, <4>4
      <3> QED
        BY <3>1, <3>2
    <2>3. \A all, q : Sending(all, q) => Sending(all, q)'
      BY <2>1 DEF Sending, Broken
    <2> QED
      BY <2>1, <2>2, <2>3, SameStream
  <1> QED
    BY <1>1, <1>2

\* Reading n bytes of the first write leaves the rest of it, and the later ones.
LEMMA WrittenRead ==
    ASSUME NEW S, NEW all \in Seq(S), NEW p \in Nat, NEW q \in Nat, NEW here \in Seq(S),
           NEW later \in Seq(Seq(S)), NEW n \in 0..Len(here),
           Piece(all, p, here), Written(all, p + Len(here), later, q)
    PROVE  /\ SubSeq(here, 1, n) \in Seq(S) /\ Len(SubSeq(here, 1, n)) = n
           /\ Piece(all, p, SubSeq(here, 1, n))
           /\ Written(all, p + n,
                 (IF n < Len(here) THEN <<SubSeq(here, n + 1, Len(here))>> ELSE <<>>) \o later, q)
  <1> DEFINE y == SubSeq(here, n + 1, Len(here))
  <1>1. /\ SubSeq(here, 1, n) \in Seq(S) /\ Len(SubSeq(here, 1, n)) = n
        /\ Piece(all, p, SubSeq(here, 1, n))
        /\ y \in Seq(S) /\ Len(y) = Len(here) - n /\ Piece(all, p + n, y)
    BY PieceSplit
  <1> HIDE DEF y
  <1>2. Len(here) \in Nat
    BY LenProperties
  <1>3. n \in Nat /\ p + n \in Nat /\ (p + n) + (Len(here) - n) = p + Len(here)
    BY <1>2
  <1>4. Written(all, (p + n) + Len(y), later, q)
    BY <1>1, <1>3
  <1>5. Written(all, p + n, <<y>> \o later, q)
    BY <1>1, <1>3, <1>4, WrittenFirst
  <1>6. CASE n < Len(here)
    BY <1>1, <1>5, <1>6 DEF y
  <1>7. CASE ~(n < Len(here))
    <2>1. n = Len(here)
      BY <1>2, <1>7
    <2>2. <<>> \o later = later
      BY ConcatEmptySeq
    <2> QED
      BY <1>1, <1>7, <2>1, <2>2
  <1> QED
    BY <1>6, <1>7

\* A byte where a frame starts is its first, one within a payload is not.
LEMMA StartByte ==
    ASSUME NEW F \in Seq(Frame), NEW all, NEW st, Layout(F, all, st), NEW k \in 1..(Len(F) + 1),
           NEW c \in Seq(Byte), c # <<>>, Piece(all, st[k], c)
    PROVE  k \in 1..Len(F) /\ c[1].at = 1
  <1>1. Len(F) \in Nat /\ Len(c) \in Nat \ {0}
    BY LenProperties, EmptySeq
  <1>2. st[k] \in Nat /\ Len(all) = st[Len(F) + 1] /\ st[Len(F) + 1] \in Nat
    <2>1. st \in [1..(Len(F) + 1) -> Nat] /\ Len(all) = st[Len(F) + 1]
      BY DEF Layout
    <2>2. Len(F) + 1 \in 1..(Len(F) + 1)
      BY <1>1
    <2> QED
      BY <2>1, <2>2
  <1>3. st[k] + Len(c) <= Len(all) /\ c[1] = all[st[k] + 1]
    BY <1>1 DEF Piece
  <1>4. k # Len(F) + 1
    BY <1>1, <1>2, <1>3
  <1>5. k \in 1..Len(F)
    BY <1>1, <1>4
  <1>6. F[k].size \in Nat
    BY <1>5, ElementOfSeq, BytesFacts
  <1>7. 1 \in 1..(PrefixLen + F[k].size)
    <2>1. PICK z \in Nat : z = F[k].size
      BY <1>6
    <2>2. 1 \in 1..(PrefixLen + z)
      BY Numbers
    <2> QED
      BY <2>1, <2>2
  <1>8. all[st[k] + 1] = [frame |-> F[k], at |-> 1]
    BY <1>5, <1>7 DEF Layout
  <1> QED
    BY <1>3, <1>5, <1>8

LEMMA InsideByte ==
    ASSUME NEW F \in Seq(Frame), NEW all, NEW st, Layout(F, all, st), NEW k \in 1..Len(F),
           NEW m \in Nat, m < F[k].size,
           NEW c \in Seq(Byte), c # <<>>, Piece(all, (st[k] + PrefixLen) + m, c)
    PROVE  c[1].at # 1
  <1>1. Len(F) \in Nat /\ Len(c) \in Nat \ {0}
    BY LenProperties, EmptySeq
  <1>2. st[k] \in Nat
    BY <1>1 DEF Layout
  <1>3. F[k].size \in Nat
    BY ElementOfSeq, BytesFacts
  <1>4. c[1] = all[((st[k] + PrefixLen) + m) + 1]
    BY <1>1 DEF Piece
  <1>5. /\ PrefixLen + m + 1 \in 1..(PrefixLen + F[k].size)
        /\ ((st[k] + PrefixLen) + m) + 1 = st[k] + (PrefixLen + m + 1) /\ PrefixLen + m + 1 # 1
    <2>1. PICK z \in Nat, a \in Nat : z = F[k].size /\ a = st[k]
      BY <1>2, <1>3
    <2>2. m < z
      BY <2>1
    <2>3. /\ PrefixLen + m + 1 \in 1..(PrefixLen + z)
          /\ ((a + PrefixLen) + m) + 1 = a + (PrefixLen + m + 1) /\ PrefixLen + m + 1 # 1
      BY <2>2, Numbers
    <2> QED
      BY <2>1, <2>3
  <1>6. all[st[k] + (PrefixLen + m + 1)] = [frame |-> F[k], at |-> PrefixLen + m + 1]
    BY <1>5 DEF Layout
  <1> QED
    BY <1>4, <1>5, <1>6

\* The reader's buffer is filled: what it gets follows what it has.
LEMMA BufferFilled ==
    ASSUME FTypeOK, StreamInv, Fill
    PROVE  StreamInv'
  <1> USE StreamFacts, Numbers
  <1>1. /\ over' = over /\ ends' = ends /\ frames' = frames /\ mu' = mu /\ writer' = writer
        /\ wbuf' = wbuf /\ reopened' = reopened /\ reader.at \in {"prefix", "payload"}
        /\ reader.buf = <<>> /\ wire[1] # <<>> /\ reader.need > 0
    BY DEF Fill, Reading
  <1>2. /\ wire[1] \in Seq(Seq(Byte)) /\ reader \in ReaderState /\ Len(wire[1]) \in Nat
        /\ frames[1] \in Seq(Frame) /\ Len(reader.have) \in Nat /\ Len(reader.got) \in Nat
        /\ reader.have \in Seq(Byte) /\ reader.need \in Nat
    BY TypeFacts
  <1>3. PICK here, later :
           /\ here = IF over = "mem" THEN Head(wire[1]) ELSE FlattenSeq(wire[1])
           /\ later = IF over = "mem" THEN Tail(wire[1]) ELSE <<>>
    OBVIOUS
  <1> SUFFICES ASSUME over # "winpipe", ~reopened
               PROVE  Returned' /\ reader'.at # "lost" /\ \E all, st, q : StreamOK(all, st, q)'
    BY <1>1 DEF StreamInv
  <1>4. Returned
    BY DEF StreamInv
  <1>5. PICK all, st, q : StreamOK(all, st, q)
    BY <1>1 DEF StreamInv, Following
  <1>6. PICK p : p = Position(st) + Len(reader.have)
    OBVIOUS
  <1>7. p \in Nat /\ all \in Seq(Byte) /\ q \in Nat /\ p + 0 = p
    <2>1. p \in Nat /\ all \in Seq(Byte) /\ q \in Nat
      BY <1>4, <1>5, <1>6, PositionFacts
    <2> QED
      BY <2>1
  <1>8. Written(all, p, wire[1], q)
    <2>1. Len(reader.buf) = 0
      BY <1>1, EmptySeq
    <2>2. Written(all, Position(st) + Len(reader.have) + Len(reader.buf), wire[1], q)
      BY <1>5 DEF StreamOK, Underway
    <2> QED
      BY <1>6, <1>7, <2>1, <2>2
  <1>9. /\ here \in Seq(Byte) /\ later \in Seq(Seq(Byte))
        /\ Piece(all, p, here) /\ Written(all, p + Len(here), later, q)
    <2>1. CASE over = "mem"
      <3>1. here = Head(wire[1]) /\ later = Tail(wire[1])
        BY <1>3, <2>1
      <3>2. here \in Seq(Byte) /\ later \in Seq(Seq(Byte))
        BY <1>1, <1>2, <3>1, HeadTailProperties
      <3> QED
        BY <1>1, <1>2, <1>7, <1>8, <3>1, <3>2, WrittenTail
    <2>2. CASE over # "mem"
      <3>1. here = FlattenSeq(wire[1]) /\ later = <<>>
        BY <1>3, <2>2
      <3>2. here \in Seq(Byte) /\ Piece(all, p, here) /\ q = p + Len(here)
        <4>1. PICK w \in Seq(Seq(Byte)) : w = wire[1]
          BY <1>2
        <4>2. w # <<>> /\ Written(all, p, w, q)
          BY <1>1, <1>8, <4>1
        <4>3. /\ FlattenSeq(w) \in Seq(Byte) /\ Piece(all, p, FlattenSeq(w))
              /\ q = p + Len(FlattenSeq(w))
          BY <1>7, <4>2, WrittenFlat
        <4>4. here = FlattenSeq(w)
          BY <3>1, <4>1
        <4> QED
          BY <4>3, <4>4
      <3>3. Written(all, q, <<>>, q)
        BY <1>7, WrittenNone
      <3>4. <<>> \in Seq(Seq(Byte))
        OBVIOUS
      <3> QED
        BY <3>1, <3>2, <3>3, <3>4
    <2> QED
      BY <2>1, <2>2
  <1>10. PICK n \in (IF over = "mem" THEN {Min({BufLen, Len(here)})} ELSE 1..Min({BufLen, Len(here)})) :
            /\ reader' = [reader EXCEPT !.buf = SubSeq(here, 1, n)]
            /\ wire' = [wire EXCEPT ![1] =
                   (IF n < Len(here) THEN <<SubSeq(here, n + 1, Len(here))>> ELSE <<>>) \o later]
    BY <1>3 DEF Fill
  <1>11. /\ Len(here) \in Nat
         /\ Min({BufLen, Len(here)}) = IF BufLen <= Len(here) THEN BufLen ELSE Len(here)
    BY <1>9, LenProperties, MinOfTwo
  <1>12. /\ n \in 0..Len(here)
         /\ over = "mem" => n = IF BufLen <= Len(here) THEN BufLen ELSE Len(here)
    BY <1>10, <1>11
  <1>13. PICK b, v : /\ b = SubSeq(here, 1, n)
                     /\ v = (IF n < Len(here) THEN <<SubSeq(here, n + 1, Len(here))>> ELSE <<>>) \o later
    OBVIOUS
  <1>14. b \in Seq(Byte) /\ Len(b) = n /\ Piece(all, p, b) /\ Written(all, p + n, v, q)
    BY <1>7, <1>9, <1>12, <1>13, WrittenRead
  <1>15. /\ reader'.at = reader.at /\ reader'.have = reader.have /\ reader'.need = reader.need
         /\ reader'.got = reader.got /\ reader'.buf = b /\ wire'[1] = v
    <2>1. reader' = [reader EXCEPT !.buf = b] /\ wire' = [wire EXCEPT ![1] = v]
      BY <1>10, <1>13
    <2> QED
      BY <1>2, <2>1 DEF ReaderState, FTypeOK
  <1>16. Returned' /\ reader'.at # "lost"
    BY <1>1, <1>4, <1>15 DEF Returned
  <1>17. /\ Layout(frames'[1], all, st) /\ Sending(all, q)' /\ Piece(all, q, wbuf'[1])
         /\ over = "mem" => Whole(wbuf'[1])
    BY <1>1, <1>5, SameWriters
  <1>18. Wanted'
    BY <1>1, <1>5, <1>15 DEF StreamOK, Wanted
  <1>19. Underway(all, st, q)'
    <2>1. Position(st)' = Position(st)
      BY <1>15 DEF Position
    <2>2. Piece(all, Position(st), reader.have)
      BY <1>5 DEF StreamOK, Underway
    <2> QED
      BY <1>6, <1>14, <1>15, <1>17, <2>1, <2>2 DEF Underway
  <1>20. ASSUME over = "mem"
         PROVE  /\ \A k \in 1..Len(v) : Whole(v[k])
                /\ Steady(b)
                /\ reader.at = "prefix" => reader.have = <<>> /\ (b = <<>> \/ Len(b) >= PrefixLen)
                /\ reader.at = "payload" /\ b # <<>> => b[1].at # 1
    <2>1. /\ \A k \in 1..Len(wire[1]) : Whole(wire[1][k])
          /\ reader.at = "prefix" => reader.have = <<>>
      BY <1>5, <1>20 DEF StreamOK, Undivided
    <2>2. here = Head(wire[1]) /\ later = Tail(wire[1])
      BY <1>3, <1>20
    <2>3. /\ Whole(here) /\ Len(later) \in Nat
          /\ \A k \in 1..Len(later) : Whole(later[k])
      <3>1. /\ Len(wire[1]) \in Nat \ {0} /\ here = wire[1][1] /\ Len(later) = Len(wire[1]) - 1
            /\ \A k \in 1..(Len(wire[1]) - 1) : later[k] = wire[1][k + 1]
        BY <1>1, <1>2, <2>2, EmptySeq, HeadTailProperties
      <3> QED
        BY <2>1, <3>1
    <2>4. Steady(here)
      BY <2>3 DEF Whole
    <2>5. /\ Steady(b)
          /\ n >= 1 => b[1] = here[1]
          /\ n >= 1 => Whole(SubSeq(here, n + 1, Len(here)))
      BY <1>9, <1>12, <1>13, <2>4, SteadyParts
    <2>6. /\ n < Len(here) => n >= 1
          /\ b # <<>> => n >= 1 /\ here # <<>>
      <3>1. n < Len(here) => n >= 1
        BY <1>11, <1>12, <1>20
      <3>2. b # <<>> => Len(b) # 0
        BY <1>14, EmptySeq
      <3>3. Len(<<>>) = 0
        OBVIOUS
      <3>4. b # <<>> => n >= 1
        BY <1>11, <1>12, <1>14, <3>2
      <3>5. n >= 1 => Len(here) # 0
        BY <1>11, <1>12
      <3> QED
        BY <3>1, <3>3, <3>4, <3>5
    <2>7. \A k \in 1..Len(v) : Whole(v[k])
      <3>1. CASE n < Len(here)
        <4>1. PICK y : y = SubSeq(here, n + 1, Len(here))
          OBVIOUS
        <4>2. Whole(y) /\ v = <<y>> \o later /\ y \in Seq(Byte)
          <5>1. n \in Nat /\ n + 1 \in Nat \ {0} /\ n + 1 <= Len(here) + 1
            BY <1>11, <1>12
          <5>2. y \in Seq(Byte)
            BY <1>9, <1>11, <4>1, <5>1, SubSeqFacts
          <5> QED
            BY <1>13, <2>5, <2>6, <3>1, <4>1, <5>2
        <4>3. <<y>> \in Seq(Seq(Byte)) /\ Len(<<y>>) = 1 /\ <<y>>[1] = y
          BY <4>2
        <4>4. /\ Len(v) = 1 + Len(later)
              /\ \A k \in 1..(1 + Len(later)) : v[k] = IF k <= 1 THEN <<y>>[k] ELSE later[k - 1]
          BY <1>9, <4>2, <4>3, ConcatProperties
        <4>5. ASSUME NEW k \in 1..(1 + Len(later)) PROVE Whole(v[k])
          <5>1. CASE k = 1
            BY <4>2, <4>3, <4>4, <5>1
          <5>2. CASE k # 1
            <6>1. k - 1 \in 1..Len(later) /\ ~(k <= 1)
              BY <2>3, <5>2
            <6> QED
              BY <2>3, <4>4, <6>1
          <5> QED
            BY <5>1, <5>2
        <4> QED
          BY <4>4, <4>5
      <3>2. CASE ~(n < Len(here))
        <4>1. v = later
          BY <1>9, <1>13, <3>2, ConcatEmptySeq
        <4> QED
          BY <2>3, <4>1
      <3> QED
        BY <3>1, <3>2
    <2>8. Len(reader.got) + 1 \in 1..(Len(frames[1]) + 1) /\ st[Len(reader.got) + 1] \in Nat
      BY <1>4, <1>5, PositionFacts
    <2>9. ASSUME reader.at = "prefix" PROVE b = <<>> \/ Len(b) >= PrefixLen
      <3>1. SUFFICES ASSUME b # <<>> PROVE Len(b) >= PrefixLen
        OBVIOUS
      <3>2. p = st[Len(reader.got) + 1]
        <4>1. reader.have = <<>> /\ Len(<<>>) = 0
          BY <2>1, <2>9
        <4>2. Position(st) = st[Len(reader.got) + 1] + 0
          BY <2>9 DEF Position
        <4> QED
          BY <1>6, <2>8, <4>1, <4>2
      <3>3. here[1].at = 1
        BY <1>2, <1>5, <1>9, <2>6, <2>8, <3>1, <3>2, StartByte DEF StreamOK
      <3>4. Len(here) >= PrefixLen
        BY <2>3, <2>6, <3>1, <3>3 DEF Whole
      <3> QED
        BY <1>11, <1>12, <1>14, <1>20, <3>4
    <2>10. ASSUME reader.at = "payload", b # <<>> PROVE b[1].at # 1
      <3>1. /\ Len(reader.got) + 1 <= Len(frames[1])
            /\ Len(reader.have) + reader.need = frames[1][Len(reader.got) + 1].size
        BY <1>5, <2>10 DEF StreamOK, Wanted
      <3>2. Len(reader.got) + 1 \in 1..Len(frames[1])
        BY <2>8, <3>1
      <3>3. Len(reader.have) < frames[1][Len(reader.got) + 1].size
        <4>1. PICK a \in Nat, c \in Nat : a = Len(reader.have) /\ c = reader.need
          BY <1>2
        <4>2. a < a + c
          BY <1>1, <4>1
        <4> QED
          BY <3>1, <4>1, <4>2
      <3>4. p = (st[Len(reader.got) + 1] + PrefixLen) + Len(reader.have)
        BY <1>6, <2>10 DEF Position
      <3>5. here # <<>> /\ b[1] = here[1]
        BY <2>5, <2>6, <2>10
      <3>6. here[1].at # 1
        BY <1>2, <1>5, <1>9, <3>2, <3>3, <3>4, <3>5, InsideByte DEF StreamOK
      <3> QED
        BY <3>5, <3>6
    <2> QED
      BY <2>1, <2>5, <2>7, <2>9, <2>10
  <1>21. Undivided'
    BY <1>1, <1>15, <1>17, <1>20 DEF Undivided
  <1>22. StreamOK(all, st, q)'
    BY <1>7, <1>17, <1>18, <1>19, <1>21 DEF StreamOK
  <1> QED
    BY <1>16, <1>22

\* What is taken from the buffer joins what the reader has.
LEMMA TakenPieces ==
    ASSUME FTypeOK, Returned, NEW all, NEW st, NEW q, StreamOK(all, st, q)
    PROVE  LET t == Taken(reader) IN \E n \in Nat :
             /\ n <= reader.need /\ n <= Len(reader.buf) /\ (n = reader.need \/ n = Len(reader.buf))
             /\ t \in ReaderState
             /\ t.at = reader.at /\ t.got = reader.got /\ t.need = reader.need - n
             /\ Len(t.have) = Len(reader.have) + n /\ Len(t.buf) = Len(reader.buf) - n
             /\ Piece(all, Position(st), t.have)
             /\ Piece(all, Position(st) + Len(t.have), t.buf)
             /\ Written(all, Position(st) + Len(t.have) + Len(t.buf), wire[1], q)
             /\ over = "mem" => /\ Steady(t.buf)
                                /\ t.buf # <<>> /\ n >= 1 => t.buf[1].at # 1
                                /\ t.buf # <<>> /\ n = 0 => t.buf[1].at = reader.buf[1].at
                                /\ t.buf # <<>> => reader.buf # <<>>
  <1>1. /\ reader \in ReaderState /\ reader.buf \in Seq(Byte) /\ reader.have \in Seq(Byte)
        /\ reader.need \in Nat /\ Len(reader.buf) \in Nat /\ Len(reader.have) \in Nat
    BY TypeFacts
  <1>2. PICK t : t = Taken(reader)
    OBVIOUS
  <1>3. PICK n \in Nat :
             /\ n <= reader.need /\ n <= Len(reader.buf) /\ (n = reader.need \/ n = Len(reader.buf))
             /\ t \in ReaderState
             /\ t.at = reader.at /\ t.got = reader.got /\ t.need = reader.need - n
             /\ t.have = reader.have \o SubSeq(reader.buf, 1, n)
             /\ t.buf = SubSeq(reader.buf, n + 1, Len(reader.buf))
             /\ Len(t.have) = Len(reader.have) + n /\ Len(t.buf) = Len(reader.buf) - n
    BY <1>1, <1>2, TakenFacts
  <1>4. PICK p \in Nat, h \in Nat, b \in Nat :
           p = Position(st) /\ h = Len(reader.have) /\ b = Len(reader.buf)
    BY <1>1, PositionFacts
  <1>5. all \in Seq(Byte) /\ n \in 0..Len(reader.buf) /\ n \in 0..b
    BY <1>1, <1>3, <1>4, PositionFacts
  <1>6. /\ Piece(all, p, reader.have) /\ Piece(all, p + h, reader.buf)
        /\ Written(all, p + h + b, wire[1], q)
    BY <1>4 DEF StreamOK, Underway
  <1>7. p + h \in Nat
    OBVIOUS
  <1>8. /\ SubSeq(reader.buf, 1, n) \in Seq(Byte)
        /\ Piece(all, p + h, SubSeq(reader.buf, 1, n))
        /\ Piece(all, (p + h) + n, t.buf)
    <2>1. PICK x \in Nat : x = p + h
      BY <1>7
    <2>2. PICK c \in Seq(Byte) : c = reader.buf
      BY <1>1
    <2>3. n \in 0..Len(c) /\ Piece(all, x, c)
      BY <1>5, <1>6, <2>1, <2>2
    <2>4. /\ SubSeq(c, 1, n) \in Seq(Byte) /\ Piece(all, x, SubSeq(c, 1, n))
          /\ Piece(all, x + n, SubSeq(c, n + 1, Len(c)))
      BY <1>5, <2>3, PieceSplit
    <2> QED
      BY <1>3, <2>1, <2>2, <2>4
  <1>9. Piece(all, p, t.have)
    BY <1>1, <1>3, <1>4, <1>5, <1>6, <1>8, PieceJoin
  <1>10. (p + h) + n = p + (h + n) /\ p + (h + n) + (b - n) = p + h + b
    BY <1>5
  <1>11. /\ Piece(all, p + Len(t.have), t.buf)
         /\ Written(all, p + Len(t.have) + Len(t.buf), wire[1], q)
    BY <1>3, <1>4, <1>6, <1>8, <1>10
  <1>12. ASSUME over = "mem"
         PROVE  /\ Steady(t.buf)
                /\ t.buf # <<>> /\ n >= 1 => t.buf[1].at # 1
                /\ t.buf # <<>> /\ n = 0 => t.buf[1].at = reader.buf[1].at
                /\ t.buf # <<>> => reader.buf # <<>>
    <2>1. Steady(reader.buf)
      BY <1>12 DEF StreamOK, Undivided
    <2>2. /\ Steady(t.buf)
          /\ n < Len(reader.buf) => t.buf[1].at = reader.buf[1].at + n
          /\ n >= 1 /\ n < Len(reader.buf) => t.buf[1].at # 1
      BY <1>1, <1>3, <1>5, <2>1, SteadyParts
    <2>3. t.buf # <<>> => n < Len(reader.buf)
      <3>1. t.buf \in Seq(Byte)
        BY <1>3 DEF ReaderState
      <3>2. t.buf # <<>> => Len(t.buf) # 0
        BY <3>1, EmptySeq
      <3> QED
        BY <1>3, <1>4, <1>5, <3>2
    <2>4. n < Len(reader.buf) => reader.buf # <<>> /\ reader.buf[1].at \in Nat
      <3>1. SUFFICES ASSUME n < Len(reader.buf) PROVE reader.buf # <<>> /\ reader.buf[1].at \in Nat
        OBVIOUS
      <3>2. Len(<<>>) = 0 /\ 1 \in 1..Len(reader.buf)
        BY <1>1, <3>1
      <3>3. reader.buf # <<>>
        BY <1>1, <3>1, <3>2
      <3>4. reader.buf[1] \in Byte
        BY <1>1, <3>2, ElementOfSeq
      <3> QED
        BY <3>3, <3>4 DEF Byte
    <2> QED
      BY <2>2, <2>3, <2>4
  <1> QED
    BY <1>2, <1>3, <1>4, <1>9, <1>11, <1>12

LEMMA PrefixRead ==
    ASSUME FTypeOK, Counted, StreamInv, RecvPrefix
    PROVE  StreamInv'
  <1> USE StreamFacts, Numbers
  <1>1. /\ over' = over /\ ends' = ends /\ frames' = frames /\ mu' = mu /\ writer' = writer
        /\ wbuf' = wbuf /\ wire' = wire /\ reopened' = reopened /\ reader.at = "prefix"
        /\ reader.buf # <<>>
    BY DEF RecvPrefix
  <1>2. /\ reader \in ReaderState /\ frames[1] \in Seq(Frame) /\ Len(frames[1]) \in Nat
        /\ Len(reader.have) \in Nat /\ Len(reader.buf) \in Nat /\ Len(reader.got) \in Nat
        /\ reader.need \in Nat
    BY TypeFacts
  <1>3. PICK t : t = Taken(reader)
    OBVIOUS
  <1>4. reader' = IF t.need = 0 \/ Lazy THEN Length(t) ELSE t
    BY <1>3 DEF RecvPrefix
  <1> SUFFICES ASSUME over # "winpipe", ~reopened
               PROVE  /\ Returned' /\ reader'.at # "lost"
                      /\ Following' => \E all, st, q : StreamOK(all, st, q)'
    BY <1>1 DEF StreamInv
  <1>5. Returned
    BY DEF StreamInv
  <1>6. PICK all, st, q : StreamOK(all, st, q)
    BY <1>1 DEF StreamInv, Following
  <1>7. PICK p, g : p = Position(st) /\ g = Len(reader.got) + 1
    OBVIOUS
  <1>8. PICK n \in Nat :
             /\ n <= reader.need /\ n <= Len(reader.buf) /\ (n = reader.need \/ n = Len(reader.buf))
             /\ t \in ReaderState
             /\ t.at = reader.at /\ t.got = reader.got /\ t.need = reader.need - n
             /\ Len(t.have) = Len(reader.have) + n /\ Len(t.buf) = Len(reader.buf) - n
             /\ Piece(all, p, t.have)
             /\ Piece(all, p + Len(t.have), t.buf)
             /\ Written(all, p + Len(t.have) + Len(t.buf), wire[1], q)
             /\ over = "mem" => /\ Steady(t.buf)
                                /\ t.buf # <<>> /\ n >= 1 => t.buf[1].at # 1
    BY <1>3, <1>5, <1>6, <1>7, TakenPieces
  <1>9. /\ t.have \in Seq(Byte) /\ t.buf \in Seq(Byte) /\ Len(t.have) \in Nat /\ Len(t.buf) \in Nat
    BY <1>8, LenProperties DEF ReaderState
  <1>10. g \in 1..(Len(frames[1]) + 1) /\ st[g] \in Nat /\ p \in Nat /\ all \in Seq(Byte) /\ Len(all) \in Nat
    BY <1>5, <1>6, <1>7, PositionFacts
  <1>11. p = st[g]
    <2>1. p = st[g] + 0
      BY <1>1, <1>7 DEF Position
    <2> QED
      BY <1>10, <2>1
  <1>12. Len(reader.have) + reader.need = PrefixLen
    BY <1>1 DEF Counted
  <1>13. over = "mem" => n >= 1 /\ t.need = 0
    <2>1. SUFFICES ASSUME over = "mem" PROVE n >= 1 /\ t.need = 0
      OBVIOUS
    <2>2. reader.have = <<>> /\ Len(reader.buf) >= PrefixLen
      BY <1>1, <1>6, <2>1 DEF StreamOK, Undivided
    <2>3. Len(<<>>) = 0
      OBVIOUS
    <2>4. reader.need = PrefixLen
      BY <1>2, <1>12, <2>2, <2>3
    <2> QED
      BY <1>2, <1>8, <2>2, <2>4
  <1>14. /\ Layout(frames'[1], all, st) /\ q \in Nat /\ Sending(all, q)' /\ Piece(all, q, wbuf'[1])
         /\ over = "mem" => Whole(wbuf'[1])
    BY <1>1, <1>6, SameWriters
  <1>15. over = "mem" => \A k \in 1..Len(wire[1]) : Whole(wire[1][k])
    BY <1>6 DEF StreamOK, Undivided
  <1>16. CASE t.need = 0
    <2>1. Len(t.have) = PrefixLen
      <3>1. PICK a \in Nat, c \in Nat : a = Len(reader.have) /\ c = reader.need
        BY <1>2
      <3>2. a + c = PrefixLen /\ c - n = 0
        BY <1>8, <1>12, <1>16, <3>1
      <3>3. a + n = PrefixLen
        BY <3>2
      <3> QED
        BY <1>8, <3>1, <3>3
    <2>2. t.have # <<>>
      <3>1. Len(<<>>) = 0
        OBVIOUS
      <3> QED
        BY <2>1, <3>1
    <2>3. Layout(frames[1], all, st)
      BY <1>6 DEF StreamOK
    <2>4. g \in 1..Len(frames[1])
      BY <1>2, <1>8, <1>9, <1>10, <1>11, <2>2, <2>3, StartByte
    <2>5. PICK f : f = frames[1][g]
      OBVIOUS
    <2>6. f \in Frame /\ t.have = Prefix(f)
      <3>1. f \in Frame
        BY <1>2, <2>4, <2>5, ElementOfSeq
      <3>2. Prefix(frames[1][g]) = t.have
        BY <1>2, <1>8, <1>9, <1>11, <2>1, <2>3, <2>4, PrefixThere
      <3> QED
        BY <2>5, <3>1, <3>2
    <2>7. t.have[1].frame = f /\ f.size \in Nat
      <3>1. /\ \A i \in 1..PrefixLen : Prefix(f)[i] = [frame |-> f, at |-> i]
            /\ f.size \in Nat
        BY <2>6, BytesFacts
      <3>2. Prefix(f)[1] = [frame |-> f, at |-> 1]
        BY <3>1
      <3> QED
        BY <2>6, <3>1, <3>2
    <2>8. reader' = IF f.size > FrameLimit THEN [t EXCEPT !.at = "ended"]
                    ELSE [t EXCEPT !.at = "payload", !.have = <<>>, !.need = f.size]
      <3>1. reader' = Length(t)
        BY <1>4, <1>16
      <3> QED
        BY <2>6, <2>7, <3>1 DEF Length
    <2>9. CASE f.size > FrameLimit
      <3>1. reader'.at = "ended" /\ reader'.got = reader.got
        BY <1>8, <2>8, <2>9 DEF ReaderState
      <3> QED
        BY <1>1, <1>5, <3>1 DEF Returned, Following
    <2>10. CASE ~(f.size > FrameLimit)
      <3>1. /\ reader'.at = "payload" /\ reader'.got = reader.got /\ reader'.have = <<>>
            /\ reader'.need = f.size /\ reader'.buf = t.buf
        <4>1. reader' = [t EXCEPT !.at = "payload", !.have = <<>>, !.need = f.size]
          BY <2>8, <2>10
        <4> QED
          BY <1>8, <4>1 DEF ReaderState
      <3>2. Returned' /\ reader'.at # "lost"
        BY <1>1, <1>5, <3>1 DEF Returned
      <3>3. Wanted'
        <4>1. Len(reader'.got) + 1 = g /\ frames'[1] = frames[1] /\ Len(reader'.have) = 0
          BY <1>1, <1>7, <3>1
        <4>2. g <= Len(frames[1]) /\ 0 + f.size = f.size
          BY <1>2, <2>4, <2>7
        <4> QED
          BY <2>5, <3>1, <4>1, <4>2 DEF Wanted
      <3>4. Underway(all, st, q)'
        <4>1. Position(st)' = p + PrefixLen
          BY <1>7, <1>11, <3>1 DEF Position
        <4>2. PICK x \in Nat : x = p + PrefixLen
          BY <1>10
        <4>3. /\ x <= Len(all) /\ Piece(all, x, t.buf) /\ Written(all, x + Len(t.buf), wire[1], q)
          BY <1>8, <2>1, <4>2 DEF Piece
        <4>4. Len(<<>>) = 0 /\ x + 0 = x
          OBVIOUS
        <4>5. Piece(all, x, <<>>)
          BY <4>3, <4>4 DEF Piece
        <4>6. /\ Piece(all, Position(st)', reader'.have)
              /\ Piece(all, Position(st)' + Len(reader'.have), reader'.buf)
              /\ Written(all, Position(st)' + Len(reader'.have) + Len(reader'.buf), wire'[1], q)
          BY <1>1, <3>1, <4>1, <4>2, <4>3, <4>4, <4>5
        <4> QED
          BY <1>14, <4>6 DEF Underway
      <3>5. Undivided'
        BY <1>1, <1>8, <1>13, <1>14, <1>15, <3>1 DEF Undivided
      <3>6. StreamOK(all, st, q)'
        BY <1>14, <3>3, <3>4, <3>5 DEF StreamOK
      <3> QED
        BY <3>2, <3>6
    <2> QED
      BY <2>9, <2>10
  <1>17. CASE t.need # 0
    <2>1. over # "mem" /\ ~Lazy
      BY <1>13, <1>17 DEF Lazy
    <2>2. reader' = t
      BY <1>4, <1>17, <2>1
    <2>3. Returned' /\ reader'.at # "lost"
      BY <1>1, <1>5, <1>8, <2>2 DEF Returned
    <2>4. Wanted' /\ Undivided'
      BY <1>1, <1>8, <2>1, <2>2 DEF Wanted, Undivided
    <2>5. Underway(all, st, q)'
      <3>1. Position(st)' = p
        BY <1>1, <1>7, <1>8, <2>2 DEF Position
      <3> QED
        BY <1>1, <1>8, <1>14, <2>2, <3>1 DEF Underway
    <2>6. StreamOK(all, st, q)'
      BY <1>14, <2>4, <2>5 DEF StreamOK
    <2> QED
      BY <2>3, <2>6
  <1> QED
    BY <1>16, <1>17

LEMMA PayloadRead ==
    ASSUME FTypeOK, StreamInv, RecvPayload
    PROVE  StreamInv'
  <1> USE StreamFacts, Numbers
  <1>1. /\ over' = over /\ ends' = ends /\ frames' = frames /\ mu' = mu /\ writer' = writer
        /\ wbuf' = wbuf /\ wire' = wire /\ reopened' = reopened /\ reader.at = "payload"
    BY DEF RecvPayload
  <1>2. /\ reader \in ReaderState /\ frames[1] \in Seq(Frame) /\ Len(frames[1]) \in Nat
        /\ Len(reader.have) \in Nat /\ Len(reader.buf) \in Nat /\ Len(reader.got) \in Nat
        /\ reader.need \in Nat /\ reader.got \in Seq(Seq(Byte))
    BY TypeFacts
  <1>3. PICK t : t = Taken(reader)
    OBVIOUS
  <1>4. reader' = IF t.need > 0 THEN t
                  ELSE [t EXCEPT !.at = "prefix", !.need = PrefixLen, !.have = <<>>,
                                 !.got = Append(@, t.have)]
    BY <1>3 DEF RecvPayload
  <1> SUFFICES ASSUME over # "winpipe", ~reopened
               PROVE  Returned' /\ reader'.at # "lost" /\ \E all, st, q : StreamOK(all, st, q)'
    BY <1>1 DEF StreamInv
  <1>5. Returned
    BY DEF StreamInv
  <1>6. PICK all, st, q : StreamOK(all, st, q)
    BY <1>1 DEF StreamInv, Following
  <1>7. PICK p, g : p = Position(st) /\ g = Len(reader.got) + 1
    OBVIOUS
  <1>8. PICK n \in Nat :
             /\ n <= reader.need /\ n <= Len(reader.buf) /\ (n = reader.need \/ n = Len(reader.buf))
             /\ t \in ReaderState
             /\ t.at = reader.at /\ t.got = reader.got /\ t.need = reader.need - n
             /\ Len(t.have) = Len(reader.have) + n /\ Len(t.buf) = Len(reader.buf) - n
             /\ Piece(all, p, t.have)
             /\ Piece(all, p + Len(t.have), t.buf)
             /\ Written(all, p + Len(t.have) + Len(t.buf), wire[1], q)
             /\ over = "mem" => /\ Steady(t.buf)
                                /\ t.buf # <<>> /\ n >= 1 => t.buf[1].at # 1
                                /\ t.buf # <<>> /\ n = 0 => t.buf[1].at = reader.buf[1].at
                                /\ t.buf # <<>> => reader.buf # <<>>
    BY <1>3, <1>5, <1>6, <1>7, TakenPieces
  <1>9. /\ t.have \in Seq(Byte) /\ t.buf \in Seq(Byte) /\ t.need \in Nat
        /\ Len(t.have) \in Nat /\ Len(t.buf) \in Nat
    BY <1>8, LenProperties DEF ReaderState
  <1>10. g \in 1..(Len(frames[1]) + 1) /\ st[g] \in Nat /\ p \in Nat /\ all \in Seq(Byte) /\ Len(all) \in Nat
    BY <1>5, <1>6, <1>7, PositionFacts
  <1>11. p = st[g] + PrefixLen
    BY <1>1, <1>7 DEF Position
  <1>12. PICK f : f = frames[1][g]
    OBVIOUS
  <1>13. g \in 1..Len(frames[1]) /\ Len(reader.have) + reader.need = f.size /\ f \in Frame /\ f.size \in Nat
    <2>1. g <= Len(frames[1]) /\ Len(reader.have) + reader.need = f.size
      BY <1>1, <1>6, <1>7, <1>12 DEF StreamOK, Wanted
    <2>2. g \in 1..Len(frames[1])
      BY <1>2, <1>10, <2>1
    <2>3. f \in Frame
      BY <1>2, <1>12, <2>2, ElementOfSeq
    <2> QED
      BY <2>1, <2>2, <2>3, BytesFacts
  <1>14. Len(t.have) + t.need = f.size
    <2>1. PICK a \in Nat, c \in Nat : a = Len(reader.have) /\ c = reader.need
      BY <1>2
    <2>2. (a + n) + (c - n) = a + c
      OBVIOUS
    <2> QED
      BY <1>8, <1>13, <2>1, <2>2
  <1>15. /\ Layout(frames'[1], all, st) /\ q \in Nat /\ Sending(all, q)' /\ Piece(all, q, wbuf'[1])
         /\ over = "mem" => Whole(wbuf'[1])
    BY <1>1, <1>6, SameWriters
  <1>16. over = "mem" => /\ \A k \in 1..Len(wire[1]) : Whole(wire[1][k])
                         /\ t.buf # <<>> => t.buf[1].at # 1
    <2>1. over = "mem" => /\ \A k \in 1..Len(wire[1]) : Whole(wire[1][k])
                          /\ reader.buf # <<>> => reader.buf[1].at # 1
      BY <1>1, <1>6 DEF StreamOK, Undivided
    <2>2. n = 0 \/ n >= 1
      OBVIOUS
    <2> QED
      BY <1>8, <2>1, <2>2
  <1>17. CASE t.need > 0
    <2>1. reader' = t
      BY <1>4, <1>17
    <2>2. Returned' /\ reader'.at # "lost"
      BY <1>1, <1>5, <1>8, <2>1 DEF Returned
    <2>3. Wanted'
      <3>1. Len(reader'.got) + 1 = g /\ frames'[1] = frames[1]
        BY <1>1, <1>7, <1>8, <2>1
      <3>2. g <= Len(frames[1])
        BY <1>2, <1>13
      <3> QED
        BY <1>12, <1>14, <2>1, <3>1, <3>2 DEF Wanted
    <2>4. Undivided'
      BY <1>1, <1>8, <1>15, <1>16, <2>1 DEF Undivided
    <2>5. Underway(all, st, q)'
      <3>1. Position(st)' = p
        BY <1>1, <1>7, <1>8, <2>1 DEF Position
      <3> QED
        BY <1>1, <1>8, <1>15, <2>1, <3>1 DEF Underway
    <2>6. StreamOK(all, st, q)'
      BY <1>15, <2>3, <2>4, <2>5 DEF StreamOK
    <2> QED
      BY <2>2, <2>6
  <1>18. CASE ~(t.need > 0)
    <2>1. t.need = 0 /\ Len(t.have) = f.size
      <3>1. PICK a \in Nat, c \in Nat : a = Len(t.have) /\ c = t.need
        BY <1>9
      <3>2. c = 0 /\ a + c = f.size
        BY <1>14, <1>18, <3>1
      <3> QED
        BY <3>1, <3>2
    <2>2. Layout(frames[1], all, st)
      BY <1>6 DEF StreamOK
    <2>3. t.have = Payload(f)
      <3>1. PICK F \in Seq(Frame) : F = frames[1]
        BY <1>2
      <3>2. PICK h \in Seq(Byte) : h = t.have
        BY <1>9
      <3>3. /\ Layout(F, all, st) /\ g \in 1..Len(F) /\ Len(h) = F[g].size
            /\ Piece(all, st[g] + PrefixLen, h)
        BY <1>8, <1>11, <1>12, <1>13, <2>1, <2>2, <3>1, <3>2
      <3>4. h = Payload(F[g])
        BY <3>3, PayloadThere
      <3> QED
        BY <1>12, <3>1, <3>2, <3>4
    <2>4. PICK x : x = Append(reader.got, t.have)
      OBVIOUS
    <2>5. /\ reader'.at = "prefix" /\ reader'.got = x /\ reader'.have = <<>> /\ reader'.buf = t.buf
      <3>1. t.got = reader.got
        BY <1>8
      <3>2. reader' = [t EXCEPT !.at = "prefix", !.need = PrefixLen, !.have = <<>>, !.got = x]
        <4>1. t \in ReaderState
          BY <1>8
        <4> QED
          BY <1>4, <1>18, <2>4, <3>1, <4>1 DEF ReaderState
      <3> QED
        BY <1>8, <3>2 DEF ReaderState
    <2>6. /\ Len(x) = g /\ x[g] = t.have
          /\ \A i \in 1..(g - 1) : x[i] = reader.got[i]
      <3>1. /\ Len(x) = Len(reader.got) + 1 /\ x[Len(reader.got) + 1] = t.have
            /\ \A i \in 1..Len(reader.got) : x[i] = reader.got[i]
        BY <1>2, <1>9, <2>4, AppendProperties
      <3>2. g - 1 = Len(reader.got)
        BY <1>2, <1>7
      <3> QED
        BY <1>7, <3>1, <3>2
    <2>7. Returned' /\ reader'.at # "lost"
      <3>1. ASSUME NEW i \in 1..g PROVE x[i] = Payload(frames[1][i])
        <4>1. CASE i = g
          BY <1>12, <2>3, <2>6, <4>1
        <4>2. CASE i # g
          <5>1. PICK m \in Nat : m = Len(reader.got) /\ g = m + 1
            BY <1>2, <1>7
          <5>2. i \in 1..(g - 1) /\ g - 1 = m
            BY <4>2, <5>1
          <5> QED
            BY <1>5, <2>6, <5>1, <5>2 DEF Returned
        <4> QED
          BY <4>1, <4>2
      <3>2. Len(x) <= Len(frames[1])
        BY <1>2, <1>13, <2>6
      <3> QED
        BY <1>1, <2>5, <2>6, <3>1, <3>2 DEF Returned
    <2>8. Wanted'
      BY <2>5 DEF Wanted
    <2>9. st[g + 1] = p + f.size /\ g + 1 \in 1..(Len(frames[1]) + 1) /\ p + f.size \in Nat
      <3>1. st[g + 1] = st[g] + PrefixLen + f.size
        BY <1>12, <1>13, <2>2 DEF Layout
      <3>2. g + 1 \in 1..(Len(frames[1]) + 1) /\ p + f.size \in Nat
        BY <1>2, <1>10, <1>13
      <3> QED
        BY <1>11, <3>1, <3>2
    <2>10. PICK y \in Nat : y = st[g + 1]
      BY <2>9
    <2>11. Piece(all, y, t.buf) /\ Written(all, y + Len(t.buf), wire[1], q) /\ y <= Len(all)
      BY <1>8, <2>1, <2>9, <2>10 DEF Piece
    <2>12. Underway(all, st, q)'
      <3>1. Position(st)' = y
        <4>1. Position(st)' = st[g + 1] + 0
          BY <2>5, <2>6 DEF Position
        <4> QED
          BY <2>10, <4>1
      <3>2. Len(<<>>) = 0 /\ y + 0 = y
        OBVIOUS
      <3>3. Piece(all, y, <<>>)
        BY <2>11, <3>2 DEF Piece
      <3>4. /\ Piece(all, Position(st)', reader'.have)
            /\ Piece(all, Position(st)' + Len(reader'.have), reader'.buf)
            /\ Written(all, Position(st)' + Len(reader'.have) + Len(reader'.buf), wire'[1], q)
        BY <1>1, <2>5, <2>11, <3>1, <3>2, <3>3
      <3> QED
        BY <1>15, <3>4 DEF Underway
    <2>13. t.buf # <<>> => t.buf[1].at = 1
      <3>1. Piece(all, st[g + 1], t.buf)
        BY <2>10, <2>11
      <3> QED
        BY <1>2, <1>9, <2>2, <2>9, <3>1, StartByte
    <2>14. Undivided'
      <3>1. over = "mem" => t.buf = <<>>
        BY <1>16, <2>13
      <3> QED
        BY <1>1, <1>15, <1>16, <2>5, <3>1, EmptyWhole DEF Undivided
    <2>15. StreamOK(all, st, q)'
      BY <1>15, <2>8, <2>12, <2>14 DEF StreamOK
    <2> QED
      BY <2>7, <2>15
  <1> QED
    BY <1>17, <1>18

-----------------------------------------------------------------------------

LEMMA LineInit == FInit => StreamInv
  <1> SUFFICES ASSUME FInit PROVE StreamInv
    OBVIOUS
  <1> USE StreamFacts, Numbers
  <1>1. /\ frames[1] = <<>> /\ wire[1] = <<>> /\ wbuf[1] = <<>> /\ mu[1] = "free"
        /\ reader.at = "open" /\ reader.buf = <<>> /\ reader.have = <<>> /\ reader.got = <<>>
    BY DEF FInit
  <1>2. Len(<<>>) = 0
    OBVIOUS
  <1>3. Returned /\ Wanted /\ reader.at # "lost"
    BY <1>1, <1>2 DEF Returned, Wanted
  <1>4. PICK all, st : all = <<>> /\ st = [i \in 1..1 |-> 0]
    OBVIOUS
  <1>5. all \in Seq(Byte) /\ Len(all) = 0 /\ st \in [1..(0 + 1) -> Nat] /\ st[1] = 0
    BY <1>4
  <1>6. Layout(frames[1], all, st)
    BY <1>1, <1>2, <1>5 DEF Layout
  <1>7. Piece(all, 0, <<>>)
    BY <1>2, <1>5 DEF Piece
  <1>8. Underway(all, st, 0)
    <2>1. Position(st) = 0
      BY <1>1, <1>2, <1>5 DEF Position
    <2>2. Written(all, 0, <<>>, 0)
      BY WrittenNone
    <2> QED
      BY <1>1, <1>2, <1>7, <2>1, <2>2 DEF Underway
  <1>9. Sending(all, 0)
    BY <1>1, <1>5 DEF Sending
  <1>10. Undivided
    BY <1>1, <1>2, EmptyWhole DEF Undivided
  <1>11. StreamOK(all, st, 0)
    BY <1>3, <1>6, <1>8, <1>9, <1>10 DEF StreamOK
  <1> QED
    BY <1>3, <1>11 DEF StreamInv

LEMMA LineStep ==
    ASSUME FTypeOK, Counted, Locked, Unopened, StreamInv, [FNext]_fvars
    PROVE  StreamInv'
  <1>1. CASE UNCHANGED fvars
    <2>1. \A all, q : Sending(all, q) => Sending(all, q)'
      BY <1>1 DEF Sending, Broken, fvars
    <2> QED
      BY <1>1, <2>1, SameStream DEF fvars
  <1>2. CASE \E e \in {"dialled", "accepted"} : CloseEnd(e)
    BY <1>2, EndCloses
  <1>3. ASSUME NEW w \in Writers,
               \/ OpenLooks(w) \/ OpenStreamSync(w) \/ CacheStream(w) \/ WrapFails(w)
               \/ SetBuffers(w)
        PROVE  StreamInv'
    BY <1>3, OtherWriters
  <1>4. ASSUME NEW w \in Writers, NEW n \in FrameSizes, SendPrefix(w, n) PROVE StreamInv'
    BY <1>4, PrefixSent, SendElsewhere
  <1>5. ASSUME NEW w \in Writers, SendPayload(w) PROVE StreamInv'
    BY <1>5, PayloadSent, SendElsewhere
  <1>6. ASSUME NEW w \in Writers, Flush(w) PROVE StreamInv'
    BY <1>6, FrameFlushed, SendElsewhere
  <1>7. ASSUME NEW w \in Writers, SendReturns(w) PROVE StreamInv'
    BY <1>7, SendEnds
  <1>8. CASE OpenReader \/ OtherLooks \/ OtherSets
    BY <1>8, ReaderOpens, OthersOpen
  <1>9. CASE Fill \/ RecvPrefix \/ RecvPayload \/ RecvFails
    BY <1>9, BufferFilled, PrefixRead, PayloadRead, ReaderEnds
  <1> QED
    BY <1>1, <1>2, <1>3, <1>4, <1>5, <1>6, <1>7, <1>8, <1>9 DEF FNext

LEMMA FramesInit == FInit => FramesInv
  <1> SUFFICES ASSUME FInit PROVE FramesInv
    OBVIOUS
  <1>1. Counted
    BY DEF FInit, Counted
  <1>2. Locked /\ Unopened
    BY StreamFacts DEF FInit, Locked, Unopened, Busy, AtRest
  <1> QED
    BY <1>1, <1>2, FTypeInit, LineInit DEF FramesInv

LEMMA FramesStep == FramesInv /\ [FNext]_fvars => FramesInv'
  BY TypeStep, LockedStep, UnopenedStep, LineStep DEF FramesInv

\* On tcp, quic and mem, with buffers that were made once, RecvBytes returns the
\* payloads of the frames in the order in which SendBytes took the lock, each
\* whole, and never takes other bytes for a length: for any number of writers,
\* frames and streams, any sizes, however the writes are divided by the buffers
\* and the reads by the network, and wherever an end closes.
THEOREM FramesHold == FSpec => []FramesIntact
  <1>1. FramesInv => FramesIntact
    <2> SUFFICES ASSUME FramesInv, over # "winpipe", ~reopened
                 PROVE  /\ reader.at # "lost" /\ Len(reader.got) <= Len(frames[1])
                        /\ \A i \in DOMAIN reader.got : reader.got[i] = Payload(frames[1][i])
      BY DEF FramesIntact
    <2>1. Returned /\ reader.at # "lost"
      BY DEF FramesInv, StreamInv
    <2>2. DOMAIN reader.got = 1..Len(reader.got)
      BY TypeFacts, LenProperties DEF FramesInv
    <2> QED
      BY <2>1, <2>2 DEF Returned
  <1> QED
    BY <1>1, FramesInit, FramesStep, PTL DEF FSpec
=============================================================================
