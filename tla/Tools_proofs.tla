----------------------------- MODULE Tools_proofs -----------------------------
(***************************************************************************)
(* Proofs about Tools: the dialogue of a tool with its node over a stream, *)
(* for every tool, clock difference and number of faults.                  *)
(***************************************************************************)
EXTENDS Tools, SequenceTheorems, TLAPS

-----------------------------------------------------------------------------
(* On a stream requests go one way and replies come the other, in turns.   *)

Kinds ==
    {"Hello", "HelloAck", "GetIdentity", "IdentityReply", "GetRoutes", "RoutesReply", "TaskRegister",
     "TaskRegisterAck", "TaskListWorkers", "TaskListWorkersReply", "raw", "none"}

Message == [kind : Kinds, dest : {"", "a", "b", "nowhere", "tool", "temp", "none"}, status : BOOLEAN]

\* The turn of a request, and that of a reply; the rest has none.
AskTurn ==
    [k \in Kinds |-> IF k = "Hello" THEN 1
                     ELSE IF k \in {"TaskRegister", "GetIdentity"} THEN 2
                     ELSE IF k \in {"GetRoutes", "TaskListWorkers"} THEN 3 ELSE 0]
ReplyTurn ==
    [k \in Kinds |-> IF k = "HelloAck" THEN 1
                     ELSE IF k \in {"TaskRegisterAck", "IdentityReply"} THEN 2
                     ELSE IF k \in {"RoutesReply", "TaskListWorkersReply"} THEN 3 ELSE 0]

\* What has a turn in p, of length n, are turns lo + 1 to hi, in order.
Row(p, n, lo, hi) ==
    /\ lo <= hi
    /\ \A i \in 1..n : p[i] = 0 \/ p[i] \in (lo + 1)..hi
    /\ \A j \in (lo + 1)..hi : \E i \in 1..n : p[i] = j
    /\ \A i, k \in 1..n : i < k /\ p[i] # 0 /\ p[k] # 0 => p[i] < p[k]

InTurn(s, f, lo, hi) == Row([i \in 1..Len(s) |-> f[s[i].kind]], Len(s), lo, hi)

LEMMA TailIs ==
    ASSUME NEW C, NEW s \in Seq(C), s # <<>>
    PROVE  /\ Tail(s) \in Seq(C) /\ Len(s) \in Nat \ {0} /\ Len(Tail(s)) = Len(s) - 1
           /\ \A i \in 1..(Len(s) - 1) : Tail(s)[i] = s[i + 1]
           /\ s[1] \in C /\ Head(s) = s[1] /\ RemoveAt(s, 1) = Tail(s)
  <1>1. /\ Tail(s) \in Seq(C) /\ Len(s) \in Nat \ {0} /\ Len(Tail(s)) = Len(s) - 1
        /\ \A i \in 1..(Len(s) - 1) : Tail(s)[i] = s[i + 1]
        /\ s[1] \in C /\ Head(s) = s[1]
    BY EmptySeq, HeadTailProperties
  <1>2. RemoveAt(s, 1) = SubSeq(s, 1, 0) \o SubSeq(s, 2, Len(s))
    BY DEF RemoveAt
  <1>3. SubSeq(s, 1, 0) = <<>>
    BY SubSeqProperties
  <1>4. SubSeq(s, 2, Len(s)) = Tail(s)
    BY <1>1
  <1>5. <<>> \o Tail(s) = Tail(s)
    BY <1>1, ConcatProperties, ConcatEmptySeq
  <1> QED
    BY <1>1, <1>2, <1>3, <1>4, <1>5

LEMMA AppendIs ==
    ASSUME NEW C, NEW s \in Seq(C), NEW m \in C
    PROVE  /\ Append(s, m) \in Seq(C) /\ Len(s) \in Nat /\ Len(Append(s, m)) = Len(s) + 1
           /\ \A i \in 1..Len(s) : Append(s, m)[i] = s[i]
           /\ Append(s, m)[Len(s) + 1] = m /\ s \o <<m>> = Append(s, m)
           /\ s \o <<>> = s
  <1>1. /\ Append(s, m) \in Seq(C) /\ Len(s) \in Nat /\ Len(Append(s, m)) = Len(s) + 1
        /\ \A i \in 1..Len(s) : Append(s, m)[i] = s[i]
        /\ Append(s, m)[Len(s) + 1] = m
    BY AppendProperties, LenProperties
  <1>2. s \o <<m>> = Append(s, m)
    BY AppendIsConcat
  <1>3. s \o <<>> = s
    BY ConcatEmptySeq
  <1> QED
    BY <1>1, <1>2, <1>3

\* The first of a row has no turn, or the next.
LEMMA RowTaken ==
    ASSUME NEW n \in Nat \ {0}, NEW p, NEW q, NEW lo \in Nat, NEW hi \in Nat, Row(p, n, lo, hi),
           \A i \in 1..(n - 1) : q[i] = p[i + 1]
    PROVE  /\ p[1] = 0 => Row(q, n - 1, lo, hi)
           /\ p[1] # 0 => p[1] = lo + 1 /\ Row(q, n - 1, lo + 1, hi)
  <1>2. /\ \A i \in 1..n : p[i] = 0 \/ p[i] \in (lo + 1)..hi
        /\ \A j \in (lo + 1)..hi : \E i \in 1..n : p[i] = j
        /\ \A i, k \in 1..n : i < k /\ p[i] # 0 /\ p[k] # 0 => p[i] < p[k]
        /\ lo <= hi
    BY DEF Row
  <1>3. \A i, k \in 1..(n - 1) : i < k /\ q[i] # 0 /\ q[k] # 0 => q[i] < q[k]
    <2> SUFFICES ASSUME NEW i \in 1..(n - 1), NEW k \in 1..(n - 1), i < k, q[i] # 0, q[k] # 0
                 PROVE  q[i] < q[k]
      OBVIOUS
    <2>1. i + 1 \in 1..n /\ k + 1 \in 1..n /\ i + 1 < k + 1 /\ q[i] = p[i + 1] /\ q[k] = p[k + 1]
      OBVIOUS
    <2> QED
      BY <1>2, <2>1
  <1>4. ASSUME NEW j \in (lo + 1)..hi, p[1] # j PROVE \E i \in 1..(n - 1) : q[i] = j
    <2>1. PICK i \in 1..n : p[i] = j
      BY <1>2
    <2>2. i # 1
      BY <1>4, <2>1
    <2>3. i - 1 \in 1..(n - 1) /\ (i - 1) + 1 = i
      BY <2>2
    <2>4. q[i - 1] = j
      BY <2>1, <2>3
    <2> QED
      BY <2>3, <2>4
  <1>5. CASE p[1] = 0
    <2>1. \A j \in (lo + 1)..hi : \E i \in 1..(n - 1) : q[i] = j
      BY <1>4, <1>5
    <2>2. \A i \in 1..(n - 1) : q[i] = 0 \/ q[i] \in (lo + 1)..hi
      <3>1. \A i \in 1..(n - 1) : i + 1 \in 1..n
        OBVIOUS
      <3> QED
        BY <1>2, <3>1
    <2> QED
      BY <1>2, <1>3, <1>5, <2>1, <2>2 DEF Row
  <1>6. CASE p[1] # 0
    <2>1. p[1] = lo + 1 /\ lo + 1 <= hi
      <3>1. p[1] \in (lo + 1)..hi
        BY <1>2, <1>6
      <3>2. PICK i \in 1..n : p[i] = lo + 1
        BY <1>2, <3>1
      <3>3. i # 1 => p[1] < p[i]
        BY <1>2, <1>6, <3>2
      <3> QED
        BY <3>1, <3>2, <3>3
    <2>2. \A j \in ((lo + 1) + 1)..hi : \E i \in 1..(n - 1) : q[i] = j
      <3> SUFFICES ASSUME NEW j \in ((lo + 1) + 1)..hi PROVE \E i \in 1..(n - 1) : q[i] = j
        OBVIOUS
      <3>1. j \in (lo + 1)..hi /\ p[1] # j
        BY <2>1
      <3> QED
        BY <1>4, <3>1
    <2>3. \A i \in 1..(n - 1) : q[i] = 0 \/ q[i] \in ((lo + 1) + 1)..hi
      <3> SUFFICES ASSUME NEW i \in 1..(n - 1), q[i] # 0 PROVE q[i] \in ((lo + 1) + 1)..hi
        OBVIOUS
      <3>1. i + 1 \in 1..n /\ 1 \in 1..n /\ 1 < i + 1 /\ q[i] = p[i + 1]
        OBVIOUS
      <3>2. p[i + 1] \in (lo + 1)..hi /\ p[1] < p[i + 1]
        BY <1>2, <1>6, <3>1
      <3> QED
        BY <2>1, <3>1, <3>2
    <2>4. Row(q, n - 1, lo + 1, hi)
      BY <1>3, <2>1, <2>2, <2>3 DEF Row
    <2> QED
      BY <1>6, <2>1, <2>4
  <1> QED
    BY <1>5, <1>6

\* One without a turn may follow in a row, or the next.
LEMMA RowAdded ==
    ASSUME NEW n \in Nat, NEW p, NEW q, NEW lo \in Nat, NEW hi \in Nat, Row(p, n, lo, hi),
           \A i \in 1..n : q[i] = p[i]
    PROVE  /\ q[n + 1] = 0 => Row(q, n + 1, lo, hi)
           /\ q[n + 1] = hi + 1 => Row(q, n + 1, lo, hi + 1)
  <1>2. /\ \A i \in 1..n : q[i] = 0 \/ q[i] \in (lo + 1)..hi
        /\ \A j \in (lo + 1)..hi : \E i \in 1..n : q[i] = j
        /\ \A i, k \in 1..n : i < k /\ q[i] # 0 /\ q[k] # 0 => q[i] < q[k]
        /\ lo <= hi
    BY DEF Row
  <1>3. \A i \in 1..(n + 1) : i \in 1..n \/ i = n + 1
    OBVIOUS
  <1>4. \A i \in 1..n : i \in 1..(n + 1)
    OBVIOUS
  <1>5. ASSUME q[n + 1] = 0 PROVE Row(q, n + 1, lo, hi)
    <2>1. \A i \in 1..(n + 1) : q[i] = 0 \/ q[i] \in (lo + 1)..hi
      BY <1>2, <1>3, <1>5
    <2>2. \A i, k \in 1..(n + 1) : i < k /\ q[i] # 0 /\ q[k] # 0 => q[i] < q[k]
      BY <1>2, <1>3, <1>5
    <2>3. \A j \in (lo + 1)..hi : \E i \in 1..(n + 1) : q[i] = j
      BY <1>2, <1>4
    <2> QED
      BY <1>2, <2>1, <2>2, <2>3 DEF Row
  <1>6. ASSUME q[n + 1] = hi + 1 PROVE Row(q, n + 1, lo, hi + 1)
    <2>1. \A i \in 1..(n + 1) : q[i] = 0 \/ q[i] \in (lo + 1)..(hi + 1)
      <3> SUFFICES ASSUME NEW i \in 1..(n + 1), q[i] # 0 PROVE q[i] \in (lo + 1)..(hi + 1)
        OBVIOUS
      <3>1. CASE i = n + 1
        BY <1>2, <1>6, <3>1
      <3>2. CASE i # n + 1
        BY <1>2, <1>3, <3>2
      <3> QED
        BY <3>1, <3>2
    <2>2. \A i, k \in 1..(n + 1) : i < k /\ q[i] # 0 /\ q[k] # 0 => q[i] < q[k]
      <3> SUFFICES ASSUME NEW i \in 1..(n + 1), NEW k \in 1..(n + 1), i < k, q[i] # 0, q[k] # 0
                   PROVE  q[i] < q[k]
        OBVIOUS
      <3>1. i \in 1..n
        OBVIOUS
      <3>2. CASE k = n + 1
        BY <1>2, <1>6, <3>1, <3>2
      <3>3. CASE k # n + 1
        BY <1>2, <1>3, <3>1, <3>3
      <3> QED
        BY <3>2, <3>3
    <2>3. \A j \in (lo + 1)..(hi + 1) : \E i \in 1..(n + 1) : q[i] = j
      <3> SUFFICES ASSUME NEW j \in (lo + 1)..(hi + 1) PROVE \E i \in 1..(n + 1) : q[i] = j
        OBVIOUS
      <3>1. CASE j = hi + 1
        BY <1>6, <3>1
      <3>2. CASE j # hi + 1
        <4>1. j \in (lo + 1)..hi
          BY <3>2
        <4> QED
          BY <1>2, <1>4, <4>1
      <3> QED
        BY <3>1, <3>2
    <2>4. lo <= hi + 1
      BY <1>2
    <2> QED
      BY <2>1, <2>2, <2>3, <2>4 DEF Row
  <1> QED
    BY <1>5, <1>6

\* The same of messages.
LEMMA TurnTaken ==
    ASSUME NEW C, NEW s \in Seq(C), s # <<>>, NEW f, NEW lo \in Nat, NEW hi \in Nat,
           InTurn(s, f, lo, hi)
    PROVE  /\ f[s[1].kind] = 0 => InTurn(Tail(s), f, lo, hi)
           /\ f[s[1].kind] # 0 => f[s[1].kind] = lo + 1 /\ InTurn(Tail(s), f, lo + 1, hi)
  <1>0. /\ Tail(s) \in Seq(C) /\ Len(s) \in Nat \ {0} /\ Len(Tail(s)) = Len(s) - 1
        /\ \A i \in 1..(Len(s) - 1) : Tail(s)[i] = s[i + 1]
    BY TailIs
  <1>1. PICK n \in Nat \ {0}, t \in Seq(C) : t = Tail(s) /\ n = Len(s)
    BY <1>0
  <1>2. Len(t) = n - 1 /\ \A i \in 1..(n - 1) : t[i] = s[i + 1]
    BY <1>0, <1>1
  <1>3. PICK p, q : p = [i \in 1..n |-> f[s[i].kind]] /\ q = [i \in 1..(n - 1) |-> f[t[i].kind]]
    OBVIOUS
  <1>4. \A i \in 1..(n - 1) : q[i] = p[i + 1]
    BY <1>2, <1>3
  <1>5. Row(p, n, lo, hi) /\ p[1] = f[s[1].kind]
    BY <1>1, <1>3 DEF InTurn
  <1>6. /\ p[1] = 0 => Row(q, n - 1, lo, hi)
        /\ p[1] # 0 => p[1] = lo + 1 /\ Row(q, n - 1, lo + 1, hi)
    BY <1>4, <1>5, RowTaken
  <1>7. \A l, h : Row(q, n - 1, l, h) <=> InTurn(t, f, l, h)
    BY <1>2, <1>3 DEF InTurn
  <1> QED
    BY <1>1, <1>5, <1>6, <1>7

LEMMA TurnAdded ==
    ASSUME NEW C, NEW s \in Seq(C), NEW m \in C, NEW f, NEW lo \in Nat, NEW hi \in Nat,
           InTurn(s, f, lo, hi)
    PROVE  /\ f[m.kind] = 0 => InTurn(Append(s, m), f, lo, hi)
           /\ f[m.kind] = hi + 1 => InTurn(Append(s, m), f, lo, hi + 1)
  <1>0. /\ Append(s, m) \in Seq(C) /\ Len(s) \in Nat /\ Len(Append(s, m)) = Len(s) + 1
        /\ \A i \in 1..Len(s) : Append(s, m)[i] = s[i]
        /\ Append(s, m)[Len(s) + 1] = m
    BY AppendIs
  <1>1. PICK n \in Nat, t \in Seq(C) : t = Append(s, m) /\ n = Len(s)
    BY <1>0
  <1>2. Len(t) = n + 1 /\ t[n + 1] = m /\ \A i \in 1..n : t[i] = s[i]
    BY <1>0, <1>1
  <1>3. PICK p, q : p = [i \in 1..n |-> f[s[i].kind]] /\ q = [i \in 1..(n + 1) |-> f[t[i].kind]]
    OBVIOUS
  <1>4. q[n + 1] = f[m.kind] /\ \A i \in 1..n : q[i] = p[i]
    BY <1>2, <1>3
  <1>5. Row(p, n, lo, hi)
    BY <1>1, <1>3 DEF InTurn
  <1>6. /\ q[n + 1] = 0 => Row(q, n + 1, lo, hi)
        /\ q[n + 1] = hi + 1 => Row(q, n + 1, lo, hi + 1)
    BY <1>4, <1>5, RowAdded
  <1>7. \A l, h : Row(q, n + 1, l, h) <=> InTurn(t, f, l, h)
    BY <1>2, <1>3 DEF InTurn
  <1> QED
    BY <1>1, <1>4, <1>6, <1>7

-----------------------------------------------------------------------------
(* What holds of an open session between tool t, which is at p and has got *)
(* the replies g, and its handler, which is at h, with what is in the      *)
(* stream up to the node and down to the tool.  Without a HelloAck (b = 1) *)
(* replies begin with the second turn.                                     *)

Requests(t) ==
    {PeerHello} \cup (IF t = "worker" THEN {TaskRegister}
                      ELSE IF t = "ctl" THEN {GetIdentity, GetRoutes, TaskListWorkers} ELSE {})
Due(t, b) ==
    {x \in {PeerHelloAck} : b = 0}
    \cup (IF t = "worker" THEN {TaskRegisterAck}
          ELSE IF t = "ctl" THEN {IdentityReply, RoutesReply, TaskListWorkersReply} ELSE {})

Stages(t) ==
    {"hello"} \cup (IF t = "worker" THEN {"await", "registered"}
                    ELSE IF t = "client" THEN {"await", "sent"}
                    ELSE {"ask", "askMore", "GetIdentity", "GetRoutes", "TaskListWorkers"})

\* How many requests a tool at p has made.
Asked(p) ==
    IF p = "hello" THEN 0
    ELSE IF p \in {"await", "ask", "sent"} THEN 1
    ELSE IF p \in {"registered", "GetIdentity", "askMore"} THEN 2 ELSE 3

\* The handler has taken the requests up to turn lo and replied up to turn hi.
Handled(h, b, lo, hi) ==
    \/ h = "first" /\ lo = 0 /\ hi = b
    \/ h = "hello" /\ lo = 1 /\ hi = 0 /\ b = 0
    \/ h = "loop" /\ lo >= 1 /\ hi = lo

OpenOK(t, b, p, h, up, down, g) ==
    /\ p \in Stages(t)
    /\ \A i \in 1..Len(up) : up[i] \in Requests(t) \/ up[i].kind = "raw"
    /\ \A i \in 1..Len(down) : down[i] \in Due(t, b) \/ ~IsControl(down[i])
    /\ h = "first" /\ up # <<>> => up[1] = PeerHello
    /\ \E lo, hi \in 0..3 :
          /\ Handled(h, b, lo, hi)
          /\ InTurn(up, AskTurn, lo, Asked(p))
          /\ InTurn(down, ReplyTurn, b + Len(g), hi)

LEMMA Messages ==
    /\ {PeerHello, PeerHelloAck, GetIdentity, IdentityReply, GetRoutes, RoutesReply, TaskRegister,
        TaskRegisterAck, TaskListWorkers, TaskListWorkersReply} \subseteq Message
    /\ PeerHello.kind = "Hello" /\ PeerHelloAck.kind = "HelloAck"
    /\ GetIdentity.kind = "GetIdentity" /\ IdentityReply.kind = "IdentityReply"
    /\ GetRoutes.kind = "GetRoutes" /\ RoutesReply.kind = "RoutesReply"
    /\ TaskRegister.kind = "TaskRegister" /\ TaskRegisterAck.kind = "TaskRegisterAck"
    /\ TaskListWorkers.kind = "TaskListWorkers" /\ TaskListWorkersReply.kind = "TaskListWorkersReply"
  BY DEF Message, Kinds, PeerHello, PeerHelloAck, GetIdentity, IdentityReply, GetRoutes, RoutesReply,
         TaskRegister, TaskRegisterAck, TaskListWorkers, TaskListWorkersReply, Control, Msg

LEMMA AskTurns ==
    /\ \A k \in Kinds : AskTurn[k] \in 0..3
    /\ AskTurn["Hello"] = 1 /\ AskTurn["TaskRegister"] = 2 /\ AskTurn["GetIdentity"] = 2
    /\ AskTurn["GetRoutes"] = 3 /\ AskTurn["TaskListWorkers"] = 3 /\ AskTurn["raw"] = 0
  BY DEF AskTurn, Kinds

LEMMA ReplyTurns ==
    /\ \A k \in Kinds : ReplyTurn[k] \in 0..3
    /\ ReplyTurn["HelloAck"] = 1 /\ ReplyTurn["TaskRegisterAck"] = 2 /\ ReplyTurn["IdentityReply"] = 2
    /\ ReplyTurn["RoutesReply"] = 3 /\ ReplyTurn["TaskListWorkersReply"] = 3
    /\ ReplyTurn["raw"] = 0 /\ ReplyTurn["none"] = 0
  BY DEF ReplyTurn, Kinds

LEMMA AskedIs == \A p : Asked(p) \in 0..3
  BY DEF Asked

\* The replies that are due have turns, what is no control message has none.
LEMMA DueTurns ==
    ASSUME NEW t, NEW b
    PROVE  /\ \A m \in Due(t, b) : IsControl(m) /\ ReplyTurn[m.kind] \in 1..3 /\ m \in Message
           /\ \A m \in Message : ~IsControl(m) => ReplyTurn[m.kind] = 0
           /\ \A m \in Requests(t) : AskTurn[m.kind] \in 1..3 /\ m \in Message
           /\ \A m \in Requests(t) : AskTurn[m.kind] = 1 => m = PeerHello
  <1>1. \A m \in Due(t, b) : IsControl(m) /\ ReplyTurn[m.kind] \in 1..3 /\ m \in Message
    BY Messages, ReplyTurns DEF Due, IsControl
  <1>2. \A m \in Message : ~IsControl(m) => ReplyTurn[m.kind] = 0
    BY ReplyTurns DEF IsControl
  <1>3. \A m \in Requests(t) : AskTurn[m.kind] \in 1..3 /\ m \in Message
    BY Messages, AskTurns DEF Requests
  <1>4. \A m \in Requests(t) : AskTurn[m.kind] = 1 => m = PeerHello
    BY Messages, AskTurns DEF Requests
  <1> QED
    BY <1>1, <1>2, <1>3, <1>4

\* The tool goes on.
LEMMA OpenGoesOn ==
    ASSUME NEW t, NEW b, NEW p, NEW h, NEW up, NEW down, NEW g, OpenOK(t, b, p, h, up, down, g),
           NEW p2, p2 \in Stages(t), Asked(p2) = Asked(p)
    PROVE  OpenOK(t, b, p2, h, up, down, g)
  BY DEF OpenOK

\* It sends a message or its next request.
LEMMA OpenAsks ==
    ASSUME NEW t, NEW b \in {0, 1}, NEW p, NEW h, NEW up \in Seq(Message), NEW down, NEW g,
           OpenOK(t, b, p, h, up, down, g), NEW p2, p2 \in Stages(t), NEW m \in Message,
           \/ m.kind = "raw" /\ Asked(p2) = Asked(p) /\ Asked(p) >= 1
           \/ m \in Requests(t) /\ AskTurn[m.kind] = Asked(p) + 1 /\ Asked(p2) = Asked(p) + 1
    PROVE  OpenOK(t, b, p2, h, Append(up, m), down, g)
  <1>0. /\ p \in Stages(t)
        /\ \A i \in 1..Len(up) : up[i] \in Requests(t) \/ up[i].kind = "raw"
        /\ \A i \in 1..Len(down) : down[i] \in Due(t, b) \/ ~IsControl(down[i])
        /\ h = "first" /\ up # <<>> => up[1] = PeerHello
    BY DEF OpenOK
  <1>1. PICK lo \in 0..3, hi \in 0..3 :
          /\ Handled(h, b, lo, hi)
          /\ InTurn(up, AskTurn, lo, Asked(p))
          /\ InTurn(down, ReplyTurn, b + Len(g), hi)
    BY DEF OpenOK
  <1>2. lo \in Nat /\ Asked(p) \in Nat
    BY AskedIs
  <1>3. PICK new \in Seq(Message), n \in Nat :
           /\ new = Append(up, m) /\ n = Len(up) /\ Len(new) = n + 1
           /\ new[n + 1] = m /\ \A i \in 1..n : new[i] = up[i]
    <2>1. /\ Append(up, m) \in Seq(Message) /\ Len(up) \in Nat /\ Len(Append(up, m)) = Len(up) + 1
          /\ \A i \in 1..Len(up) : Append(up, m)[i] = up[i]
          /\ Append(up, m)[Len(up) + 1] = m
      BY AppendIs
    <2> QED
      BY <2>1
  <1>4. InTurn(new, AskTurn, lo, Asked(p2))
    <2>1. AskTurn["raw"] = 0
      BY AskTurns
    <2> QED
      BY <1>1, <1>2, <1>3, <2>1, TurnAdded
  <1>5. \A i \in 1..Len(new) : new[i] \in Requests(t) \/ new[i].kind = "raw"
    BY <1>0, <1>3
  <1>6. ASSUME h = "first", new # <<>> PROVE new[1] = PeerHello
    <2>1. CASE n = 0
      <3>1. up = <<>> /\ lo = 0
        BY <1>1, <1>3, <1>6, <2>1, EmptySeq DEF Handled
      <3>2. Asked(p) = 0
        <4>1. Row([i \in 1..Len(up) |-> AskTurn[up[i].kind]], 0, 0, Asked(p))
          BY <1>1, <1>3, <2>1, <3>1 DEF InTurn
        <4>2. \A j \in (0 + 1)..Asked(p) : \E i \in 1..0 : TRUE
          BY <4>1 DEF Row
        <4> QED
          BY <1>2, <4>2
      <3>3. m \in Requests(t) /\ AskTurn[m.kind] = 1
        BY <3>2
      <3>4. m = PeerHello
        BY <3>3, DueTurns
      <3> QED
        BY <1>3, <2>1, <3>4
    <2>2. CASE n # 0
      <3>1. up # <<>> /\ 1 \in 1..n
        BY <1>3, <2>2, EmptySeq
      <3> QED
        BY <1>0, <1>3, <1>6, <3>1
    <2> QED
      BY <2>1, <2>2
  <1>7. OpenOK(t, b, p2, h, new, down, g)
    BY <1>0, <1>1, <1>4, <1>5, <1>6 DEF OpenOK
  <1> QED
    BY <1>3, <1>7

\* Something that is no control message comes down.
LEMMA OpenForwards ==
    ASSUME NEW t, NEW b \in {0, 1}, NEW p, NEW h, NEW up, NEW down \in Seq(Message), NEW C, NEW g \in Seq(C),
           OpenOK(t, b, p, h, up, down, g), NEW m \in Message, ~IsControl(m)
    PROVE  OpenOK(t, b, p, h, up, Append(down, m), g)
  <1>0. /\ p \in Stages(t)
        /\ \A i \in 1..Len(up) : up[i] \in Requests(t) \/ up[i].kind = "raw"
        /\ \A i \in 1..Len(down) : down[i] \in Due(t, b) \/ ~IsControl(down[i])
        /\ h = "first" /\ up # <<>> => up[1] = PeerHello
    BY DEF OpenOK
  <1>1. PICK lo \in 0..3, hi \in 0..3 :
          /\ Handled(h, b, lo, hi)
          /\ InTurn(up, AskTurn, lo, Asked(p))
          /\ InTurn(down, ReplyTurn, b + Len(g), hi)
    BY DEF OpenOK
  <1>2. b + Len(g) \in Nat /\ hi \in Nat /\ ReplyTurn[m.kind] = 0
    BY LenProperties, DueTurns
  <1>3. PICK new \in Seq(Message), n \in Nat :
           /\ new = Append(down, m) /\ n = Len(down) /\ Len(new) = n + 1
           /\ new[n + 1] = m /\ \A i \in 1..n : new[i] = down[i]
    <2>1. /\ Append(down, m) \in Seq(Message) /\ Len(down) \in Nat /\ Len(Append(down, m)) = Len(down) + 1
          /\ \A i \in 1..Len(down) : Append(down, m)[i] = down[i]
          /\ Append(down, m)[Len(down) + 1] = m
      BY AppendIs
    <2> QED
      BY <2>1
  <1>4. InTurn(new, ReplyTurn, b + Len(g), hi)
    BY <1>1, <1>2, <1>3, TurnAdded
  <1>5. \A i \in 1..Len(new) : new[i] \in Due(t, b) \/ ~IsControl(new[i])
    BY <1>0, <1>3
  <1>6. OpenOK(t, b, p, h, up, new, g)
    BY <1>0, <1>1, <1>4, <1>5 DEF OpenOK
  <1> QED
    BY <1>3, <1>6

\* The tool reads.
LEMMA OpenReads ==
    ASSUME NEW t, NEW b \in {0, 1}, NEW p, NEW h, NEW up, NEW down \in Seq(Message), 
           NEW g \in Seq(Due(t, b)),
           OpenOK(t, b, p, h, up, down, g), down # <<>>
    PROVE  /\ ~IsControl(down[1]) => OpenOK(t, b, p, h, up, Tail(down), g)
           /\ IsControl(down[1]) =>
                 /\ down[1] \in Due(t, b) /\ ReplyTurn[down[1].kind] = b + Len(g) + 1
                 /\ OpenOK(t, b, p, h, up, Tail(down), Append(g, down[1]))
  <1>0. /\ p \in Stages(t)
        /\ \A i \in 1..Len(up) : up[i] \in Requests(t) \/ up[i].kind = "raw"
        /\ \A i \in 1..Len(down) : down[i] \in Due(t, b) \/ ~IsControl(down[i])
        /\ h = "first" /\ up # <<>> => up[1] = PeerHello
    BY DEF OpenOK
  <1>1. PICK lo \in 0..3, hi \in 0..3 :
          /\ Handled(h, b, lo, hi)
          /\ InTurn(up, AskTurn, lo, Asked(p))
          /\ InTurn(down, ReplyTurn, b + Len(g), hi)
    BY DEF OpenOK
  <1>2. PICK k \in Nat : k = b + Len(g)
    BY LenProperties
  <1>3. PICK new \in Seq(Message), n \in Nat \ {0}, m \in Message :
           /\ new = Tail(down) /\ n = Len(down) /\ Len(new) = n - 1 /\ m = down[1]
           /\ \A i \in 1..(n - 1) : new[i] = down[i + 1]
    <2>1. /\ Tail(down) \in Seq(Message) /\ Len(down) \in Nat \ {0} /\ Len(Tail(down)) = Len(down) - 1
          /\ \A i \in 1..(Len(down) - 1) : Tail(down)[i] = down[i + 1]
          /\ down[1] \in Message
      BY TailIs
    <2> QED
      BY <2>1
  <1>4. \A i \in 1..Len(new) : new[i] \in Due(t, b) \/ ~IsControl(new[i])
    <2>1. \A i \in 1..(n - 1) : i + 1 \in 1..n
      OBVIOUS
    <2> QED
      BY <1>0, <1>3, <2>1
  <1>5. /\ ReplyTurn[m.kind] = 0 => InTurn(new, ReplyTurn, k, hi)
        /\ ReplyTurn[m.kind] # 0 => ReplyTurn[m.kind] = k + 1 /\ InTurn(new, ReplyTurn, k + 1, hi)
    <2>1. InTurn(down, ReplyTurn, k, hi) /\ hi \in Nat
      BY <1>1, <1>2
    <2> QED
      BY <1>3, <2>1, TurnTaken
  <1>6. ASSUME ~IsControl(m) PROVE OpenOK(t, b, p, h, up, new, g)
    <2>1. InTurn(new, ReplyTurn, b + Len(g), hi)
      BY <1>2, <1>5, <1>6, DueTurns
    <2> QED
      BY <1>0, <1>1, <1>4, <2>1 DEF OpenOK
  <1>7. ASSUME IsControl(m)
        PROVE  /\ m \in Due(t, b) /\ ReplyTurn[m.kind] = k + 1
               /\ OpenOK(t, b, p, h, up, new, Append(g, m))
    <2>1. m \in Due(t, b)
      <3>1. 1 \in 1..n
        OBVIOUS
      <3> QED
        BY <1>0, <1>3, <1>7, <3>1
    <2>2. ReplyTurn[m.kind] # 0
      <3>1. ReplyTurn[m.kind] \in 1..3
        BY <2>1, DueTurns
      <3> QED
        BY <3>1
    <2>3. OpenOK(t, b, p, h, up, new, Append(g, m))
      <3>0. PICK g2 : g2 = Append(g, m)
        OBVIOUS
      <3>1. b + Len(g2) = k + 1
        <4>1. Len(g2) = Len(g) + 1 /\ Len(g) \in Nat
          BY <2>1, <3>0, AppendIs
        <4> QED
          BY <1>2, <4>1
      <3>2. InTurn(new, ReplyTurn, b + Len(g2), hi)
        BY <1>5, <2>2, <3>1
      <3>3. OpenOK(t, b, p, h, up, new, g2)
        BY <1>0, <1>1, <1>4, <3>2 DEF OpenOK
      <3> QED
        BY <3>0, <3>3
    <2> QED
      BY <1>5, <2>1, <2>2, <2>3
  <1> QED
    BY <1>2, <1>3, <1>6, <1>7

\* The requests that are left once the handler has taken one.
LEMMA UpTaken ==
    ASSUME NEW t, NEW up \in Seq(Message), up # <<>>, NEW lo \in Nat, NEW a \in Nat,
           InTurn(up, AskTurn, lo, a),
           \A i \in 1..Len(up) : up[i] \in Requests(t) \/ up[i].kind = "raw"
    PROVE  /\ Tail(up) \in Seq(Message) /\ up[1] \in Message
           /\ \A i \in 1..Len(Tail(up)) : Tail(up)[i] \in Requests(t) \/ Tail(up)[i].kind = "raw"
           /\ up[1].kind = "raw" => InTurn(Tail(up), AskTurn, lo, a)
           /\ up[1] \in Requests(t) => /\ AskTurn[up[1].kind] = lo + 1
                                       /\ InTurn(Tail(up), AskTurn, lo + 1, a)
           /\ up[1].kind = "raw" \/ up[1] \in Requests(t)
  <1>1. PICK new \in Seq(Message), n \in Nat \ {0}, m \in Message :
           /\ new = Tail(up) /\ n = Len(up) /\ Len(new) = n - 1 /\ m = up[1]
           /\ \A i \in 1..(n - 1) : new[i] = up[i + 1]
    <2>1. /\ Tail(up) \in Seq(Message) /\ Len(up) \in Nat \ {0} /\ Len(Tail(up)) = Len(up) - 1
          /\ \A i \in 1..(Len(up) - 1) : Tail(up)[i] = up[i + 1]
          /\ up[1] \in Message
      BY TailIs
    <2> QED
      BY <2>1
  <1>2. \A i \in 1..Len(new) : new[i] \in Requests(t) \/ new[i].kind = "raw"
    <2>1. \A i \in 1..(n - 1) : i + 1 \in 1..n
      OBVIOUS
    <2> QED
      BY <1>1, <2>1
  <1>3. m.kind = "raw" \/ m \in Requests(t)
    <2>1. 1 \in 1..n
      OBVIOUS
    <2> QED
      BY <1>1, <2>1
  <1>4. /\ AskTurn[m.kind] = 0 => InTurn(new, AskTurn, lo, a)
        /\ AskTurn[m.kind] # 0 => AskTurn[m.kind] = lo + 1 /\ InTurn(new, AskTurn, lo + 1, a)
    BY <1>1, TurnTaken
  <1>5. m.kind = "raw" => AskTurn[m.kind] = 0
    BY AskTurns
  <1>6. m \in Requests(t) => AskTurn[m.kind] # 0
    <2>1. m \in Requests(t) => AskTurn[m.kind] \in 1..3
      BY DueTurns
    <2> QED
      BY <2>1
  <1> QED
    BY <1>1, <1>2, <1>3, <1>4, <1>5, <1>6

\* The handler takes the first message, a Hello.
LEMMA OpenFirst ==
    ASSUME NEW t, NEW b \in {0, 1}, NEW p, NEW up \in Seq(Message), NEW down, NEW C, NEW g \in Seq(C),
           OpenOK(t, b, p, "first", up, down, g), up # <<>>
    PROVE  /\ up[1] = PeerHello
           /\ OpenOK(t, b, p, IF b = 0 THEN "hello" ELSE "loop", Tail(up), down, g)
  <1>0. /\ p \in Stages(t)
        /\ \A i \in 1..Len(up) : up[i] \in Requests(t) \/ up[i].kind = "raw"
        /\ \A i \in 1..Len(down) : down[i] \in Due(t, b) \/ ~IsControl(down[i])
        /\ up[1] = PeerHello
    BY DEF OpenOK
  <1>1. PICK lo \in 0..3, hi \in 0..3 :
          /\ Handled("first", b, lo, hi)
          /\ InTurn(up, AskTurn, lo, Asked(p))
          /\ InTurn(down, ReplyTurn, b + Len(g), hi)
    BY DEF OpenOK
  <1>2. lo = 0 /\ hi = b
    BY <1>1 DEF Handled
  <1>3. Asked(p) \in Nat /\ up[1] \in Requests(t)
    BY <1>0, AskedIs DEF Requests
  <1>4. InTurn(up, AskTurn, 0, Asked(p))
    BY <1>1, <1>2
  <1>5. /\ InTurn(Tail(up), AskTurn, 0 + 1, Asked(p))
        /\ \A i \in 1..Len(Tail(up)) : Tail(up)[i] \in Requests(t) \/ Tail(up)[i].kind = "raw"
    BY <1>0, <1>3, <1>4, UpTaken
  <1>6. PICK new : new = Tail(up)
    OBVIOUS
  <1>7. InTurn(new, AskTurn, 1, Asked(p))
    BY <1>5, <1>6
  <1>8. InTurn(down, ReplyTurn, b + Len(g), b)
    BY <1>1, <1>2
  <1>9. CASE b = 0
    <2>1. Handled("hello", b, 1, 0)
      BY <1>9 DEF Handled
    <2>2. OpenOK(t, b, p, "hello", new, down, g)
      BY <1>0, <1>5, <1>6, <1>7, <1>8, <1>9, <2>1 DEF OpenOK
    <2> QED
      BY <1>0, <1>6, <1>9, <2>2
  <1>10. CASE b = 1
    <2>1. Handled("loop", b, 1, 1)
      BY DEF Handled
    <2>2. OpenOK(t, b, p, "loop", new, down, g)
      BY <1>0, <1>5, <1>6, <1>7, <1>8, <1>10, <2>1 DEF OpenOK
    <2> QED
      BY <1>0, <1>6, <1>10, <2>2
  <1> QED
    BY <1>9, <1>10

\* The handler sends a reply whose turn it is.
LEMMA DownAdded ==
    ASSUME NEW t, NEW b \in {0, 1}, NEW down \in Seq(Message), NEW k \in Nat, NEW hi \in Nat,
           \A i \in 1..Len(down) : down[i] \in Due(t, b) \/ ~IsControl(down[i]),
           InTurn(down, ReplyTurn, k, hi), NEW m \in Due(t, b), ReplyTurn[m.kind] = hi + 1
    PROVE  /\ InTurn(Append(down, m), ReplyTurn, k, hi + 1)
           /\ \A i \in 1..Len(Append(down, m)) :
                 Append(down, m)[i] \in Due(t, b) \/ ~IsControl(Append(down, m)[i])
  <1>1. m \in Message
    BY DueTurns
  <1>2. PICK new \in Seq(Message), n \in Nat :
           /\ new = Append(down, m) /\ n = Len(down) /\ Len(new) = n + 1
           /\ new[n + 1] = m /\ \A i \in 1..n : new[i] = down[i]
    <2>1. /\ Append(down, m) \in Seq(Message) /\ Len(down) \in Nat /\ Len(Append(down, m)) = Len(down) + 1
          /\ \A i \in 1..Len(down) : Append(down, m)[i] = down[i]
          /\ Append(down, m)[Len(down) + 1] = m
      BY <1>1, AppendIs
    <2> QED
      BY <2>1
  <1>3. InTurn(new, ReplyTurn, k, hi + 1)
    BY <1>1, <1>2, TurnAdded
  <1>4. \A i \in 1..Len(new) : new[i] \in Due(t, b) \/ ~IsControl(new[i])
    BY <1>2
  <1> QED
    BY <1>2, <1>3, <1>4

\* The HelloAck.
LEMMA OpenAcks ==
    ASSUME NEW t, NEW b \in {0, 1}, NEW p, NEW up, NEW down \in Seq(Message), NEW C, NEW g \in Seq(C),
           OpenOK(t, b, p, "hello", up, down, g)
    PROVE  OpenOK(t, b, p, "loop", up, Append(down, PeerHelloAck), g)
  <1>0. /\ p \in Stages(t)
        /\ \A i \in 1..Len(up) : up[i] \in Requests(t) \/ up[i].kind = "raw"
        /\ \A i \in 1..Len(down) : down[i] \in Due(t, b) \/ ~IsControl(down[i])
    BY DEF OpenOK
  <1>1. PICK lo \in 0..3, hi \in 0..3 :
          /\ Handled("hello", b, lo, hi)
          /\ InTurn(up, AskTurn, lo, Asked(p))
          /\ InTurn(down, ReplyTurn, b + Len(g), hi)
    BY DEF OpenOK
  <1>2. lo = 1 /\ hi = 0 /\ b = 0
    BY <1>1 DEF Handled
  <1>3. PeerHelloAck \in Due(t, b) /\ ReplyTurn[PeerHelloAck.kind] = 0 + 1
    BY <1>2, Messages, ReplyTurns DEF Due
  <1>4. PICK k \in Nat : k = b + Len(g)
    BY LenProperties
  <1>5. InTurn(down, ReplyTurn, k, 0)
    BY <1>1, <1>2, <1>4
  <1>6. PICK new : new = Append(down, PeerHelloAck)
    OBVIOUS
  <1>7. /\ InTurn(new, ReplyTurn, k, 0 + 1)
        /\ \A i \in 1..Len(new) : new[i] \in Due(t, b) \/ ~IsControl(new[i])
    BY <1>0, <1>3, <1>5, <1>6, DownAdded
  <1>8. Handled("loop", b, 1, 1) /\ InTurn(new, ReplyTurn, b + Len(g), 1)
        /\ InTurn(up, AskTurn, 1, Asked(p))
    BY <1>1, <1>2, <1>4, <1>7 DEF Handled
  <1>9. OpenOK(t, b, p, "loop", up, new, g)
    BY <1>0, <1>7, <1>8 DEF OpenOK
  <1> QED
    BY <1>6, <1>9

\* What the handler replies to.
LEMMA ReplyIs ==
    /\ ReplyTo(GetIdentity) = <<IdentityReply>> /\ ReplyTo(GetRoutes) = <<RoutesReply>>
    /\ ReplyTo(TaskRegister) = <<TaskRegisterAck>>
    /\ ReplyTo(TaskListWorkers) = <<TaskListWorkersReply>>
    /\ \A m : m.kind = "raw" => ReplyTo(m) = <<>>
  <1>1. /\ GetRoutes # GetIdentity /\ GetRoutes # TaskRegister /\ GetRoutes # TaskListWorkers
        /\ GetIdentity # TaskRegister /\ GetIdentity # TaskListWorkers /\ TaskRegister # TaskListWorkers
    BY Messages
  <1>2. \A m : m.kind = "raw" => m \notin {GetRoutes, GetIdentity, TaskRegister, TaskListWorkers}
    BY Messages
  <1> QED
    BY <1>1, <1>2 DEF ReplyTo

\* A round of the handler's loop.
LEMMA OpenServes ==
    ASSUME NEW t \in {"worker", "client", "ctl"}, NEW b \in {0, 1}, NEW p, NEW up \in Seq(Message),
           NEW down \in Seq(Message), NEW C, NEW g \in Seq(C),
           OpenOK(t, b, p, "loop", up, down, g), up # <<>>
    PROVE  /\ up[1].kind = "raw" => OpenOK(t, b, p, "loop", Tail(up), down, g)
           /\ up[1].kind # "raw" =>
                 \E m \in Message : /\ ReplyTo(up[1]) = <<m>> /\ up[1].dest = ""
                                    /\ OpenOK(t, b, p, "loop", Tail(up), Append(down, m), g)
  <1>0. /\ p \in Stages(t)
        /\ \A i \in 1..Len(up) : up[i] \in Requests(t) \/ up[i].kind = "raw"
        /\ \A i \in 1..Len(down) : down[i] \in Due(t, b) \/ ~IsControl(down[i])
    BY DEF OpenOK
  <1>1. PICK lo \in 0..3, hi \in 0..3 :
          /\ Handled("loop", b, lo, hi)
          /\ InTurn(up, AskTurn, lo, Asked(p))
          /\ InTurn(down, ReplyTurn, b + Len(g), hi)
    BY DEF OpenOK
  <1>2. lo >= 1 /\ hi = lo
    BY <1>1 DEF Handled
  <1>3. PICK a \in 0..3, k \in Nat : a = Asked(p) /\ k = b + Len(g)
    BY AskedIs, LenProperties
  <1>4. PICK new, q : new = Tail(up) /\ q = up[1]
    OBVIOUS
  <1>5. /\ new \in Seq(Message) /\ q \in Message
        /\ \A i \in 1..Len(new) : new[i] \in Requests(t) \/ new[i].kind = "raw"
        /\ q.kind = "raw" => InTurn(new, AskTurn, lo, a)
        /\ q \in Requests(t) => AskTurn[q.kind] = lo + 1 /\ InTurn(new, AskTurn, lo + 1, a)
        /\ q.kind = "raw" \/ q \in Requests(t)
    <2>1. InTurn(up, AskTurn, lo, a) /\ lo \in Nat /\ a \in Nat
      BY <1>1, <1>3
    <2> QED
      BY <1>0, <1>4, <2>1, UpTaken
  <1>6. ASSUME q.kind = "raw" PROVE OpenOK(t, b, p, "loop", new, down, g)
    BY <1>0, <1>1, <1>3, <1>5, <1>6 DEF OpenOK
  <1>7. ASSUME q.kind # "raw"
        PROVE  \E m \in Message : /\ ReplyTo(q) = <<m>> /\ q.dest = ""
                                  /\ OpenOK(t, b, p, "loop", new, Append(down, m), g)
    <2>1. q \in Requests(t) /\ AskTurn[q.kind] = lo + 1 /\ InTurn(new, AskTurn, lo + 1, a)
      BY <1>5, <1>7
    <2>2. q # PeerHello
      BY <1>2, <2>1, Messages, AskTurns
    <2>3. PICK m \in Due(t, b) : ReplyTo(q) = <<m>> /\ ReplyTurn[m.kind] = AskTurn[q.kind]
      <3>1. CASE t = "worker"
        <4>1. q = TaskRegister /\ TaskRegisterAck \in Due(t, b)
          BY <2>1, <2>2, <3>1 DEF Requests, Due
        <4>2. ReplyTurn[TaskRegisterAck.kind] = AskTurn[TaskRegister.kind]
          BY Messages, AskTurns, ReplyTurns
        <4> QED
          BY <4>1, <4>2, ReplyIs
      <3>2. CASE t = "client"
        BY <2>1, <2>2, <3>2 DEF Requests
      <3>3. CASE t = "ctl"
        <4>1. /\ q \in {GetIdentity, GetRoutes, TaskListWorkers}
              /\ {IdentityReply, RoutesReply, TaskListWorkersReply} \subseteq Due(t, b)
          BY <2>1, <2>2, <3>3 DEF Requests, Due
        <4>2. /\ ReplyTurn[IdentityReply.kind] = AskTurn[GetIdentity.kind]
              /\ ReplyTurn[RoutesReply.kind] = AskTurn[GetRoutes.kind]
              /\ ReplyTurn[TaskListWorkersReply.kind] = AskTurn[TaskListWorkers.kind]
          BY Messages, AskTurns, ReplyTurns
        <4> QED
          BY <4>1, <4>2, ReplyIs
      <3> QED
        BY <3>1, <3>2, <3>3
    <2>4. m \in Message /\ q.dest = ""
      <3>1. m \in Message
        BY DueTurns
      <3>2. q.dest = ""
        <4>1. \A x : Control(x).dest = ""
          BY DEF Control, Msg
        <4>2. \E x : q = Control(x)
          BY <2>1 DEF Requests, PeerHello, TaskRegister, GetIdentity, GetRoutes, TaskListWorkers
        <4> QED
          BY <4>1, <4>2
      <3> QED
        BY <3>1, <3>2
    <2>5. InTurn(down, ReplyTurn, k, hi) /\ hi \in Nat /\ ReplyTurn[m.kind] = hi + 1
      BY <1>1, <1>2, <1>3, <2>1, <2>3
    <2>6. PICK new2 : new2 = Append(down, m)
      OBVIOUS
    <2>7. /\ InTurn(new2, ReplyTurn, k, hi + 1)
          /\ \A i \in 1..Len(new2) : new2[i] \in Due(t, b) \/ ~IsControl(new2[i])
      BY <1>0, <2>5, <2>6, DownAdded
    <2>8. lo + 1 \in 0..3 /\ Handled("loop", b, lo + 1, lo + 1)
      <3>1. lo + 1 <= a
        BY <2>1 DEF InTurn, Row
      <3> QED
        BY <1>2, <3>1 DEF Handled
    <2>9. InTurn(new2, ReplyTurn, b + Len(g), lo + 1) /\ InTurn(new, AskTurn, lo + 1, Asked(p))
      BY <1>2, <1>3, <2>1, <2>7
    <2>10. OpenOK(t, b, p, "loop", new, new2, g)
      BY <1>0, <1>5, <2>7, <2>8, <2>9 DEF OpenOK
    <2> QED
      BY <2>3, <2>4, <2>6, <2>10
  <1> QED
    BY <1>4, <1>6, <1>7
-----------------------------------------------------------------------------
(* The inductive invariant.                                                *)

\* Without a HelloAck, replies begin with the second turn.
Base == IF VerifyHello THEN 0 ELSE 1

Up   == <<"t", "a">>
Down == <<"a", "t">>
Peer == {<<"a", "b">>, <<"b", "a">>}

\* What the nodes exchange and have in their forwarders: no control messages.
Passing == {m \in Message : ~IsControl(m)}

\* What a tool sends: a control message is for its node.
Outgoing == {m \in Message : IsControl(m) => m.dest = ""}

SessionType ==
    /\ tool \in {"worker", "client", "ctl"}
    /\ chan \in [Links -> Seq(Message)]
    /\ handler \in {"first", "hello", "loop", "ended"}
    /\ bound \in {"temp", "tool", "none"}
    /\ link \in {"open", "closed"}

ForwardInv ==
    /\ chan[Up] \in Seq(Outgoing)
    /\ \A l \in Peer : chan[l] \in Seq(Passing)
    /\ DOMAIN fwd = {"a", "b"}
    /\ \A n \in {"a", "b"} : DOMAIN fwd[n] \subseteq Passing

GotInv ==
    /\ got \in Seq(Due(tool, Base))
    /\ \A i \in 1..Len(got) : ReplyTurn[got[i].kind] = Base + i

\* While tool and session last, and until two calls of RecvBytes meet.
Live == link = "open" /\ pc # "exited" /\ ~Torn

OpenInv == Live => OpenOK(tool, Base, pc, handler, chan[Up], chan[Down], got)

StreamInv == SessionType /\ ForwardInv /\ GotInv /\ OpenInv

\* A second call of RecvBytes is the worker's, once it has registered; a first
\* that has returned left a result.
ReadersInv ==
    /\ readers \subseteq {1, 2} /\ DOMAIN result = {1, 2}
    /\ pc \in Stages(tool) \cup {"exited"}
    /\ tool # "worker" => 2 \notin readers /\ \A r \in {1, 2} : result[r] # "garbled"
    /\ pc = "hello" => readers = {}
    /\ pc \in {"hello", "await"} => 2 \notin readers /\ \A r \in {1, 2} : result[r] # "garbled"
    /\ pc = "hello" \/ 1 \in readers => result[1] = "none"
    /\ Torn => ctxDone

ToolsInv == Stream => StreamInv /\ ReadersInv

\* The two ends of the session and the one between the nodes.
LEMMA LinksAre ==
    /\ Links = {Up, Down} \cup Peer
    /\ Up # Down /\ Up \notin Peer /\ Down \notin Peer
  BY DEF Links, Up, Down, Peer

LEMMA BaseIs == Base \in {0, 1}
  BY DEF Base

LEMMA BaseStays == ASSUME UNCHANGED choices PROVE Base' = Base /\ tool' = tool /\ Stream' = Stream
  BY DEF choices, Base, VerifyHello, Stream

\* The messages between a tool and its node, those between nodes.
LEMMA OpenFacts ==
    ASSUME StreamInv
    PROVE  /\ chan[Up] \in Seq(Message) /\ chan[Down] \in Seq(Message)
           /\ \A l \in Links : chan[l] \in Seq(Message)
           /\ DOMAIN chan = Links
  BY LinksAre DEF StreamInv, SessionType

\* A step of the tool that sends and reads nothing.
LEMMA QuietInv ==
    ASSUME StreamInv, UNCHANGED <<choices, got, nodeVars, chan>>, link' \in {"open", "closed"},
           Live' => Live /\ pc' \in Stages(tool) /\ Asked(pc') = Asked(pc)
    PROVE  StreamInv'
  <1>1. Base' = Base /\ tool' = tool
    BY BaseStays
  <1>2. got' = got /\ chan' = chan /\ handler' = handler /\ bound' = bound /\ fwd' = fwd
    BY DEF nodeVars
  <1>3. SessionType'
    BY <1>1, <1>2 DEF StreamInv, SessionType
  <1>4. ForwardInv'
    BY <1>2 DEF StreamInv, ForwardInv
  <1>5. GotInv'
    BY <1>1, <1>2 DEF StreamInv, GotInv
  <1>6. OpenInv'
    <2> SUFFICES ASSUME Live'
                 PROVE  OpenOK(tool, Base, pc', handler, chan[Up], chan[Down], got)
      BY <1>1, <1>2 DEF OpenInv
    <2>1. OpenOK(tool, Base, pc, handler, chan[Up], chan[Down], got)
      BY DEF StreamInv, OpenInv
    <2> QED
      BY <2>1, OpenGoesOn
  <1> QED
    BY <1>3, <1>4, <1>5, <1>6 DEF StreamInv

\* On a stream a message goes to the end of the channel.
LEMMA StreamWith ==
    ASSUME Stream, StreamInv, NEW l \in Links, NEW m \in Message
    PROVE  With(l, <<m>>) = Append(chan[l], m) /\ With(l, <<>>) = chan[l]
  <1>1. chan[l] \in Seq(Message)
    BY OpenFacts
  <1>2. chan[l] \o <<m>> = Append(chan[l], m) /\ chan[l] \o <<>> = chan[l]
    BY <1>1, AppendIs
  <1> QED
    BY <1>2 DEF With, Stream

LEMMA RequestsGoOut == {PeerHello, GetIdentity, GetRoutes, TaskRegister, TaskListWorkers} \subseteq Outgoing
  <1>1. \A x : Control(x).dest = ""
    BY DEF Control, Msg
  <1>2. \A m \in {PeerHello, GetIdentity, GetRoutes, TaskRegister, TaskListWorkers} : \E x : m = Control(x)
    BY DEF PeerHello, GetIdentity, GetRoutes, TaskRegister, TaskListWorkers
  <1> QED
    BY <1>1, <1>2, Messages DEF Outgoing

\* The tool sends.
LEMMA SendInv ==
    ASSUME Stream, StreamInv, NEW m \in Outgoing, ToNode(m),
           UNCHANGED <<choices, got, nodeVars>>, link' \in {"open", "closed"},
           Live' =>
              /\ Live /\ pc' \in Stages(tool)
              /\ \/ m.kind = "raw" /\ Asked(pc') = Asked(pc) /\ Asked(pc) >= 1
                 \/ m \in Requests(tool) /\ AskTurn[m.kind] = Asked(pc) + 1 /\ Asked(pc') = Asked(pc) + 1
    PROVE  StreamInv'
  <1>1. Base' = Base /\ tool' = tool
    BY BaseStays
  <1>2. got' = got /\ handler' = handler /\ bound' = bound /\ fwd' = fwd
    BY DEF nodeVars
  <1>0. m \in Message
    BY DEF Outgoing
  <1>3. PICK up : /\ up \in Seq(Message) /\ up \in Seq(Outgoing) /\ chan' = [chan EXCEPT ![Up] = up]
                  /\ link = "open" => up = Append(chan[Up], m)
    <2>0. chan[Up] \in Seq(Outgoing)
      BY DEF StreamInv, ForwardInv
    <2>1. /\ Append(chan[Up], m) \in Seq(Message) /\ chan[Up] \in Seq(Message)
          /\ Append(chan[Up], m) \in Seq(Outgoing)
      BY <1>0, <2>0, OpenFacts, AppendIs
    <2>2. With(Up, <<m>>) = Append(chan[Up], m)
      BY <1>0, StreamWith, LinksAre
    <2>3. PICK up : up = IF link = "open" THEN Append(chan[Up], m) ELSE chan[Up]
      OBVIOUS
    <2>4. chan' = [chan EXCEPT ![Up] = up]
      BY <2>2, <2>3 DEF ToNode, Up
    <2>5. up \in Seq(Message) /\ up \in Seq(Outgoing)
      BY <2>0, <2>1, <2>3
    <2> QED
      BY <2>3, <2>4, <2>5
  <1>4. /\ chan'[Up] = up /\ chan'[Down] = chan[Down] /\ \A l \in Peer : chan'[l] = chan[l]
        /\ chan' \in [Links -> Seq(Message)]
    BY <1>3, OpenFacts, LinksAre DEF StreamInv, SessionType
  <1>5. SessionType'
    BY <1>1, <1>2, <1>4 DEF StreamInv, SessionType
  <1>6. ForwardInv'
    BY <1>2, <1>3, <1>4 DEF StreamInv, ForwardInv
  <1>7. GotInv'
    BY <1>1, <1>2 DEF StreamInv, GotInv
  <1>8. OpenInv'
    <2> SUFFICES ASSUME Live'
                 PROVE  OpenOK(tool, Base, pc', handler, Append(chan[Up], m), chan[Down], got)
      BY <1>1, <1>2, <1>3, <1>4 DEF OpenInv, Live
    <2>1. OpenOK(tool, Base, pc, handler, chan[Up], chan[Down], got) /\ chan[Up] \in Seq(Message)
      BY OpenFacts DEF StreamInv, OpenInv
    <2> QED
      BY <1>0, <2>1, BaseIs, OpenAsks
  <1> QED
    BY <1>5, <1>6, <1>7, <1>8 DEF StreamInv

\* Where a tool is tells which it is.
LEMMA StageFacts ==
    ASSUME StreamInv, Live
    PROVE  /\ pc \in Stages(tool) /\ pc # "exited"
           /\ pc \in {"ask", "askMore", "GetIdentity", "GetRoutes", "TaskListWorkers"} => tool = "ctl"
  <1>1. pc \in Stages(tool) /\ tool \in {"worker", "client", "ctl"}
    BY DEF StreamInv, SessionType, OpenInv, OpenOK
  <1> QED
    BY <1>1 DEF Stages

LEMMA WaitInv ==
    ASSUME StreamInv, Live' => Live,
           \/ Timeout \/ CtxCloses \/ NotAccepted \/ Done \/ WaitLooks \/ WaitReads
           \/ \E r \in {1, 2} : ReaderFails(r)
    PROVE  StreamInv'
  <1>0. UNCHANGED <<choices, got, nodeVars, chan>>
    BY DEF Timeout, CtxCloses, NotAccepted, Done, WaitLooks, WaitReads, ReaderFails, toolVars
  <1>1. link \in {"open", "closed"}
    BY DEF StreamInv, SessionType
  <1>2. CASE Timeout \/ CtxCloses \/ \E r \in {1, 2} : ReaderFails(r)
    <2>1. pc' = pc /\ link' \in {link, "closed"}
      BY <1>2 DEF Timeout, CtxCloses, ReaderFails, toolVars
    <2> QED
      BY <1>0, <1>1, <2>1, QuietInv, StageFacts
  <1>3. CASE NotAccepted \/ Done
    <2>1. pc' = "exited" /\ link' \in {link, "closed"}
      BY <1>3 DEF NotAccepted, Done, Exit
    <2> QED
      BY <1>0, <1>1, <2>1, QuietInv DEF Live
  <1>4. CASE WaitLooks \/ WaitReads
    <2>1. \/ pc' = pc /\ link' = link
          \/ pc = "GetIdentity" /\ pc' = "askMore" /\ link' = link
          \/ pc' = "exited" /\ link' \in {link, "closed"}
      BY <1>4 DEF WaitLooks, WaitReads, GoesOn, Exit
    <2>2. ASSUME Live, pc = "GetIdentity", pc' = "askMore"
          PROVE  pc' \in Stages(tool) /\ Asked(pc') = Asked(pc)
      <3>1. tool = "ctl"
        BY <2>2, StageFacts
      <3> QED
        BY <2>2, <3>1 DEF Stages, Asked
    <2>3. ~Live' \/ pc' # "exited"
      BY DEF Live
    <2> QED
      BY <1>0, <1>1, <2>1, <2>2, <2>3, QuietInv, StageFacts
  <1> QED
    BY <1>2, <1>3, <1>4

LEMMA SendHelloInv == ASSUME Stream, StreamInv, Live' => Live, SendHello PROVE StreamInv'
  <1>1. /\ pc = "hello" /\ ToNode(PeerHello) /\ PeerHello \in Outgoing
        /\ UNCHANGED <<choices, got, nodeVars>>
    BY RequestsGoOut DEF SendHello
  <1>2. /\ link \in {"open", "closed"} /\ tool \in {"worker", "client", "ctl"}
        /\ link' \in {link, "closed"}
        /\ \/ pc' = "exited"
           \/ pc' = IF tool = "ctl" THEN "ask" ELSE "await"
    BY DEF SendHello, Exit, StreamInv, SessionType
  <1>3. PeerHello \in Requests(tool) /\ AskTurn[PeerHello.kind] = Asked("hello") + 1
    BY Messages, AskTurns DEF Requests, Asked
  <1>4. Asked("ask") = Asked("hello") + 1 /\ Asked("await") = Asked("hello") + 1
    BY DEF Asked
  <1>5. (IF tool = "ctl" THEN "ask" ELSE "await") \in Stages(tool)
    BY <1>2 DEF Stages
  <1>6. ASSUME Live'
        PROVE  /\ Live /\ pc' \in Stages(tool)
               /\ AskTurn[PeerHello.kind] = Asked(pc) + 1 /\ Asked(pc') = Asked(pc) + 1
    <2>1. pc' # "exited"
      BY <1>6 DEF Live
    <2> QED
      BY <1>1, <1>2, <1>3, <1>4, <1>5, <1>6, <2>1
  <1> QED
    BY <1>1, <1>2, <1>3, <1>6, SendInv

LEMMA RegisterInv == ASSUME Stream, StreamInv, Live' => Live, Register PROVE StreamInv'
  <1>1. /\ tool = "worker" /\ pc = "await" /\ ToNode(TaskRegister) /\ TaskRegister \in Outgoing
        /\ UNCHANGED <<choices, got, nodeVars>>
    BY RequestsGoOut DEF Register
  <1>2. /\ link \in {"open", "closed"}
        /\ link' \in {link, "closed"} /\ pc' \in {"exited", "registered"}
    BY DEF Register, Exit, StreamInv, SessionType
  <1>3. TaskRegister \in Requests(tool) /\ AskTurn[TaskRegister.kind] = Asked("await") + 1
    BY <1>1, Messages, AskTurns DEF Requests, Asked
  <1>4. Asked("registered") = Asked("await") + 1 /\ "registered" \in Stages(tool)
    BY <1>1 DEF Asked, Stages
  <1>5. ASSUME Live'
        PROVE  /\ Live /\ pc' \in Stages(tool)
               /\ AskTurn[TaskRegister.kind] = Asked(pc) + 1 /\ Asked(pc') = Asked(pc) + 1
    <2>1. pc' # "exited"
      BY <1>5 DEF Live
    <2> QED
      BY <1>1, <1>2, <1>3, <1>4, <1>5, <2>1
  <1> QED
    BY <1>1, <1>2, <1>3, <1>5, SendInv

LEMMA SendTestInv ==
    ASSUME Stream, StreamInv, Live' => Live, NEW d, TestMessage(d) \in Outgoing, SendTest(d)
    PROVE  StreamInv'
  <1>1. /\ tool = "client" /\ pc = "await" /\ ToNode(TestMessage(d))
        /\ UNCHANGED <<choices, got, nodeVars>>
    BY DEF SendTest
  <1>2. /\ link \in {"open", "closed"}
        /\ link' \in {link, "closed"} /\ pc' \in {"exited", "sent"}
    BY DEF SendTest, Exit, StreamInv, SessionType
  <1>3. TestMessage(d).kind = "raw"
    BY DEF TestMessage, Msg
  <1>4. Asked("sent") = Asked("await") /\ Asked("await") >= 1 /\ "sent" \in Stages(tool)
    <2>1. Asked("sent") = 1 /\ Asked("await") = 1
      BY DEF Asked
    <2>2. "sent" \in Stages(tool)
      BY <1>1 DEF Stages
    <2> QED
      BY <2>1, <2>2, AskedIs
  <1>5. PICK m \in Outgoing : m = TestMessage(d)
    OBVIOUS
  <1>6. ASSUME Live'
        PROVE  /\ Live /\ pc' \in Stages(tool)
               /\ Asked(pc') = Asked(pc) /\ Asked(pc) >= 1
    <2>1. pc' # "exited"
      BY <1>6 DEF Live
    <2> QED
      BY <1>1, <1>2, <1>4, <1>6, <2>1
  <1> QED
    BY <1>1, <1>2, <1>3, <1>5, <1>6, SendInv

LEMMA AskInv ==
    ASSUME Stream, StreamInv, Live' => Live, NEW m \in {GetIdentity, GetRoutes, TaskListWorkers}, Ask(m)
    PROVE  StreamInv'
  <1>1. /\ ToNode(m) /\ m \in Outgoing /\ pc' = m.kind /\ link' = link
        /\ UNCHANGED <<choices, got, nodeVars>>
        /\ \/ pc = "ask" /\ m = GetIdentity
           \/ pc = "askMore" /\ m \in {GetRoutes, TaskListWorkers}
    BY RequestsGoOut DEF Ask
  <1>2. link \in {"open", "closed"}
    BY DEF StreamInv, SessionType
  <1>3. ASSUME Live
        PROVE  /\ m \in Requests(tool) /\ pc' \in Stages(tool)
               /\ AskTurn[m.kind] = Asked(pc) + 1 /\ Asked(pc') = Asked(pc) + 1
    <2>1. tool = "ctl"
      BY <1>1, <1>3, StageFacts
    <2>2. m \in Requests(tool) /\ pc' \in Stages(tool)
      BY <1>1, <2>1, Messages DEF Requests, Stages
    <2>3. /\ Asked("ask") = 1 /\ Asked("askMore") = 2 /\ Asked("GetIdentity") = 2
          /\ Asked("GetRoutes") = 3 /\ Asked("TaskListWorkers") = 3
      BY DEF Asked
    <2>4. CASE pc = "ask" /\ m = GetIdentity
      BY <1>1, <2>2, <2>3, <2>4, Messages, AskTurns
    <2>5. CASE pc = "askMore" /\ m \in {GetRoutes, TaskListWorkers}
      BY <1>1, <2>2, <2>3, <2>5, Messages, AskTurns
    <2> QED
      BY <1>1, <2>4, <2>5
  <1> QED
    BY <1>1, <1>2, <1>3, SendInv

\* The tool reads the first message of the stream.
LEMMA ReaderTakesInv ==
    ASSUME Stream, StreamInv, NEW r \in {1, 2}, ReaderTakes(r) PROVE StreamInv'
  <1>1. /\ Live /\ link' = link /\ pc' = pc /\ UNCHANGED <<choices, nodeVars>>
        /\ \E i \in Takable(Down) :
              /\ chan' = [chan EXCEPT ![Down] = RemoveAt(@, i)]
              /\ got' = IF Stream /\ IsControl(chan[Down][i]) THEN Append(got, chan[Down][i]) ELSE got
    BY DEF ReaderTakes, Live, Down
  <1>2. Base' = Base /\ tool' = tool /\ handler' = handler /\ bound' = bound /\ fwd' = fwd
    BY <1>1, BaseStays DEF nodeVars
  <1>3. PICK down \in Seq(Message) : down = chan[Down]
    BY OpenFacts
  <1>4. down # <<>> /\ 1 \in DOMAIN down /\ chan' = [chan EXCEPT ![Down] = RemoveAt(down, 1)]
        /\ got' = IF IsControl(down[1]) THEN Append(got, down[1]) ELSE got
    BY <1>1, <1>3 DEF Takable, Stream
  <1>5. RemoveAt(down, 1) = Tail(down) /\ Tail(down) \in Seq(Message) /\ down[1] \in Message
    BY <1>4, TailIs
  <1>6. PICK new \in Seq(Message) : new = Tail(down) /\ chan' = [chan EXCEPT ![Down] = new]
    BY <1>4, <1>5
  <1>7. /\ chan'[Down] = new /\ chan'[Up] = chan[Up] /\ \A l \in Peer : chan'[l] = chan[l]
        /\ chan' \in [Links -> Seq(Message)]
    BY <1>6, OpenFacts, LinksAre DEF StreamInv, SessionType
  <1>8. SessionType'
    BY <1>1, <1>2, <1>7 DEF StreamInv, SessionType
  <1>9. ForwardInv'
    BY <1>2, <1>7 DEF StreamInv, ForwardInv
  <1>10. /\ OpenOK(tool, Base, pc, handler, chan[Up], down, got) /\ got \in Seq(Due(tool, Base))
         /\ \A i \in 1..Len(got) : ReplyTurn[got[i].kind] = Base + i
    BY <1>1, <1>3 DEF StreamInv, OpenInv, GotInv
  <1>11. /\ ~IsControl(down[1]) => OpenOK(tool, Base, pc, handler, chan[Up], Tail(down), got)
         /\ IsControl(down[1]) =>
               /\ down[1] \in Due(tool, Base) /\ ReplyTurn[down[1].kind] = Base + Len(got) + 1
               /\ OpenOK(tool, Base, pc, handler, chan[Up], Tail(down), Append(got, down[1]))
    <2>1. PICK t, b, p, h, up, g :
             /\ t = tool /\ b = Base /\ p = pc /\ h = handler /\ up = chan[Up] /\ g = got
             /\ OpenOK(t, b, p, h, up, down, g) /\ b \in {0, 1} /\ g \in Seq(Due(t, b))
      BY <1>10, BaseIs
    <2>2. /\ ~IsControl(down[1]) => OpenOK(t, b, p, h, up, Tail(down), g)
          /\ IsControl(down[1]) =>
                /\ down[1] \in Due(t, b) /\ ReplyTurn[down[1].kind] = b + Len(g) + 1
                /\ OpenOK(t, b, p, h, up, Tail(down), Append(g, down[1]))
      <3>1. down # <<>> /\ OpenOK(t, b, p, h, up, down, g) /\ b \in {0, 1} /\ g \in Seq(Due(t, b))
        BY <1>4, <2>1
      <3> QED
        BY ONLY <3>1, down \in Seq(Message), OpenReads
    <2> QED
      BY <2>1, <2>2
  <1>12. CASE ~IsControl(down[1])
    <2>1. OpenInv'
      BY <1>1, <1>2, <1>4, <1>6, <1>7, <1>11, <1>12 DEF OpenInv
    <2>2. GotInv'
      BY <1>2, <1>4, <1>10, <1>12 DEF GotInv
    <2> QED
      BY <1>8, <1>9, <2>1, <2>2 DEF StreamInv
  <1>13. CASE IsControl(down[1])
    <2>1. PICK m \in Due(tool, Base) : m = down[1]
      BY <1>11, <1>13
    <2>2. /\ got' = Append(got, m) /\ got' \in Seq(Due(tool, Base)) /\ Len(got) \in Nat
          /\ Len(got') = Len(got) + 1 /\ got'[Len(got) + 1] = m
          /\ \A i \in 1..Len(got) : got'[i] = got[i]
      BY <1>4, <1>10, <1>13, <2>1, AppendIs
    <2>3. OpenInv'
      BY <1>1, <1>2, <1>4, <1>6, <1>7, <1>11, <1>13 DEF OpenInv
    <2>4. \A i \in 1..Len(got') : ReplyTurn[got'[i].kind] = Base + i
      <3> SUFFICES ASSUME NEW i \in 1..Len(got') PROVE ReplyTurn[got'[i].kind] = Base + i
        OBVIOUS
      <3>1. CASE i = Len(got) + 1
        <4>1. Base + Len(got) + 1 = Base + i
          BY <2>2, <3>1, BaseIs
        <4> QED
          BY <1>11, <1>13, <2>1, <2>2, <3>1, <4>1
      <3>2. CASE i # Len(got) + 1
        <4>1. i \in 1..Len(got)
          BY <2>2, <3>2
        <4> QED
          BY <1>10, <2>2, <4>1
      <3> QED
        BY <3>1, <3>2
    <2>5. GotInv'
      BY <1>2, <2>2, <2>4 DEF GotInv
    <2> QED
      BY <1>8, <1>9, <2>3, <2>5 DEF StreamInv
  <1> QED
    BY <1>12, <1>13

\* The session breaks.
LEMMA BreakInv == ASSUME StreamInv, Break PROVE StreamInv'
  <1>1. /\ link' = "closed" /\ UNCHANGED <<choices, got, nodeVars>>
        /\ chan' = [chan EXCEPT ![Up] = <<>>, ![Down] = <<>>]
    BY DEF Break, toolVars, Up, Down
  <1>2. Base' = Base /\ tool' = tool /\ got' = got /\ handler' = handler /\ bound' = bound /\ fwd' = fwd
    BY <1>1, BaseStays DEF nodeVars
  <1>3. <<>> \in Seq(Message) /\ <<>> \in Seq(Outgoing)
    OBVIOUS
  <1>4. chan' \in [Links -> Seq(Message)] /\ chan'[Up] = <<>> /\ \A l \in Peer : chan'[l] = chan[l]
    BY <1>1, <1>3, OpenFacts, LinksAre DEF StreamInv, SessionType
  <1>5. SessionType' /\ OpenInv'
    BY <1>1, <1>2, <1>4 DEF StreamInv, SessionType, OpenInv, Live
  <1>6. ForwardInv'
    BY <1>2, <1>3, <1>4 DEF StreamInv, ForwardInv
  <1>7. GotInv'
    BY <1>2 DEF StreamInv, GotInv
  <1> QED
    BY <1>5, <1>6, <1>7 DEF StreamInv

\* Two calls of RecvBytes have met: the stream may lose its beginning.
LEMMA ReaderRacesInv ==
    ASSUME StreamInv, NEW r \in {1, 2}, ReaderRaces(r), ~Live' PROVE StreamInv'
  <1>1. /\ UNCHANGED <<choices, got, nodeVars>> /\ link' \in {link, "closed"}
        /\ \E n \in 0..Len(chan[Down]) :
              chan' = [chan EXCEPT ![Down] = SubSeq(@, n + 1, Len(@))]
    BY DEF ReaderRaces, Exit, Down
  <1>2. Base' = Base /\ tool' = tool /\ got' = got /\ handler' = handler /\ bound' = bound /\ fwd' = fwd
    BY <1>1, BaseStays DEF nodeVars
  <1>3. PICK down, n, s :
           /\ down = chan[Down] /\ down \in Seq(Message) /\ n \in 0..Len(down)
           /\ s = SubSeq(down, n + 1, Len(down)) /\ chan' = [chan EXCEPT ![Down] = s]
    BY <1>1, OpenFacts
  <1>4. s \in Seq(Message)
    <2>1. Len(down) \in Nat /\ \A i \in (n + 1)..Len(down) : down[i] \in Message
      BY <1>3, LenProperties
    <2> QED
      BY <1>3, <2>1, SubSeqProperties
  <1>5. chan' \in [Links -> Seq(Message)] /\ chan'[Up] = chan[Up] /\ \A l \in Peer : chan'[l] = chan[l]
    BY <1>3, <1>4, OpenFacts, LinksAre DEF StreamInv, SessionType
  <1>6. SessionType' /\ OpenInv'
    BY <1>1, <1>2, <1>5 DEF StreamInv, SessionType, OpenInv
  <1>7. ForwardInv'
    BY <1>2, <1>5 DEF StreamInv, ForwardInv
  <1>8. GotInv'
    BY <1>2 DEF StreamInv, GotInv
  <1> QED
    BY <1>6, <1>7, <1>8 DEF StreamInv

-----------------------------------------------------------------------------
(* The nodes.                                                              *)

\* A node leaves tool and session alone.
LEMMA NodeInv ==
    ASSUME StreamInv, UNCHANGED <<choices, toolVars, link>>,
           handler' \in {"first", "hello", "loop", "ended"}, bound' \in {"temp", "tool", "none"},
           chan' \in [Links -> Seq(Message)], ForwardInv',
           Live => OpenOK(tool, Base, pc, handler', chan'[Up], chan'[Down], got)
    PROVE  StreamInv'
  <1>1. /\ Base' = Base /\ tool' = tool /\ got' = got /\ pc' = pc /\ link' = link
        /\ Live' = Live
    BY BaseStays DEF toolVars, Live, Torn
  <1>2. SessionType'
    BY <1>1 DEF StreamInv, SessionType
  <1>3. GotInv'
    BY <1>1 DEF StreamInv, GotInv
  <1>4. OpenInv'
    BY <1>1 DEF OpenInv
  <1> QED
    BY <1>2, <1>3, <1>4 DEF StreamInv

\* Bags of messages.
LEMMA BagAdds == ASSUME NEW B, NEW S PROVE DOMAIN (B (+) SetToBag(S)) = DOMAIN B \cup S
  BY DEF (+), SetToBag

LEMMA BagTakes == ASSUME NEW B, NEW S PROVE DOMAIN (B (-) SetToBag(S)) \subseteq DOMAIN B
  BY DEF (-), SetToBag

\* What goes into a forwarder.
LEMMA AckPasses == ASSUME NEW h \in {"a", "b", "temp", "tool", "none"} PROVE StatusAck(h) \in Passing
  <1>1. StatusAck(h) \in Message
    BY DEF StatusAck, Msg, Message, Kinds
  <1>2. StatusAck(h).kind = "none"
    BY DEF StatusAck, Msg
  <1> QED
    BY <1>1, <1>2 DEF Passing, IsControl

LEMMA EnqueuedOK ==
    ASSUME StreamInv, NEW n \in {"a", "b"}, NEW m, Forwarded(n, m) => m \in Passing,
           NEW h \in {"a", "b", "temp", "tool", "none"}, fwd' = Enqueued(n, m, h)
    PROVE  DOMAIN fwd' = {"a", "b"} /\ \A k \in {"a", "b"} : DOMAIN fwd'[k] \subseteq Passing
  <1>1. PICK S : S = {x \in {m} : Forwarded(n, m)} \cup Ack(m, h)
    OBVIOUS
  <1>2. S \subseteq Passing
    BY <1>1, AckPasses DEF Ack
  <1>3. DOMAIN fwd = {"a", "b"} /\ \A k \in {"a", "b"} : DOMAIN fwd[k] \subseteq Passing
    BY DEF StreamInv, ForwardInv
  <1>4. PICK B : B = fwd[n] (+) SetToBag(S)
    OBVIOUS
  <1>5. DOMAIN B \subseteq Passing
    <2>1. DOMAIN B = DOMAIN fwd[n] \cup S
      BY <1>4, BagAdds
    <2> QED
      BY <1>2, <1>3, <2>1
  <1>6. fwd' = [fwd EXCEPT ![n] = B]
    BY <1>1, <1>4 DEF Enqueued
  <1>7. DOMAIN fwd' = {"a", "b"} /\ fwd'[n] = B /\ \A k \in {"a", "b"} : k # n => fwd'[k] = fwd[k]
    BY <1>3, <1>6
  <1> QED
    BY <1>3, <1>5, <1>7

\* What is in the stream up to the node, and what is left of it after the first.
LEMMA UpFacts ==
    ASSUME Stream, StreamInv, NEW i \in Takable(Up)
    PROVE  /\ i = 1 /\ chan[Up] # <<>> /\ chan[Up][1] \in Outgoing
           /\ RemoveAt(chan[Up], 1) = Tail(chan[Up])
           /\ Tail(chan[Up]) \in Seq(Message) /\ Tail(chan[Up]) \in Seq(Outgoing)
  <1>1. i = 1 /\ 1 \in DOMAIN chan[Up]
    BY DEF Takable, Stream
  <1>2. PICK up : up = chan[Up] /\ up \in Seq(Message) /\ up \in Seq(Outgoing) /\ 1 \in DOMAIN up
    BY <1>1, OpenFacts DEF StreamInv, ForwardInv
  <1>3. up # <<>>
    BY <1>2
  <1>4. RemoveAt(up, 1) = Tail(up) /\ Tail(up) \in Seq(Message)
    BY <1>2, <1>3, TailIs
  <1>5. Tail(up) \in Seq(Outgoing) /\ up[1] \in Outgoing
    BY <1>2, <1>3, TailIs
  <1> QED
    BY <1>1, <1>2, <1>3, <1>4, <1>5

LEMMA ToToolIs ==
    ASSUME Stream, StreamInv
    PROVE  /\ ToTool(<<>>) = chan
           /\ \A m \in Message : link = "open" => ToTool(<<m>>) = [chan EXCEPT ![Down] = Append(chan[Down], m)]
           /\ \A ms : link # "open" => ToTool(ms) = chan
  <1>1. chan = [chan EXCEPT ![Down] = chan[Down]]
    BY DEF StreamInv, SessionType
  <1>2. \A m \in Message : With(Down, <<m>>) = Append(chan[Down], m)
    BY StreamWith, LinksAre
  <1>3. With(Down, <<>>) = chan[Down]
    BY StreamWith, LinksAre, Messages
  <1> QED
    BY <1>1, <1>2, <1>3 DEF ToTool, Down

LEMMA RecvFirstInv == ASSUME Stream, StreamInv, RecvFirst PROVE StreamInv'
  <1>1. PICK i \in Takable(Up) :
           HandleFirst(chan[Up][i]) /\ chan' = [chan EXCEPT ![Up] = RemoveAt(@, i)]
    BY DEF RecvFirst, Up
  <1>2. UNCHANGED <<choices, toolVars, link>> /\ fwd' = fwd /\ handler = "first"
    BY DEF RecvFirst
  <1>3. PICK up \in Seq(Message), new \in Seq(Message) :
           /\ up = chan[Up] /\ up # <<>> /\ new = Tail(up) /\ new \in Seq(Outgoing)
           /\ HandleFirst(up[1]) /\ chan' = [chan EXCEPT ![Up] = new]
    BY <1>1, UpFacts, OpenFacts
  <1>4. /\ chan' \in [Links -> Seq(Message)] /\ chan'[Up] = new /\ chan'[Down] = chan[Down]
        /\ \A l \in Peer : chan'[l] = chan[l]
    BY <1>3, OpenFacts, LinksAre DEF StreamInv, SessionType
  <1>5. handler' = (IF up[1].kind = "Hello" /\ Base = 0 THEN "hello" ELSE "loop")
        /\ bound' \in {"temp", "tool", "none"}
    BY <1>3 DEF HandleFirst, Base, StreamInv, SessionType
  <1>6. ForwardInv'
    BY <1>2, <1>3, <1>4 DEF StreamInv, ForwardInv
  <1>7. ASSUME Live
        PROVE  OpenOK(tool, Base, pc, handler', chan'[Up], chan'[Down], got)
    <2>1. PICK t, b, p, down, g, C :
             /\ t = tool /\ b = Base /\ p = pc /\ down = chan[Down] /\ g = got /\ C = Due(tool, Base)
             /\ OpenOK(t, b, p, "first", up, down, g) /\ b \in {0, 1} /\ g \in Seq(C)
      BY <1>2, <1>3, <1>7, BaseIs DEF StreamInv, OpenInv, GotInv
    <2>2. up[1] = PeerHello /\ OpenOK(t, b, p, IF b = 0 THEN "hello" ELSE "loop", Tail(up), down, g)
      <3>1. up # <<>> /\ OpenOK(t, b, p, "first", up, down, g) /\ b \in {0, 1} /\ g \in Seq(C)
        BY <1>3, <2>1
      <3> QED
        BY ONLY <3>1, up \in Seq(Message), OpenFirst
    <2>3. handler' = IF b = 0 THEN "hello" ELSE "loop"
      BY <1>5, <2>1, <2>2, Messages
    <2> QED
      BY <1>3, <1>4, <2>1, <2>2, <2>3
  <1> QED
    BY <1>2, <1>4, <1>5, <1>6, <1>7, NodeInv

LEMMA SendHelloAckInv == ASSUME Stream, StreamInv, SendHelloAck PROVE StreamInv'
  <1>1. /\ handler = "hello" /\ handler' = "loop" /\ bound' = bound /\ fwd' = fwd
        /\ UNCHANGED <<choices, toolVars, link>> /\ chan' = ToTool(<<PeerHelloAck>>)
    BY DEF SendHelloAck
  <1>2. bound \in {"temp", "tool", "none"} /\ chan \in [Links -> Seq(Message)] /\ PeerHelloAck \in Message
    BY Messages DEF StreamInv, SessionType
  <1>3. CASE link # "open"
    <2>1. chan' = chan
      BY <1>1, <1>3, ToToolIs
    <2>2. ForwardInv'
      BY <1>1, <2>1 DEF StreamInv, ForwardInv
    <2> QED
      BY <1>1, <1>2, <1>3, <2>1, <2>2, NodeInv DEF Live
  <1>4. CASE link = "open"
    <2>1. PICK down \in Seq(Message), new \in Seq(Message) :
             down = chan[Down] /\ new = Append(down, PeerHelloAck) /\ chan' = [chan EXCEPT ![Down] = new]
      <3>1. chan' = [chan EXCEPT ![Down] = Append(chan[Down], PeerHelloAck)]
        BY <1>1, <1>2, <1>4, ToToolIs
      <3>2. chan[Down] \in Seq(Message) /\ Append(chan[Down], PeerHelloAck) \in Seq(Message)
        BY <1>2, OpenFacts, AppendIs
      <3> QED
        BY <3>1, <3>2
    <2>2. /\ chan' \in [Links -> Seq(Message)] /\ chan'[Up] = chan[Up] /\ chan'[Down] = new
          /\ \A l \in Peer : chan'[l] = chan[l]
      BY <1>2, <2>1, LinksAre
    <2>3. ForwardInv'
      BY <1>1, <2>2 DEF StreamInv, ForwardInv
    <2>4. ASSUME Live
          PROVE  OpenOK(tool, Base, pc, handler', chan'[Up], chan'[Down], got)
      <3>1. PICK t, b, p, up, g, C :
               /\ t = tool /\ b = Base /\ p = pc /\ up = chan[Up] /\ g = got /\ C = Due(tool, Base)
               /\ OpenOK(t, b, p, "hello", up, down, g) /\ b \in {0, 1} /\ g \in Seq(C)
        BY <1>1, <2>1, <2>4, BaseIs DEF StreamInv, OpenInv, GotInv
      <3>2. OpenOK(t, b, p, "loop", up, Append(down, PeerHelloAck), g)
        BY ONLY <3>1, down \in Seq(Message), OpenAcks
      <3> QED
        BY <1>1, <2>1, <2>2, <3>1, <3>2
    <2> QED
      BY <1>1, <1>2, <2>2, <2>3, <2>4, NodeInv
  <1> QED
    BY <1>3, <1>4

LEMMA RepliesAre == \A m : ReplyTo(m) = <<>> \/ \E x \in Message : ReplyTo(m) = <<x>>
  BY Messages DEF ReplyTo

\* What is taken from the stream up goes, if anywhere, into the forwarder.
LEMMA RecvInv == ASSUME Stream, StreamInv, Recv PROVE StreamInv'
  <1>1. PICK i \in Takable(Up) :
           /\ chan' = [ToTool(IF Forwarded("a", chan[Up][i]) THEN <<>> ELSE ReplyTo(chan[Up][i]))
                          EXCEPT ![Up] = RemoveAt(@, i)]
           /\ fwd' = Enqueued("a", chan[Up][i], bound)
    BY DEF Recv, Up
  <1>2. /\ UNCHANGED <<choices, toolVars, link>> /\ handler = "loop" /\ handler' = handler /\ bound' = bound
        /\ bound \in {"temp", "tool", "none"} /\ chan \in [Links -> Seq(Message)]
        /\ tool \in {"worker", "client", "ctl"}
    BY DEF Recv, StreamInv, SessionType
  <1>3. PICK up \in Seq(Message), new \in Seq(Message), q \in Outgoing :
           /\ up = chan[Up] /\ up # <<>> /\ new = Tail(up) /\ new \in Seq(Outgoing) /\ q = up[1]
           /\ RemoveAt(up, 1) = new
           /\ chan' = [ToTool(IF Forwarded("a", q) THEN <<>> ELSE ReplyTo(q)) EXCEPT ![Up] = RemoveAt(@, 1)]
           /\ fwd' = Enqueued("a", q, bound)
    <2>1. /\ i = 1 /\ chan[Up] \in Seq(Message) /\ chan[Up] # <<>> /\ chan[Up][1] \in Outgoing
          /\ RemoveAt(chan[Up], 1) = Tail(chan[Up])
          /\ Tail(chan[Up]) \in Seq(Message) /\ Tail(chan[Up]) \in Seq(Outgoing)
      BY UpFacts, OpenFacts
    <2>2. PICK up, q, new : up = chan[Up] /\ q = up[1] /\ new = Tail(up)
      OBVIOUS
    <2>3. /\ chan' = [ToTool(IF Forwarded("a", q) THEN <<>> ELSE ReplyTo(q)) EXCEPT ![Up] = RemoveAt(@, 1)]
          /\ fwd' = Enqueued("a", q, bound)
      BY <1>1, <2>1, <2>2
    <2> QED
      BY <2>1, <2>2, <2>3
  <1>3a. PICK ms : /\ ms = IF Forwarded("a", q) THEN <<>> ELSE ReplyTo(q)
                   /\ chan' = [ToTool(ms) EXCEPT ![Up] = RemoveAt(@, 1)]
    BY <1>3
  <1>4. Forwarded("a", q) => q \in Passing
    BY DEF Forwarded, Outgoing, Passing
  <1>5. DOMAIN fwd' = {"a", "b"} /\ \A k \in {"a", "b"} : DOMAIN fwd'[k] \subseteq Passing
    BY <1>2, <1>3, <1>4, EnqueuedOK
  <1>6. ASSUME NEW d \in [Links -> Seq(Message)], d[Up] = up, \A l \in Peer : d[l] = chan[l],
               chan' = [d EXCEPT ![Up] = RemoveAt(@, 1)]
        PROVE  /\ chan' \in [Links -> Seq(Message)] /\ chan'[Up] = new /\ chan'[Down] = d[Down]
               /\ ForwardInv'
    <2>1. /\ chan' \in [Links -> Seq(Message)] /\ chan'[Up] = new /\ chan'[Down] = d[Down]
          /\ \A l \in Peer : chan'[l] = chan[l]
      <3>1. chan' = [d EXCEPT ![Up] = new]
        BY <1>3, <1>6
      <3> QED
        BY <1>6, <3>1, LinksAre
    <2>2. ForwardInv'
      BY <1>3, <1>5, <2>1 DEF StreamInv, ForwardInv
    <2> QED
      BY <2>1, <2>2
  <1>7. CASE ~Live
    <2>1. PICK d : d = ToTool(ms)
      OBVIOUS
    <2>2. d \in [Links -> Seq(Message)] /\ d[Up] = up /\ \A l \in Peer : d[l] = chan[l]
      <3>1. CASE d = chan
        BY <1>2, <1>3, <3>1
      <3>2. ASSUME NEW m \in Message, d = [chan EXCEPT ![Down] = Append(chan[Down], m)]
            PROVE  d \in [Links -> Seq(Message)] /\ d[Up] = up /\ \A l \in Peer : d[l] = chan[l]
        <4>1. PICK down : down = Append(chan[Down], m) /\ down \in Seq(Message)
          BY OpenFacts, AppendIs
        <4>2. d = [chan EXCEPT ![Down] = down]
          BY <3>2, <4>1
        <4> QED
          BY <1>2, <1>3, <4>1, <4>2, LinksAre
      <3>3. ms = <<>> \/ \E m \in Message : ms = <<m>>
        BY <1>3a, RepliesAre
      <3>4. d = chan \/ \E m \in Message : d = [chan EXCEPT ![Down] = Append(chan[Down], m)]
        BY <2>1, <3>3, ToToolIs
      <3> QED
        BY <3>1, <3>2, <3>4
    <2>3. chan' \in [Links -> Seq(Message)] /\ ForwardInv'
      BY <1>3, <1>3a, <1>6, <2>1, <2>2
    <2> QED
      BY <1>2, <1>7, <2>3, NodeInv
  <1>8. CASE Live
    <2>1. PICK t, b, p, down, g, C :
             /\ t = tool /\ b = Base /\ p = pc /\ down = chan[Down] /\ g = got /\ C = Due(tool, Base)
             /\ OpenOK(t, b, p, "loop", up, down, g) /\ b \in {0, 1} /\ g \in Seq(C)
             /\ down \in Seq(Message) /\ t \in {"worker", "client", "ctl"}
      BY <1>2, <1>3, <1>8, BaseIs, OpenFacts DEF StreamInv, OpenInv, GotInv
    <2>2. /\ up[1].kind = "raw" => OpenOK(t, b, p, "loop", Tail(up), down, g)
          /\ up[1].kind # "raw" =>
                \E m \in Message : /\ ReplyTo(up[1]) = <<m>> /\ up[1].dest = ""
                                   /\ OpenOK(t, b, p, "loop", Tail(up), Append(down, m), g)
      <3>1. up # <<>>
        BY <1>3
      <3> QED
        BY ONLY <2>1, <3>1, up \in Seq(Message), OpenServes
    <2>3. CASE q.kind = "raw"
      <3>1. ms = <<>>
        BY <1>3a, <2>3, ReplyIs
      <3>2. ToTool(ms) = chan
        BY <3>1, ToToolIs
      <3>3. /\ chan' \in [Links -> Seq(Message)] /\ chan'[Up] = new /\ chan'[Down] = chan[Down]
            /\ ForwardInv'
        BY <1>2, <1>3, <1>3a, <1>6, <3>2
      <3>4. OpenOK(tool, Base, pc, handler', chan'[Up], chan'[Down], got)
        BY <1>2, <1>3, <2>1, <2>2, <2>3, <3>3
      <3> QED
        BY <1>2, <3>3, <3>4, NodeInv
    <2>4. CASE q.kind # "raw"
      <3>1. PICK m \in Message : /\ ReplyTo(q) = <<m>> /\ q.dest = ""
                                 /\ OpenOK(t, b, p, "loop", new, Append(down, m), g)
        BY <1>3, <2>2, <2>4
      <3>2. ms = <<m>>
        BY <1>3a, <3>1 DEF Forwarded
      <3>3. PICK d : d = [chan EXCEPT ![Down] = Append(down, m)]
        OBVIOUS
      <3>4. ToTool(ms) = d
        BY <1>8, <2>1, <3>2, <3>3, ToToolIs DEF Live
      <3>5. Append(down, m) \in Seq(Message)
        BY <2>1, AppendIs
      <3>6. /\ d \in [Links -> Seq(Message)] /\ d[Up] = up /\ d[Down] = Append(down, m)
            /\ \A l \in Peer : d[l] = chan[l]
        BY <1>2, <1>3, <3>3, <3>5, LinksAre
      <3>7. /\ chan' \in [Links -> Seq(Message)] /\ chan'[Up] = new /\ chan'[Down] = Append(down, m)
            /\ ForwardInv'
        BY <1>3a, <1>6, <3>4, <3>6
      <3>8. OpenOK(tool, Base, pc, handler', chan'[Up], chan'[Down], got)
        BY <1>2, <2>1, <3>1, <3>7
      <3> QED
        BY <1>2, <3>7, <3>8, NodeInv
    <2> QED
      BY <2>3, <2>4
  <1> QED
    BY <1>7, <1>8

LEMMA HandlerEndsInv == ASSUME Stream, StreamInv, HandlerEnds PROVE StreamInv'
  <1>1. /\ UNCHANGED <<choices, toolVars, link>> /\ handler' = "ended" /\ bound' = "none"
        /\ link # "open" /\ chan' = chan /\ fwd' = fwd
    BY DEF HandlerEnds
  <1>2. ForwardInv' /\ chan' \in [Links -> Seq(Message)]
    BY <1>1 DEF StreamInv, ForwardInv, SessionType
  <1> QED
    BY <1>1, <1>2, NodeInv DEF Live

\* A step between the nodes, or of a forwarder towards the other node.
LEMMA PeerInv ==
    ASSUME StreamInv, UNCHANGED <<choices, toolVars, link, handler, bound>>, NEW l \in Peer,
           NEW s \in Seq(Passing), chan' = [chan EXCEPT ![l] = s],
           DOMAIN fwd' = {"a", "b"}, \A n \in {"a", "b"} : DOMAIN fwd'[n] \subseteq Passing
    PROVE  StreamInv'
  <1>1. s \in Seq(Message)
    BY DEF Passing
  <1>2. chan \in [Links -> Seq(Message)] /\ l \in Links
    BY LinksAre DEF StreamInv, SessionType
  <1>3. chan' \in [Links -> Seq(Message)]
    BY <1>1, <1>2
  <1>4. /\ chan'[Up] = chan[Up] /\ chan'[Down] = chan[Down]
        /\ \A k \in Peer : chan'[k] = IF k = l THEN s ELSE chan[k]
    BY <1>2, LinksAre
  <1>5. ForwardInv'
    BY <1>4 DEF StreamInv, ForwardInv
  <1>6. handler' = handler /\ bound' = bound /\ handler \in {"first", "hello", "loop", "ended"}
        /\ bound \in {"temp", "tool", "none"} /\ UNCHANGED <<choices, toolVars, link>>
    BY DEF StreamInv, SessionType
  <1>7. Live => OpenOK(tool, Base, pc, handler', chan'[Up], chan'[Down], got)
    BY <1>4, <1>6 DEF StreamInv, OpenInv
  <1> QED
    BY <1>3, <1>5, <1>6, <1>7, NodeInv

LEMMA RecvPeerInv == ASSUME StreamInv, NEW n \in {"a", "b"}, RecvPeer(n) PROVE StreamInv'
  <1>1. PICK l : l = <<Other(n), n>>
    OBVIOUS
  <1>2. /\ chan[l] # <<>> /\ chan' = [chan EXCEPT ![l] = Tail(@)]
        /\ fwd' = Enqueued(n, Head(chan[l]), Other(n))
        /\ UNCHANGED <<choices, toolVars, link, handler, bound>>
    BY <1>1 DEF RecvPeer
  <1>3. l \in Peer /\ Other(n) \in {"a", "b", "temp", "tool", "none"}
    BY <1>1 DEF Peer, Other
  <1>4. chan[l] \in Seq(Passing)
    BY <1>3 DEF StreamInv, ForwardInv
  <1>5. Tail(chan[l]) \in Seq(Passing) /\ Head(chan[l]) \in Passing
    BY <1>2, <1>4, TailIs
  <1>6. DOMAIN fwd' = {"a", "b"} /\ \A k \in {"a", "b"} : DOMAIN fwd'[k] \subseteq Passing
    BY <1>2, <1>3, <1>5, EnqueuedOK
  <1>7. PICK s \in Seq(Passing) : chan' = [chan EXCEPT ![l] = s]
    BY <1>2, <1>5
  <1> QED
    BY <1>2, <1>3, <1>6, <1>7, PeerInv

LEMMA ForwardStepInv == ASSUME Stream, StreamInv, NEW n \in {"a", "b"}, Forward(n) PROVE StreamInv'
  <1>1. PICK m \in DOMAIN fwd[n] : \E l \in Hop(n, m.dest) :
           /\ fwd' = [fwd EXCEPT ![n] = @ (-) SetToBag({m})]
           /\ chan' = IF l = Down THEN ToTool(<<m>>) ELSE [chan EXCEPT ![l] = Append(@, m)]
    BY DEF Forward, Down
  <1>2. PICK l \in Hop(n, m.dest) :
           /\ fwd' = [fwd EXCEPT ![n] = @ (-) SetToBag({m})]
           /\ chan' = IF l = Down THEN ToTool(<<m>>) ELSE [chan EXCEPT ![l] = Append(@, m)]
    BY <1>1
  <1>3. /\ UNCHANGED <<choices, toolVars, link, handler, bound>>
        /\ DOMAIN fwd = {"a", "b"} /\ \A k \in {"a", "b"} : DOMAIN fwd[k] \subseteq Passing
    BY DEF Forward, StreamInv, ForwardInv
  <1>4. m \in Passing /\ m \in Message /\ ~IsControl(m)
    BY <1>3 DEF Passing
  <1>5. DOMAIN fwd' = {"a", "b"} /\ \A k \in {"a", "b"} : DOMAIN fwd'[k] \subseteq Passing
    <2>1. PICK B : B = fwd[n] (-) SetToBag({m}) /\ DOMAIN B \subseteq DOMAIN fwd[n]
      BY BagTakes
    <2>2. /\ DOMAIN fwd' = {"a", "b"} /\ fwd'[n] = B
          /\ \A k \in {"a", "b"} : k # n => fwd'[k] = fwd[k]
      BY <1>2, <1>3, <2>1
    <2> QED
      BY <1>3, <2>1, <2>2
  <1>6. (l = Down /\ link = "open") \/ l \in Peer
    BY <1>2 DEF Hop, Other, Peer, Down, Stream
  <1>7. CASE l \in Peer
    <2>1. l # Down /\ chan[l] \in Seq(Passing)
      BY <1>7, LinksAre DEF StreamInv, ForwardInv
    <2>2. PICK s \in Seq(Passing) : chan' = [chan EXCEPT ![l] = s]
      BY <1>2, <1>4, <2>1, AppendIs
    <2> QED
      BY <1>3, <1>5, <1>7, <2>2, PeerInv
  <1>8. CASE l = Down /\ link = "open"
    <2>1. PICK down \in Seq(Message), new \in Seq(Message) :
             down = chan[Down] /\ new = Append(down, m) /\ chan' = [chan EXCEPT ![Down] = new]
      <3>1. chan' = [chan EXCEPT ![Down] = Append(chan[Down], m)]
        BY <1>2, <1>4, <1>8, ToToolIs
      <3>2. chan[Down] \in Seq(Message) /\ Append(chan[Down], m) \in Seq(Message)
        BY <1>4, OpenFacts, AppendIs
      <3> QED
        BY <3>1, <3>2
    <2>2. /\ chan' \in [Links -> Seq(Message)] /\ chan'[Up] = chan[Up] /\ chan'[Down] = new
          /\ \A k \in Peer : chan'[k] = chan[k]
      BY <2>1, LinksAre DEF StreamInv, SessionType
    <2>3. ForwardInv'
      BY <1>5, <2>2 DEF StreamInv, ForwardInv
    <2>4. ASSUME Live
          PROVE  OpenOK(tool, Base, pc, handler', chan'[Up], chan'[Down], got)
      <3>1. PICK t, b, p, h, up, g, C :
               /\ t = tool /\ b = Base /\ p = pc /\ h = handler /\ up = chan[Up] /\ g = got
               /\ C = Due(tool, Base) /\ OpenOK(t, b, p, h, up, down, g) /\ b \in {0, 1} /\ g \in Seq(C)
        BY <2>1, <2>4, BaseIs DEF StreamInv, OpenInv, GotInv
      <3>2. OpenOK(t, b, p, h, up, Append(down, m), g)
        BY ONLY <1>4, <3>1, down \in Seq(Message), OpenForwards
      <3> QED
        BY <1>3, <2>1, <2>2, <3>1, <3>2
    <2>5. handler' \in {"first", "hello", "loop", "ended"} /\ bound' \in {"temp", "tool", "none"}
      BY <1>3 DEF StreamInv, SessionType
    <2> QED
      BY <1>3, <2>2, <2>3, <2>4, <2>5, NodeInv
  <1> QED
    BY <1>6, <1>7, <1>8

LEMMA OtherSendsInv == ASSUME StreamInv, OtherSends PROVE StreamInv'
  <1>1. PICK l, m : l = <<"b", "a">> /\ m = TestMessage("tool")
    OBVIOUS
  <1>2. l \in Peer /\ m \in Passing
    <2>1. m \in Message /\ m.kind = "raw"
      BY <1>1 DEF TestMessage, Msg, Message, Kinds
    <2> QED
      BY <1>1, <2>1 DEF Peer, Passing, IsControl
  <1>3. /\ UNCHANGED <<choices, toolVars, link, handler, bound>> /\ fwd' = fwd
        /\ chan' = [chan EXCEPT ![l] = Append(@, m)]
    BY <1>1 DEF OtherSends
  <1>4. chan[l] \in Seq(Passing)
    BY <1>2 DEF StreamInv, ForwardInv
  <1>5. PICK s \in Seq(Passing) : chan' = [chan EXCEPT ![l] = s]
    BY <1>2, <1>3, <1>4, AppendIs
  <1>6. DOMAIN fwd' = {"a", "b"} /\ \A n \in {"a", "b"} : DOMAIN fwd'[n] \subseteq Passing
    BY <1>3 DEF StreamInv, ForwardInv
  <1> QED
    BY <1>2, <1>3, <1>5, <1>6, PeerInv

-----------------------------------------------------------------------------
(* The calls of RecvBytes.                                                 *)

\* Nothing that a tool waits for is called garbled.
LEMMA KindsAre == \A m \in Message : m.kind # "garbled"
  BY DEF Message, Kinds

LEMMA ReadersStay ==
    ASSUME ReadersInv, UNCHANGED <<choices, pc, readers, result>>, (ctxDone => ctxDone')
    PROVE  ReadersInv' /\ Torn' = Torn
  <1>1. tool' = tool /\ Torn' = Torn
    BY BaseStays DEF Torn
  <1> QED
    BY <1>1 DEF ReadersInv

LEMMA ReadersKept ==
    ASSUME Stream, StreamInv, ReadersInv, ToolStep PROVE ReadersInv' /\ (Live' => Live)
  <1>0. /\ readers \subseteq {1, 2} /\ DOMAIN result = {1, 2} /\ (tool # "worker" => ~Torn)
        /\ pc \in Stages(tool) \cup {"exited"} /\ tool \in {"worker", "client", "ctl"}
    BY DEF ReadersInv, Torn, StreamInv, SessionType
  <1>1. tool' = tool /\ Stream' = Stream /\ UNCHANGED choices /\ link' \in {link, "closed"}
        /\ pc # "exited"
    BY <1>0, BaseStays
       DEF ToolStep, SendHello, Register, NotAccepted, Done, WaitLooks, WaitReads, SendTest, Ask,
           ReaderTakes, ReaderRaces, ReaderFails, GoesOn, Exit, Awaited
  <1>2. SUFFICES ReadersInv' /\ (Torn => Torn')
    BY <1>1 DEF Live
  <1>3. CASE SendHello
    <2>1. /\ pc = "hello" /\ readers = {} /\ result' = result /\ ctxDone' = ctxDone
          /\ result[1] = "none" /\ \A r \in {1, 2} : result[r] # "garbled"
          /\ readers' \subseteq {1} /\ pc' \in {"exited", "await", "ask"}
          /\ tool = "ctl" => pc' # "await"
          /\ tool # "ctl" => pc' # "ask"
      BY <1>3 DEF SendHello, Exit, ReadersInv
    <2>2. ~Torn /\ ~Torn' /\ pc' \in Stages(tool) \cup {"exited"}
      BY <1>0, <2>1 DEF Torn, Stages
    <2> QED
      BY <1>0, <1>1, <2>1, <2>2 DEF ReadersInv
  <1>4. CASE Register
    <2>1. /\ tool = "worker" /\ pc = "await" /\ result' = result /\ ctxDone' = ctxDone
          /\ readers' \in {readers, readers \cup {2}} /\ pc' \in {"exited", "registered"}
          /\ result[1] # "none" \/ ctxDone
          /\ 1 \in readers => result[1] = "none"
          /\ \A r \in {1, 2} : result[r] # "garbled"
      BY <1>4 DEF Register, Exit, WaitOver, ReadersInv
    <2>2. Torn' => ctxDone
      BY <2>1 DEF Torn
    <2>3. ~Torn \/ Torn'
      BY <1>1, <2>1, <1>0 DEF Torn, ReadersInv
    <2> QED
      BY <1>0, <1>1, <2>1, <2>2, <2>3 DEF ReadersInv, Stages
  <1>5. CASE NotAccepted \/ Done \/ \E d \in {"", "a", "b", "nowhere"} : SendTest(d)
    <2>1. /\ UNCHANGED <<readers, result, ctxDone>> /\ pc' \in {"exited", "sent"}
          /\ pc' = "sent" => tool = "client"
      BY <1>5 DEF NotAccepted, Done, SendTest, Exit
    <2>2. Torn' = Torn
      BY <1>1, <2>1 DEF Torn
    <2> QED
      BY <1>0, <1>1, <2>1, <2>2 DEF ReadersInv, Stages
  <1>6. CASE WaitLooks \/ WaitReads \/ \E m \in {GetIdentity, GetRoutes, TaskListWorkers} : Ask(m)
    <2>1. tool = "ctl" /\ ~Torn /\ 2 \notin readers /\ \A r \in {1, 2} : result[r] # "garbled"
      BY <1>0, <1>6 DEF WaitLooks, WaitReads, Ask, Awaited, Stages, ReadersInv
    <2>2. /\ readers' \in {readers, {1}} /\ ctxDone' = ctxDone
          /\ result' = result \/ result' = [result EXCEPT ![1] = "none"]
          /\ 1 \in readers' => 1 \in readers \/ result'[1] = "none"
          /\ pc' \in {pc, "exited", "askMore", "GetIdentity", "GetRoutes", "TaskListWorkers"}
          /\ pc # "hello"
      BY <1>0, <1>6, Messages DEF WaitLooks, WaitReads, Ask, GoesOn, Exit, Awaited
    <2>3. /\ DOMAIN result' = {1, 2} /\ 2 \notin readers' /\ \A r \in {1, 2} : result'[r] # "garbled"
          /\ 1 \in readers' => result'[1] = "none"
      BY <1>0, <2>1, <2>2 DEF ReadersInv
    <2>4. ~Torn'
      BY <2>3 DEF Torn
    <2>5. pc' \in Stages(tool) \cup {"exited"} /\ pc' \notin {"hello", "await"}
      BY <1>0, <2>1, <2>2 DEF Stages
    <2> QED
      BY <1>1, <2>1, <2>2, <2>3, <2>4, <2>5 DEF ReadersInv
  <1>7. ASSUME NEW r \in {1, 2}, ReaderTakes(r) \/ ReaderFails(r)
        PROVE  ReadersInv' /\ (Torn => Torn')
    <2>1. /\ ~Torn /\ r \in readers /\ readers' = readers \ {r} /\ pc' = pc /\ ctxDone' = ctxDone
          /\ \E k : k # "garbled" /\ result' = [result EXCEPT ![r] = k]
      <3>1. CASE ReaderFails(r)
        BY <3>1 DEF ReaderFails
      <3>2. CASE ReaderTakes(r)
        <4>1. PICK i \in Takable(Down) : result' = [result EXCEPT ![r] = chan[Down][i].kind]
          BY <3>2 DEF ReaderTakes, Down
        <4>2. chan[Down][i] \in Message
          BY OpenFacts DEF Takable
        <4>3. chan[Down][i].kind # "garbled"
          BY <4>2, KindsAre
        <4> QED
          BY <3>2, <4>1, <4>3 DEF ReaderTakes
      <3> QED
        BY <1>7, <3>1, <3>2
    <2>2. PICK k : k # "garbled" /\ result' = [result EXCEPT ![r] = k]
      BY <2>1
    <2>3. /\ DOMAIN result' = {1, 2} /\ \A q \in {1, 2} : result'[q] = IF q = r THEN k ELSE result[q]
      BY <1>0, <2>2
    <2>4. \A q \in {1, 2} : result[q] # "garbled"
      BY <2>1 DEF Torn
    <2>5. ~Torn'
      BY <2>1, <2>2, <2>3, <2>4, <1>0 DEF Torn
    <2>6. pc # "hello"
      BY <2>1 DEF ReadersInv
    <2> QED
      BY <1>0, <1>1, <2>1, <2>2, <2>3, <2>4, <2>5, <2>6 DEF ReadersInv
  <1>8. ASSUME NEW r \in {1, 2}, ReaderRaces(r)
        PROVE  ReadersInv' /\ (Torn => Torn')
    <2>1. /\ Torn /\ r \in readers /\ readers' = readers \ {r} /\ pc' \in {pc, "exited"}
          /\ result' = [result EXCEPT ![r] = "garbled"] /\ ctxDone' = ctxDone
      BY <1>8 DEF ReaderRaces, Exit
    <2>2. DOMAIN result' = {1, 2} /\ \A q \in {1, 2} : result'[q] = IF q = r THEN "garbled" ELSE result[q]
      BY <1>0, <2>1
    <2>3. tool = "worker" /\ ctxDone /\ pc \notin {"hello", "await"}
      BY <1>0, <2>1 DEF ReadersInv, Torn
    <2>4. Torn'
      BY <1>1, <2>1, <2>2 DEF Torn
    <2> QED
      BY <1>0, <1>1, <2>1, <2>2, <2>3, <2>4 DEF ReadersInv
  <1> QED
    BY <1>3, <1>4, <1>5, <1>6, <1>7, <1>8 DEF ToolStep

-----------------------------------------------------------------------------
(* The specification.                                                      *)

LEMMA ToInitInv == ToInit => ToolsInv
  <1> SUFFICES ASSUME ToInit PROVE StreamInv /\ ReadersInv
    BY DEF ToolsInv
  <1>0. ReadersInv
    BY DEF ToInit, ReadersInv, Torn, Stages
  <1>1. /\ tool \in {"worker", "client", "ctl"} /\ link = "open" /\ pc = "hello" /\ handler = "first"
        /\ bound = "temp" /\ got = <<>> /\ chan = [l \in Links |-> <<>>]
        /\ fwd = [n \in {"a", "b"} |-> EmptyBag]
    BY ToolsAssumption DEF ToInit
  <1>2. <<>> \in Seq(Message) /\ <<>> \in Seq(Outgoing) /\ <<>> \in Seq(Passing) /\ Len(<<>>) = 0
    OBVIOUS
  <1>3. \A l \in Links : chan[l] = <<>>
    BY <1>1
  <1>4. SessionType
    BY <1>1, <1>2 DEF SessionType
  <1>5. ForwardInv
    <2>1. DOMAIN EmptyBag = {}
      BY DEF EmptyBag, SetToBag
    <2>2. \A n \in {"a", "b"} : DOMAIN fwd[n] \subseteq Passing
      BY <1>1, <2>1
    <2> QED
      BY <1>1, <1>2, <1>3, <2>2, LinksAre DEF ForwardInv
  <1>6. GotInv
    <2>1. got \in Seq(Due(tool, Base)) /\ Len(got) = 0
      BY <1>1
    <2> QED
      BY <2>1 DEF GotInv
  <1>7. OpenInv
    <2>1. PICK b \in {0, 1} : b = Base
      BY BaseIs
    <2>2. chan[Up] = <<>> /\ chan[Down] = <<>>
      BY <1>3, LinksAre
    <2>3. Handled("first", b, 0, b) /\ Asked("hello") = 0 /\ "hello" \in Stages(tool)
      BY DEF Handled, Asked, Stages
    <2>4. \A f, k : k \in {0, 1} => InTurn(<<>>, f, k, k)
      <3> SUFFICES ASSUME NEW f, NEW k \in {0, 1} PROVE Row([i \in 1..0 |-> f[<<>>[i].kind]], 0, k, k)
        BY <1>2 DEF InTurn
      <3> QED
        BY DEF Row
    <2>5. InTurn(<<>>, AskTurn, 0, Asked("hello")) /\ InTurn(<<>>, ReplyTurn, b + Len(<<>>), b)
      <3>1. b + Len(<<>>) = b
        BY <1>2
      <3>2. InTurn(<<>>, AskTurn, 0, 0) /\ InTurn(<<>>, ReplyTurn, b, b)
        BY <2>4
      <3> QED
        BY <2>3, <3>1, <3>2
    <2>6. \A i \in 1..Len(<<>>) : FALSE
      BY <1>2
    <2>7. 0 \in 0..3 /\ b \in 0..3
      OBVIOUS
    <2>8. OpenOK(tool, b, "hello", "first", <<>>, <<>>, <<>>)
      BY <2>3, <2>5, <2>6, <2>7 DEF OpenOK
    <2> QED
      BY <1>1, <2>1, <2>2, <2>8 DEF OpenInv
  <1> QED
    BY <1>0, <1>4, <1>5, <1>6, <1>7 DEF StreamInv

LEMMA NextInv == ToolsInv /\ [ToNext]_tovars => ToolsInv'
  <1> SUFFICES ASSUME ToolsInv, [ToNext]_tovars, Stream' PROVE StreamInv' /\ ReadersInv'
    BY DEF ToolsInv
  <1>1. UNCHANGED choices
    BY DEF ToNext, tovars, ToolStep, NodeStep, SendHello, Register, NotAccepted, Done, WaitLooks,
           WaitReads, SendTest, Ask, ReaderTakes, ReaderRaces, ReaderFails, RecvFirst, SendHelloAck,
           Recv, HandlerEnds, RecvPeer, Forward, OtherSends, Break, Timeout, CtxCloses, Lose, Repeat
  <1>2. Stream /\ StreamInv /\ ReadersInv
    BY <1>1, BaseStays DEF ToolsInv
  <1>2a. ASSUME UNCHANGED <<pc, readers, result>>, (ctxDone => ctxDone'), link' \in {link, "closed"}
         PROVE  ReadersInv' /\ (Live' => Live)
    <2>1. ReadersInv' /\ Torn' = Torn
      <3>1. UNCHANGED <<choices, pc, readers, result>>
        BY <1>1, <1>2a
      <3> QED
        BY <1>2, <1>2a, <3>1, ReadersStay
    <2>2. pc' = pc /\ (link' = "open" => link = "open")
      BY <1>2a
    <2> QED
      BY <2>1, <2>2 DEF Live
  <1>3. CASE UNCHANGED tovars
    <2>1. UNCHANGED <<choices, got, nodeVars, chan, pc, readers, result, ctxDone, link>>
      BY <1>3 DEF tovars, toolVars
    <2>2. link \in {"open", "closed"}
      BY <1>2 DEF StreamInv, SessionType
    <2> QED
      BY <1>2, <1>2a, <2>1, <2>2, QuietInv, StageFacts
  <1>4. CASE ToolStep
    <2>0. ReadersInv' /\ (Live' => Live)
      BY <1>2, <1>4, ReadersKept
    <2>1. CASE SendHello
      BY <1>2, <2>0, <2>1, SendHelloInv
    <2>2. CASE Register
      BY <1>2, <2>0, <2>2, RegisterInv
    <2>3. CASE NotAccepted \/ Done \/ WaitLooks \/ WaitReads \/ \E r \in {1, 2} : ReaderFails(r)
      BY <1>2, <2>0, <2>3, WaitInv
    <2>4. ASSUME NEW d \in {"", "a", "b", "nowhere"}, SendTest(d) PROVE StreamInv'
      <3>1. TestMessage(d) \in Message
        BY DEF TestMessage, Msg, Message, Kinds
      <3>2. TestMessage(d).kind = "raw"
        BY DEF TestMessage, Msg
      <3>3. TestMessage(d) \in Outgoing
        BY <3>1, <3>2 DEF Outgoing, IsControl
      <3> QED
        BY <1>2, <2>0, <2>4, <3>3, SendTestInv
    <2>5. ASSUME NEW m \in {GetIdentity, GetRoutes, TaskListWorkers}, Ask(m) PROVE StreamInv'
      BY <1>2, <2>0, <2>5, AskInv
    <2>6. ASSUME NEW r \in {1, 2}, ReaderTakes(r) PROVE StreamInv'
      BY <1>2, <2>6, ReaderTakesInv
    <2>7. ASSUME NEW r \in {1, 2}, ReaderRaces(r) PROVE StreamInv'
      <3>1. ~Live'
        BY <2>0, <2>7 DEF ReaderRaces, Live
      <3> QED
        BY <1>2, <2>7, <3>1, ReaderRacesInv
    <2> QED
      BY <1>4, <2>0, <2>1, <2>2, <2>3, <2>4, <2>5, <2>6, <2>7 DEF ToolStep
  <1>5. CASE NodeStep
    <2>1. UNCHANGED <<pc, readers, result, ctxDone, link>>
      BY <1>5 DEF NodeStep, RecvFirst, SendHelloAck, Recv, HandlerEnds, RecvPeer, Forward, toolVars
    <2>2. StreamInv'
      BY <1>2, <1>5, RecvFirstInv, SendHelloAckInv, RecvInv, HandlerEndsInv, RecvPeerInv, ForwardStepInv
         DEF NodeStep
    <2> QED
      BY <1>2a, <2>1, <2>2
  <1>6. CASE OtherSends \/ Break
    <2>1. UNCHANGED <<pc, readers, result, ctxDone>> /\ link' \in {link, "closed"}
      BY <1>6 DEF OtherSends, Break, toolVars
    <2> QED
      BY <1>2, <1>2a, <1>6, <2>1, OtherSendsInv, BreakInv
  <1>7. CASE Timeout \/ CtxCloses
    <2>1. /\ UNCHANGED <<pc, readers, result>> /\ (ctxDone => ctxDone')
          /\ link' \in {link, "closed"}
      BY <1>7 DEF Timeout, CtxCloses, toolVars
    <2> QED
      BY <1>2, <1>2a, <1>7, <2>1, WaitInv
  <1>8. CASE \E l \in {<<"t", "a">>, <<"a", "t">>} : Lose(l) \/ Repeat(l)
    BY <1>2, <1>8 DEF Lose, Repeat, Stream
  <1> QED
    BY <1>3, <1>4, <1>5, <1>6, <1>7, <1>8 DEF ToNext

LEMMA ToolsKept == ToSpec => []ToolsInv
  BY ToInitInv, NextInv, PTL DEF ToSpec

\* The reply of a turn.
LEMMA DueInTurn ==
    ASSUME NEW t \in {"worker", "client", "ctl"}, NEW b \in {0, 1}, NEW m \in Due(t, b)
    PROVE  /\ ReplyTurn[m.kind] \in 1..3
           /\ ReplyTurn[m.kind] = 1 => m = PeerHelloAck /\ b = 0
           /\ ReplyTurn[m.kind] = 2 => \/ t = "worker" /\ m = TaskRegisterAck
                                       \/ t = "ctl" /\ m = IdentityReply
           /\ ReplyTurn[m.kind] = 3 => t = "ctl" /\ m \in {RoutesReply, TaskListWorkersReply}
  <1>1. \/ m = PeerHelloAck /\ b = 0
        \/ t = "worker" /\ m = TaskRegisterAck
        \/ t = "ctl" /\ m \in {IdentityReply, RoutesReply, TaskListWorkersReply}
    BY DEF Due
  <1>2. /\ ReplyTurn[PeerHelloAck.kind] = 1 /\ ReplyTurn[TaskRegisterAck.kind] = 2
        /\ ReplyTurn[IdentityReply.kind] = 2 /\ ReplyTurn[RoutesReply.kind] = 3
        /\ ReplyTurn[TaskListWorkersReply.kind] = 3
    BY Messages, ReplyTurns
  <1> QED
    BY <1>1, <1>2

LEMMA PrefixIs ==
    ASSUME NEW C, NEW s \in Seq(C), NEW u \in Seq(C), Len(s) <= Len(u), \A i \in 1..Len(s) : s[i] = u[i]
    PROVE  IsPrefix(s, u)
  <1>1. Len(s) \in Nat /\ Len(u) \in Nat
    BY LenProperties
  <1>2. SubSeq(s, 1, Len(s)) = SubSeq(u, 1, Len(s))
    BY <1>1
  <1> QED
    BY <1>2 DEF IsPrefix

\* What comes after the first turn.
Rest(t, r) == CASE t = "worker" -> <<TaskRegisterAck>>
                [] t = "client" -> <<>>
                [] t = "ctl"    -> <<IdentityReply, r>>

\* What was read is what was due, up to the last turn that was read.
LEMMA GotInOrder ==
    ASSUME NEW t \in {"worker", "client", "ctl"}, NEW b \in {0, 1}, NEW g \in Seq(Due(t, b)),
           \A i \in 1..Len(g) : ReplyTurn[g[i].kind] = b + i,
           NEW first, first = IF b = 0 THEN <<PeerHelloAck>> ELSE <<>>
    PROVE  \E r \in {RoutesReply, TaskListWorkersReply} : IsPrefix(g, first \o Rest(t, r))
  <1>1. PICK n \in Nat : n = Len(g)
    BY LenProperties
  <1>2. \A i \in 1..n : /\ g[i] \in Due(t, b) /\ ReplyTurn[g[i].kind] = b + i /\ b + i \in 1..3
                        /\ b + i = 1 => g[i] = PeerHelloAck /\ b = 0
                        /\ b + i = 2 => \/ t = "worker" /\ g[i] = TaskRegisterAck
                                        \/ t = "ctl" /\ g[i] = IdentityReply
                        /\ b + i = 3 => t = "ctl" /\ g[i] \in {RoutesReply, TaskListWorkersReply}
    <2> SUFFICES ASSUME NEW i \in 1..n
                 PROVE  /\ g[i] \in Due(t, b) /\ ReplyTurn[g[i].kind] = b + i /\ b + i \in 1..3
                        /\ b + i = 1 => g[i] = PeerHelloAck /\ b = 0
                        /\ b + i = 2 => \/ t = "worker" /\ g[i] = TaskRegisterAck
                                        \/ t = "ctl" /\ g[i] = IdentityReply
                        /\ b + i = 3 => t = "ctl" /\ g[i] \in {RoutesReply, TaskListWorkersReply}
      OBVIOUS
    <2>1. PICK m \in Due(t, b) : m = g[i] /\ ReplyTurn[m.kind] = b + i
      BY <1>1
    <2> QED
      BY <2>1, DueInTurn
  <1>3. PICK r \in {RoutesReply, TaskListWorkersReply} : 3 - b \in 1..n => g[3 - b] = r
    <2>1. CASE 3 - b \in 1..n
      <3>1. b + (3 - b) = 3
        OBVIOUS
      <3> QED
        BY <1>2, <2>1, <3>1
    <2> QED
      BY <2>1
  <1>4. PICK rest : rest = Rest(t, r)
    OBVIOUS
  <1>5. /\ rest \in Seq(Message)
        /\ Len(rest) = IF t = "worker" THEN 1 ELSE IF t = "client" THEN 0 ELSE 2
        /\ t = "worker" => rest[1] = TaskRegisterAck
        /\ t = "ctl" => rest[1] = IdentityReply /\ rest[2] = r
    <2>1. TaskRegisterAck \in Message /\ IdentityReply \in Message /\ r \in Message
      BY Messages
    <2> QED
      BY <1>4, <2>1 DEF Rest
  <1>6. first \in Seq(Message) /\ Len(first) = 1 - b /\ (b = 0 => first[1] = PeerHelloAck)
    <2>1. PeerHelloAck \in Message
      BY Messages
    <2> QED
      BY <2>1
  <1>7. PICK u \in Seq(Message) :
           /\ u = first \o rest /\ Len(u) = Len(first) + Len(rest)
           /\ \A i \in 1..Len(u) : u[i] = IF i <= Len(first) THEN first[i] ELSE rest[i - Len(first)]
    <2>1. first \o rest \in Seq(Message) /\ Len(first \o rest) = Len(first) + Len(rest)
      BY <1>5, <1>6, ConcatProperties
    <2>2. \A i \in 1..(Len(first) + Len(rest)) :
             (first \o rest)[i] = IF i <= Len(first) THEN first[i] ELSE rest[i - Len(first)]
      BY <1>5, <1>6, ConcatProperties
    <2>3. PICK u : u = first \o rest
      OBVIOUS
    <2> QED
      BY <2>1, <2>2, <2>3
  <1>8. g \in Seq(Message)
    <2>1. Due(t, b) \subseteq Message
      BY DueTurns
    <2> QED
      BY <2>1
  <1>9. n <= Len(u)
    <2>1. CASE n = 0
      BY <1>5, <1>6, <1>7, <2>1
    <2>2. CASE n # 0
      <3>1. n \in 1..n
        BY <2>2
      <3> QED
        BY <1>2, <1>5, <1>6, <1>7, <3>1
    <2> QED
      BY <2>1, <2>2
  <1>10. \A i \in 1..n : g[i] = u[i]
    <2> SUFFICES ASSUME NEW i \in 1..n PROVE g[i] = u[i]
      OBVIOUS
    <2>1. i \in 1..Len(u)
      BY <1>5, <1>6, <1>7, <1>9
    <2>2. u[i] = IF i <= 1 - b THEN first[i] ELSE rest[i - (1 - b)]
      BY <1>6, <1>7, <2>1
    <2>3. CASE b + i = 1
      <3>1. b = 0 /\ i = 1 /\ g[i] = PeerHelloAck
        BY <1>2, <2>3
      <3> QED
        BY <1>6, <2>2, <3>1
    <2>4. CASE b + i = 2
      <3>1. ~(i <= 1 - b) /\ i - (1 - b) = 1
        BY <2>4
      <3>2. u[i] = rest[1]
        BY <2>2, <3>1
      <3> QED
        BY <1>2, <1>5, <2>4, <3>2
    <2>5. CASE b + i = 3
      <3>1. ~(i <= 1 - b) /\ i - (1 - b) = 2 /\ i = 3 - b
        BY <2>5
      <3>2. u[i] = rest[2]
        BY <2>2, <3>1
      <3> QED
        BY <1>2, <1>3, <1>5, <2>5, <3>1, <3>2
    <2>6. b + i \in 1..3
      BY <1>2
    <2> QED
      BY <2>3, <2>4, <2>5, <2>6
  <1>11. IsPrefix(g, u)
    BY <1>1, <1>8, <1>9, <1>10, PrefixIs
  <1> QED
    BY <1>4, <1>7, <1>11

\* For every tool, clock difference and number of faults, and whatever acks and
\* forwarded messages the nodes' workers send meanwhile: on a stream, QUIC's or
\* another, a tool gets the replies of handleHello and handleControlRequest in the
\* order of its requests, each at most once, until two of its calls of RecvBytes
\* meet; that takes a worker whose wait for the HelloAck timed out.
THEOREM RepliesStayInOrder == ToSpec => []RepliesInOrder
  <1>1. ToolsInv => RepliesInOrder
    <2> SUFFICES ASSUME Stream, StreamInv, ReadersInv PROVE RepliesInOrder
      BY DEF ToolsInv, RepliesInOrder
    <2>0. Torn => tool = "worker" /\ ctxDone
      BY DEF ReadersInv, Torn
    <2>1. PICK t, b, g, first :
             /\ t = tool /\ b = Base /\ g = got /\ first = IF VerifyHello THEN <<PeerHelloAck>> ELSE <<>>
      OBVIOUS
    <2>2. /\ t \in {"worker", "client", "ctl"} /\ b \in {0, 1} /\ g \in Seq(Due(t, b))
          /\ \A i \in 1..Len(g) : ReplyTurn[g[i].kind] = b + i
          /\ first = IF b = 0 THEN <<PeerHelloAck>> ELSE <<>>
      BY <2>1, BaseIs DEF StreamInv, SessionType, GotInv, Base
    <2>3. \E r \in {RoutesReply, TaskListWorkersReply} : IsPrefix(g, first \o Rest(t, r))
      BY ONLY <2>2, GotInOrder
    <2> QED
      BY <2>0, <2>1, <2>3 DEF RepliesInOrder, Rest
  <1> QED
    BY <1>1, ToolsKept, PTL
=============================================================================
