--------------------------- MODULE Router_proofs ---------------------------
(***************************************************************************)
(* Proofs about Router for any nodes, links and costs, and about Routes    *)
(* for any callers, sources and clocks.                                    *)
(***************************************************************************)
EXTENDS Router, Routes, FiniteSetTheorems, SequenceTheorems, WellFoundedInduction, TLAPS

LEMMA CostType == SessionCosts \subseteq Nat
  <1>1. \A k : linkBaseCost(k) \in Nat
    BY DEF linkBaseCost
  <1> SUFFICES ASSUME NEW c \in SessionCosts PROVE c \in Nat
    OBVIOUS
  <1>2. PICK k \in Kinds, x \in Extras : c = linkBaseCost(k) + x
    BY DEF SessionCosts
  <1>3. linkBaseCost(k) \in Nat /\ x \in Nat
    BY <1>1, RouterAssumption
  <1> QED
    BY <1>2, <1>3

-----------------------------------------------------------------------------
(* Types.                                                                  *)

StoreOK ==
    /\ known \in SUBSET Peers
    /\ direct \in [Peers -> SUBSET Peers]
    /\ listed \in SUBSET Peers
    /\ cost \in [Peers -> Nat \cup {NoSession}]
    /\ sweep \in SUBSET (Peers \X Peers)
    /\ changes \in Nat

LEMMA NoCallType == NoCall \in Call
  BY RouterAssumption DEF NoCall, Call

LEMMA EdgeType == ASSUME StoreOK, NEW p \in Peers, NEW q \in Peers PROVE edgeWeight(p, q) \in Nat
  BY DEF StoreOK, edgeWeight

\* Visiting a peer shortens distances, and adds entries to the heap.
LEMMA VisitedType ==
    ASSUME call \in Call, NEW i \in Peers \X Nat
    PROVE  /\ Visited(i) \in Call
           /\ Visited(i).visited = call.visited \cup {i[1]}
           /\ Visited(i).reached = call.reached \cup Shortened(i[1])
           /\ Visited(i).dist = [q \in Peers |-> IF q \in Shortened(i[1])
                                                   THEN call.dist[i[1]] + call.weight[<<i[1], q>>]
                                                   ELSE call.dist[q]]
           /\ Visited(i).prev = [q \in Peers |-> IF q \in Shortened(i[1]) THEN i[1] ELSE call.prev[q]]
           /\ Visited(i).pq = (call.pq \ {i}) \cup
                                 {<<q, Visited(i).dist[q]>> : q \in Shortened(i[1])}
           /\ Visited(i).pc = call.pc
  <1> DEFINE p    == i[1]
             new  == Shortened(p)
             dist == [q \in Peers |-> IF q \in new THEN call.dist[p] + call.weight[<<p, q>>]
                                                   ELSE call.dist[q]]
             prev == [q \in Peers |-> IF q \in new THEN p ELSE call.prev[q]]
             pq   == (call.pq \ {i}) \cup {<<q, dist[q]>> : q \in new}
  <1>1. new \in SUBSET Peers /\ p \in Peers
    BY DEF Shortened
  <1>f. i[1] = p /\ Shortened(p) = new
    OBVIOUS
  <1> HIDE DEF p, new
  <1>c. call.dist \in [Peers -> Nat] /\ call.weight \in [Peers \X Peers -> Nat]
    BY DEF Call
  <1>d. \A q \in Peers : call.dist[p] + call.weight[<<p, q>>] \in Nat
    <2> SUFFICES ASSUME NEW q \in Peers PROVE call.dist[p] + call.weight[<<p, q>>] \in Nat
      OBVIOUS
    <2>1. call.dist[p] \in Nat /\ call.weight[<<p, q>>] \in Nat
      BY <1>1, <1>c
    <2> QED
      BY <2>1
  <1>2. dist \in [Peers -> Nat]
    BY <1>1, <1>c, <1>d
  <1>3. prev \in [Peers -> Peers \cup {NoPeer}]
    BY <1>1 DEF Call
  <1>4. pq \in SUBSET (Peers \X Nat)
    <2> HIDE DEF dist
    <2>1. call.pq \in SUBSET (Peers \X Nat)
      BY DEF Call
    <2>2. \A q \in new : <<q, dist[q]>> \in Peers \X Nat
      BY <1>1, <1>2
    <2> QED
      BY <2>1, <2>2
  <1>5. Visited(i) = [call EXCEPT !.visited = call.visited \cup {p},
                                  !.reached = call.reached \cup new,
                                  !.dist = dist, !.prev = prev, !.pq = pq]
    BY <1>f DEF Visited
  <1>6. pq = (call.pq \ {i}) \cup {<<q, dist[q]>> : q \in new}
    OBVIOUS
  <1> HIDE DEF dist, prev, pq
  <1>v. call.visited \cup {p} \in SUBSET Peers /\ call.reached \cup new \in SUBSET Peers
    BY <1>1 DEF Call
  <1>e. Visited(i) \in Call
    BY <1>v, <1>2, <1>3, <1>4, <1>5 DEF Call
  <1>7. /\ Visited(i).visited = call.visited \cup {p}
        /\ Visited(i).reached = call.reached \cup new
        /\ Visited(i).dist = dist
        /\ Visited(i).prev = prev
        /\ Visited(i).pq = pq
        /\ Visited(i).pc = call.pc
    BY <1>5 DEF Call
  <1> QED
    BY <1>6, <1>7, <1>e, <1>f DEF dist, prev

\* Steps of the router keep the type of the call.
LEMMA CallType ==
    ASSUME RtTypeOK, call.pc = "trace" => call.path # <<>>,
           RouterStep \/ \E t \in Targets : SendBytesToPeer(t)
    PROVE  call' \in Call
  <1> USE RouterAssumption
  <1>0. call \in Call /\ StoreOK
    BY DEF RtTypeOK, StoreOK
  <1>1. ASSUME NEW t \in Targets, SendBytesToPeer(t) PROVE call' \in Call
    BY <1>0, <1>1, NoCallType DEF SendBytesToPeer, Call, StoreOK
  <1>2. ASSUME NEW p \in Peers, ReadRecord(p) PROVE call' \in Call
    <2> DEFINE out == IF p \in known THEN {<<p, q>> : q \in direct[p]} ELSE {}
               w   == [e \in Peers \X Peers |-> IF e \in out THEN 200 ELSE call.weight[e]]
               d   == IF p = Local THEN {e[2] : e \in out} ELSE {}
               x   == IF p = Local THEN "weigh" ELSE "build"
    <2>1. out \in SUBSET (Peers \X Peers)
      BY <1>0 DEF StoreOK
    <2>2. w \in [Peers \X Peers -> Nat]
      BY <1>0 DEF Call
    <2>3. d \in SUBSET Peers
      BY <2>1
    <2>4. x \in {"weigh", "build"}
      OBVIOUS
    <2>5. call' = [call EXCEPT !.ids = call.ids \ {p}, !.pc = x, !.pend = d,
                               !.links = call.links \cup out, !.weight = w]
      BY <1>2 DEF ReadRecord
    <2> HIDE DEF out, w, d, x
    <2> QED
      BY <1>0, <2>1, <2>2, <2>3, <2>4, <2>5 DEF Call
  <1>3. ASSUME NEW p \in Peers, Weigh(p) PROVE call' \in Call
    <2> DEFINE w == [call.weight EXCEPT ![<<Local, p>>] = edgeWeight(Local, p)]
    <2>1. w \in [Peers \X Peers -> Nat]
      BY <1>0, EdgeType DEF Call
    <2>2. call' = [call EXCEPT !.pend = call.pend \ {p}, !.weight = w]
      BY <1>3 DEF Weigh
    <2> HIDE DEF w
    <2> QED
      BY <1>0, <2>1, <2>2 DEF Call
  <1>4. ASSUME Weighed \/ StartSearch PROVE call' \in Call
    <2>1. CASE Weighed
      BY <1>0, <2>1 DEF Weighed, Call
    <2>2. CASE StartSearch
      <3>1. {<<Local, 0>>} \in SUBSET (Peers \X Nat)
        OBVIOUS
      <3> QED
        BY <1>0, <2>2, <3>1 DEF StartSearch, Call
    <2> QED
      BY <1>4, <2>1, <2>2
  <1>5. ASSUME Skip PROVE call' \in Call
    <2>1. PICK i : call' = [call EXCEPT !.pq = call.pq \ {i}]
      BY <1>5 DEF Skip
    <2> QED
      BY <1>0, <2>1 DEF Call
  <1>6. ASSUME ReachGoal PROVE call' \in Call
    <2>1. PICK i \in Nearest : call' = [call EXCEPT !.pq = {}, !.visited = call.visited \cup {i[1]}]
      BY <1>6 DEF ReachGoal
    <2>2. i \in Peers \X Nat
      BY <1>0 DEF Nearest, Call
    <2> QED
      BY <1>0, <2>1, <2>2 DEF Call
  <1>7. ASSUME Visit PROVE call' \in Call
    <2>1. PICK i \in Nearest : call' = Visited(i)
      BY <1>7 DEF Visit
    <2>2. i \in Peers \X Nat
      BY <1>0 DEF Nearest, Call
    <2> QED
      BY <1>0, <2>1, <2>2, VisitedType
  <1>8. ASSUME EndSearch PROVE call' \in Call
    <2>1. call.goal \in call.reached => <<call.goal>> \in Seq(Peers)
      BY <1>0 DEF Call
    <2> QED
      BY <1>0, <1>8, <2>1 DEF EndSearch, Call
  <1>9. ASSUME TraceBack PROVE call' \in Call
    <2> DEFINE at == Head(call.path)
    <2>1. CASE call' = [call EXCEPT !.pc = "done"]
      BY <1>0, <2>1 DEF Call
    <2>2. CASE call' # [call EXCEPT !.pc = "done"]
      <3>1. at # Local /\ call.prev[at] # NoPeer
            /\ call' = [call EXCEPT !.path = <<call.prev[at]>> \o call.path]
        BY <1>9, <2>2 DEF TraceBack
      <3>2. call.path \in Seq(Peers) /\ call.path # <<>>
        BY <1>0, <1>9 DEF Call, TraceBack
      <3>3. at \in Peers
        BY <3>2
      <3>4. call.prev[at] \in Peers
        BY <1>0, <3>1, <3>3 DEF Call
      <3>5. <<call.prev[at]>> \o call.path \in Seq(Peers)
        BY <3>2, <3>4
      <3> QED
        BY <1>0, <3>1, <3>5 DEF Call
    <2> QED
      BY <2>1, <2>2
  <1>10. ASSUME Return PROVE call' \in Call
    BY <1>10, NoCallType DEF Return
  <1> QED
    BY <1>1, <1>2, <1>3, <1>4, <1>5, <1>6, <1>7, <1>8, <1>9, <1>10 DEF RouterStep

-----------------------------------------------------------------------------
(* The search.                                                             *)

\* While it searches: what is visited was reached; entries of the heap are of
\* reached peers, none nearer than the peer is now, and none nearer than any
\* visited peer; and unless the goal was reached, a peer that was reached and
\* not visited is in the heap with its distance.
SearchInv ==
    call.pc = "search" =>
        /\ call.visited \subseteq call.reached
        /\ \A i \in call.pq : i[1] \in call.reached /\ call.dist[i[1]] <= i[2]
        /\ \A p \in call.visited, i \in call.pq : call.dist[p] <= i[2]
        /\ call.pq = {} \/ \A p \in call.reached \ call.visited : <<p, call.dist[p]>> \in call.pq

\* Before it: nothing was visited, and every distance is zero.
BuildInv ==
    call.pc \in {"idle", "build", "weigh"} =>
        call.visited = {} /\ \A p \in Peers : call.dist[p] = 0

RouterInv ==
    /\ RtTypeOK
    /\ call.pc = "trace" => call.path # <<>>
    /\ BuildInv
    /\ SearchInv

\* The peer that is visited has its distance in the heap entry, and none of the
\* peers visited before it is shortened.
LEMMA NearestFacts ==
    ASSUME RouterInv, call.pc = "search", NEW i \in Nearest, i[1] \notin call.visited
    PROVE  /\ i \in Peers \X Nat
           /\ i[2] = call.dist[i[1]]
           /\ i[1] \notin Shortened(i[1])
           /\ Shortened(i[1]) \cap call.visited = {}
  <1>0. /\ call \in Call /\ call.pq \in SUBSET (Peers \X Nat)
        /\ call.dist \in [Peers -> Nat] /\ call.weight \in [Peers \X Peers -> Nat]
        /\ call.visited \subseteq Peers /\ call.reached \subseteq Peers
    BY DEF RouterInv, RtTypeOK, Call
  <1>1. i \in call.pq /\ \A j \in call.pq : i[2] <= j[2]
    BY DEF Nearest
  <1>2. i \in Peers \X Nat /\ i[1] \in Peers /\ i[2] \in Nat
    BY <1>0, <1>1
  <1>3. i[1] \in call.reached /\ call.dist[i[1]] <= i[2]
    BY <1>1 DEF RouterInv, SearchInv
  <1>4. <<i[1], call.dist[i[1]]>> \in call.pq
    BY <1>1, <1>3 DEF RouterInv, SearchInv
  <1>5. i[2] <= call.dist[i[1]]
    BY <1>1, <1>4
  <1>6. i[2] = call.dist[i[1]]
    BY <1>0, <1>2, <1>3, <1>5
  <1>7. ASSUME NEW q \in call.visited \cup {i[1]}, q \in Shortened(i[1]) PROVE FALSE
    <2>1. q \in Peers /\ q \in call.reached
      BY <1>0, <1>2, <1>3 DEF RouterInv, SearchInv
    <2>2. call.dist[i[1]] + call.weight[<<i[1], q>>] < call.dist[q]
      BY <1>7, <2>1 DEF Shortened
    <2>3. call.dist[i[1]] \in Nat /\ call.weight[<<i[1], q>>] \in Nat /\ call.dist[q] \in Nat
      BY <1>0, <1>2, <2>1
    <2>4. call.dist[q] <= i[2]
      BY <1>1, <1>3, <1>7 DEF RouterInv, SearchInv
    <2> QED
      BY <1>6, <2>2, <2>3, <2>4
  <1> QED
    BY <1>2, <1>6, <1>7

LEMMA VisitKeeps ==
    ASSUME RouterInv, Visit
    PROVE  SearchInv' /\ \A p \in call.visited : /\ call'.dist[p] = call.dist[p]
                                                 /\ call'.prev[p] = call.prev[p]
  <1>s. call.pc = "search" /\ call \in Call
    BY DEF Visit, RouterInv, RtTypeOK
  <1>1. PICK i \in Nearest : i[1] \notin call.visited /\ call' = Visited(i)
    BY DEF Visit
  <1>2. /\ i \in Peers \X Nat
        /\ i[2] = call.dist[i[1]]
        /\ i[1] \notin Shortened(i[1])
        /\ Shortened(i[1]) \cap call.visited = {}
    BY <1>s, <1>1, NearestFacts
  <1> DEFINE p == i[1]
             n == Shortened(p)
  <1>n. n \subseteq Peers /\ p \in Peers /\ p \notin n /\ n \cap call.visited = {} /\ call.dist[p] = i[2]
    BY <1>2 DEF Shortened
  <1>w. \A q \in n : q \in call.reached => call.dist[p] + call.weight[<<p, q>>] < call.dist[q]
    BY DEF Shortened
  <1>3. /\ call'.visited = call.visited \cup {p}
        /\ call'.reached = call.reached \cup n
        /\ call'.dist = [q \in Peers |-> IF q \in n THEN call.dist[p] + call.weight[<<p, q>>]
                                                    ELSE call.dist[q]]
        /\ call'.prev = [q \in Peers |-> IF q \in n THEN p ELSE call.prev[q]]
        /\ call'.pq = (call.pq \ {i}) \cup {<<q, call'.dist[q]>> : q \in n}
    BY <1>s, <1>1, <1>2, VisitedType
  <1> HIDE DEF p, n
  <1>4. /\ call.pq \in SUBSET (Peers \X Nat)
        /\ call.dist \in [Peers -> Nat] /\ call.weight \in [Peers \X Peers -> Nat]
        /\ call.visited \subseteq Peers /\ call.reached \subseteq Peers
    BY <1>s DEF Call
  <1>i. i \in call.pq /\ p = i[1] /\ \A j \in call.pq : i[2] <= j[2]
    BY DEF Nearest, p
  <1>5. \A q \in Peers \ n : call'.dist[q] = call.dist[q] /\ call'.prev[q] = call.prev[q]
    BY <1>3
  <1>6. ASSUME NEW q \in n
        PROVE  /\ call'.dist[q] \in Nat /\ i[2] <= call'.dist[q]
               /\ q \in call.reached => call'.dist[q] <= call.dist[q]
    <2>1. call'.dist[q] = call.dist[p] + call.weight[<<p, q>>]
      BY <1>3, <1>n
    <2>2. call.dist[p] \in Nat /\ call.weight[<<p, q>>] \in Nat
      BY <1>4, <1>n
    <2>3. q \in call.reached => call.dist[p] + call.weight[<<p, q>>] < call.dist[q] /\ call.dist[q] \in Nat
      BY <1>w, <1>4, <1>n
    <2> QED
      BY <2>1, <2>2, <2>3, <1>n
  <1>7. /\ call.visited \subseteq call.reached
        /\ \A j \in call.pq : j[1] \in call.reached /\ call.dist[j[1]] <= j[2]
        /\ \A q \in call.visited, j \in call.pq : call.dist[q] <= j[2]
        /\ \A q \in call.reached \ call.visited : <<q, call.dist[q]>> \in call.pq
    BY <1>s, <1>i DEF RouterInv, SearchInv
  <1>v. \A q \in call'.visited : q \in Peers \ n /\ call'.dist[q] = call.dist[q] /\ call.dist[q] <= i[2]
    <2>1. i[2] \in Nat
      BY <1>2
    <2> QED
      BY <1>3, <1>4, <1>5, <1>n, <1>7, <1>i, <2>1
  <1>8. call'.visited \subseteq call'.reached
    BY <1>3, <1>7, <1>i
  <1>9. ASSUME NEW j \in call'.pq
        PROVE  /\ j[1] \in call'.reached /\ call'.dist[j[1]] <= j[2]
               /\ \A q \in call'.visited : call'.dist[q] <= j[2]
    <2>1. CASE j \in call.pq
      <3>1. j[1] \in call.reached /\ call.dist[j[1]] <= j[2] /\ j[2] \in Nat /\ i[2] <= j[2] /\ i[2] \in Nat
        BY <1>2, <1>4, <1>7, <1>i, <2>1
      <3>2. call'.dist[j[1]] <= j[2]
        <4>1. j[1] \in Peers /\ call.dist[j[1]] \in Nat
          BY <3>1, <1>4
        <4>2. CASE j[1] \in n
          BY <4>1, <4>2, <3>1, <1>6
        <4>3. CASE j[1] \notin n
          BY <4>1, <4>3, <3>1, <1>5
        <4> QED
          BY <4>2, <4>3
      <3>3. \A q \in call'.visited : call'.dist[q] <= j[2]
        <4> TAKE q \in call'.visited
        <4>1. q \in Peers /\ call'.dist[q] = call.dist[q] /\ call.dist[q] <= i[2] /\ call.dist[q] \in Nat
          BY <1>v, <1>4
        <4> QED
          BY <4>1, <3>1
      <3> QED
        BY <3>1, <3>2, <3>3, <1>3
    <2>2. CASE j \notin call.pq
      <3>1. PICK r \in n : j = <<r, call'.dist[r]>>
        BY <1>3, <2>2
      <3>2. j[1] = r /\ j[2] = call'.dist[r] /\ r \in call'.reached
        BY <3>1, <1>3
      <3>3. j[2] \in Nat /\ i[2] <= j[2] /\ i[2] \in Nat
        BY <3>2, <1>6, <1>2
      <3>4. \A q \in call'.visited : call'.dist[q] <= j[2]
        <4> TAKE q \in call'.visited
        <4>1. q \in Peers /\ call'.dist[q] = call.dist[q] /\ call.dist[q] <= i[2] /\ call.dist[q] \in Nat
          BY <1>v, <1>4
        <4> QED
          BY <4>1, <3>3
      <3> QED
        BY <3>2, <3>3, <3>4
    <2> QED
      BY <2>1, <2>2
  <1>10. ASSUME NEW q \in call'.reached \ call'.visited
         PROVE  <<q, call'.dist[q]>> \in call'.pq
    <2>1. CASE q \in n
      BY <2>1, <1>3
    <2>2. CASE q \notin n
      <3>1. q \in call.reached \ call.visited /\ q # p /\ q \in Peers
        BY <2>2, <1>3, <1>4
      <3>2. <<q, call.dist[q]>> \in call.pq /\ call'.dist[q] = call.dist[q]
        BY <2>2, <3>1, <1>7, <1>5
      <3>3. <<q, call.dist[q]>> # i
        BY <3>1, <1>i
      <3> QED
        BY <3>2, <3>3, <1>3
    <2> QED
      BY <2>1, <2>2
  <1>11. SearchInv'
    BY <1>8, <1>9, <1>10 DEF SearchInv
  <1>12. \A q \in call.visited : q \in Peers \ n
    BY <1>n, <1>4
  <1> QED
    BY <1>11, <1>12, <1>5

-----------------------------------------------------------------------------
(* The specification.                                                      *)

LEMMA InvInit == RtInit => RouterInv
  <1> SUFFICES ASSUME RtInit PROVE RouterInv
    OBVIOUS
  <1>1. /\ call = NoCall /\ call.pc = "idle" /\ call \in Call
        /\ call.visited = {} /\ \A p \in Peers : call.dist[p] = 0
    BY NoCallType DEF RtInit, NoCall
  <1>2. RtTypeOK
    BY <1>1 DEF RtInit, RtTypeOK
  <1> QED
    BY <1>1, <1>2 DEF RouterInv, BuildInv, SearchInv

\* Steps of the store and the sessions leave the call alone.
LEMMA StoreSteps ==
    ASSUME RtTypeOK, StoreStep
    PROVE  StoreOK' /\ seen' \in SUBSET (Peers \X Peers) /\ call' = call
  <1> USE RouterAssumption
  <1>0. StoreOK /\ seen \in SUBSET (Peers \X Peers)
    BY DEF RtTypeOK, StoreOK
  <1>c. ASSUME Changes PROVE changes' \in Nat /\ call' = call /\ seen' \in SUBSET (Peers \X Peers)
    <2>1. Recorded' \in SUBSET (Peers \X Peers)
      BY DEF Recorded
    <2> QED
      BY <1>0, <1>c, <2>1 DEF Changes, StoreOK
  <1>1. ASSUME NEW p \in Peers, Upsert(p) PROVE StoreOK' /\ Changes
    <2>1. PICK to \in SUBSET MayLink[p] : direct' = [direct EXCEPT ![p] = to]
      BY <1>1 DEF Upsert
    <2>2. to \in SUBSET Peers
      OBVIOUS
    <2>3. Changes
      BY <1>1 DEF Upsert
    <2> QED
      BY <1>0, <1>1, <1>c, <2>1, <2>2, <2>3 DEF Upsert, StoreOK
  <1>2. ASSUME NEW p \in Peers, DeletePeer(p) PROVE StoreOK' /\ Changes
    <2>1. Changes
      BY <1>2 DEF DeletePeer
    <2>2. {<<q, p>> : q \in listed \ {p}} \in SUBSET (Peers \X Peers)
      BY <1>0 DEF StoreOK
    <2> QED
      BY <1>0, <1>2, <1>c, <2>1, <2>2 DEF DeletePeer, StoreOK
  <1>3. ASSUME NEW p \in Peers, SessionChanges(p) PROVE StoreOK' /\ Changes
    <2>1. Changes
      BY <1>3 DEF SessionChanges
    <2>3. PICK c \in SessionCosts \cup {NoSession} : cost' = [cost EXCEPT ![p] = c]
      BY <1>3 DEF SessionChanges
    <2>4. c \in Nat \cup {NoSession}
      BY CostType
    <2> QED
      BY <1>0, <1>3, <1>c, <2>1, <2>3, <2>4 DEF SessionChanges, StoreOK
  <1>4. ASSUME NEW p \in Peers, NEW q \in Peers, AddConnectedDirect(p, q) PROVE StoreOK' /\ Changes
    BY <1>0, <1>4, <1>c DEF AddConnectedDirect, StoreOK
  <1>5. ASSUME NEW p \in Peers, NEW q \in Peers, RemoveConnectedDirect(p, q) PROVE StoreOK' /\ Changes
    BY <1>0, <1>5, <1>c DEF RemoveConnectedDirect, StoreOK
  <1>6. ASSUME NEW p \in Peers, NEW q \in Peers, Sweep(p, q)
        PROVE  StoreOK' /\ call' = call /\ seen' = seen
    BY <1>0, <1>6 DEF Sweep, StoreOK
  <1> QED
    BY <1>0, <1>1, <1>2, <1>3, <1>4, <1>5, <1>6, <1>c DEF StoreStep

\* Steps of the router leave store and sessions alone.
LEMMA RouterSteps ==
    ASSUME RtTypeOK, RouterStep \/ \E t \in Targets : SendBytesToPeer(t)
    PROVE  StoreOK' /\ seen' \in SUBSET (Peers \X Peers)
  <1>0. StoreOK /\ seen \in SUBSET (Peers \X Peers)
    BY DEF RtTypeOK, StoreOK
  <1>1. store' = store
    BY DEF RouterStep, SendBytesToPeer, ReadRecord, Weigh, Weighed, StartSearch, Skip, ReachGoal,
           Visit, EndSearch, TraceBack, Return
  <1>2. seen' \in {seen, Recorded, {}}
    BY DEF RouterStep, SendBytesToPeer, ReadRecord, Weigh, Weighed, StartSearch, Skip, ReachGoal,
           Visit, EndSearch, TraceBack, Return
  <1>3. Recorded \in SUBSET (Peers \X Peers)
    BY DEF Recorded
  <1> QED
    BY <1>0, <1>1, <1>2, <1>3 DEF store, StoreOK

\* Every step but a visit: the search goes on with a smaller heap, begins with
\* this node alone, or is over.
LEMMA OtherSteps ==
    ASSUME RouterInv, (RouterStep /\ ~Visit) \/ \E t \in Targets : SendBytesToPeer(t)
    PROVE  /\ call'.pc = "trace" => call'.path # <<>>
           /\ BuildInv'
           /\ SearchInv'
           /\ call.pc = "search" /\ call'.pc = "search"
                => call'.dist = call.dist /\ call'.prev = call.prev
  <1> USE RouterAssumption
  <1>0. call \in Call /\ (call.pc = "trace" => call.path # <<>>)
        /\ (call.pc \in {"idle", "build", "weigh"} =>
              call.visited = {} /\ \A p \in Peers : call.dist[p] = 0)
    BY DEF RouterInv, RtTypeOK, BuildInv
  <1>1. CASE \E t \in Targets : SendBytesToPeer(t)
    <2>1. /\ call.pc = "idle" /\ call'.pc = "build"
          /\ call'.visited = NoCall.visited /\ call'.dist = NoCall.dist
      BY <1>1 DEF SendBytesToPeer, NoCall
    <2>2. NoCall.visited = {} /\ \A p \in Peers : NoCall.dist[p] = 0
      BY DEF NoCall
    <2> QED
      BY <2>1, <2>2 DEF BuildInv, SearchInv
  <1>2. CASE \E p \in Peers : ReadRecord(p)
    <2>1. call.pc = "build" /\ call'.pc \in {"weigh", "build"}
          /\ call'.visited = call.visited /\ call'.dist = call.dist
      BY <1>0, <1>2 DEF ReadRecord, Call
    <2> QED
      BY <1>0, <2>1 DEF BuildInv, SearchInv
  <1>3. CASE \E p \in Peers : Weigh(p)
    <2>1. call.pc = "weigh" /\ call'.pc = "weigh"
          /\ call'.visited = call.visited /\ call'.dist = call.dist
      BY <1>0, <1>3 DEF Weigh, Call
    <2> QED
      BY <1>0, <2>1 DEF BuildInv, SearchInv
  <1>4. CASE Weighed
    <2>1. call.pc = "weigh" /\ call'.pc = "build"
          /\ call'.visited = call.visited /\ call'.dist = call.dist
      BY <1>0, <1>4 DEF Weighed, Call
    <2> QED
      BY <1>0, <2>1 DEF BuildInv, SearchInv
  <1>5. CASE StartSearch
    <2>1. /\ call.pc = "build" /\ call'.pc = "search" /\ call'.pq = {<<Local, 0>>}
          /\ call'.visited = {} /\ call'.reached = {Local} /\ call'.dist[Local] = 0
      BY <1>0, <1>5 DEF StartSearch, Call
    <2> QED
      BY <2>1 DEF BuildInv, SearchInv
  <1>6. CASE Skip
    <2>1. PICK i \in Nearest : i[1] \in call.visited /\ call' = [call EXCEPT !.pq = call.pq \ {i}]
      BY <1>6 DEF Skip
    <2>2. /\ call.pc = "search" /\ call'.pc = "search" /\ call'.pq = call.pq \ {i}
          /\ call'.visited = call.visited /\ call'.reached = call.reached
          /\ call'.dist = call.dist /\ call'.prev = call.prev
      BY <1>0, <1>6, <2>1 DEF Skip, Call
    <2>3. i \in call.pq
      BY DEF Nearest
    <2>4. \A p \in call.reached \ call.visited : <<p, call.dist[p]>> # i
      BY <2>1
    <2>5. call'.visited \subseteq call'.reached
          /\ (\A j \in call'.pq : j[1] \in call'.reached /\ call'.dist[j[1]] <= j[2])
          /\ (\A p \in call'.visited, j \in call'.pq : call'.dist[p] <= j[2])
      BY <2>2 DEF RouterInv, SearchInv
    <2>6. \A p \in call'.reached \ call'.visited : <<p, call'.dist[p]>> \in call'.pq
      BY <2>2, <2>3, <2>4 DEF RouterInv, SearchInv
    <2> QED
      BY <2>2, <2>5, <2>6 DEF BuildInv, SearchInv
  <1>7. CASE ReachGoal
    <2>1. PICK i \in Nearest : /\ i[1] \notin call.visited
                               /\ call' = [call EXCEPT !.pq = {}, !.visited = call.visited \cup {i[1]}]
      BY <1>7 DEF ReachGoal
    <2>2. /\ call.pc = "search" /\ call'.pc = "search" /\ call'.pq = {}
          /\ call'.visited = call.visited \cup {i[1]} /\ call'.reached = call.reached
          /\ call'.dist = call.dist /\ call'.prev = call.prev
      BY <1>0, <1>7, <2>1 DEF ReachGoal, Call
    <2>3. call.visited \cup {i[1]} \subseteq call.reached
      BY <2>2 DEF RouterInv, SearchInv, Nearest
    <2> QED
      BY <2>2, <2>3 DEF BuildInv, SearchInv
  <1>8. CASE EndSearch
    <2>1. call'.pc \in {"trace", "done"} /\ (call'.pc = "trace" => call'.path = <<call.goal>>)
      BY <1>0, <1>8 DEF EndSearch, Call
    <2> QED
      BY <1>0, <2>1 DEF BuildInv, SearchInv
  <1>9. CASE TraceBack
    <2> DEFINE longer == <<call.prev[Head(call.path)]>> \o call.path
    <2>1. CASE call' = [call EXCEPT !.pc = "done"]
      <3>1. call'.pc = "done"
        BY <1>0, <2>1 DEF Call
      <3> QED
        BY <3>1 DEF BuildInv, SearchInv
    <2>2. CASE call' # [call EXCEPT !.pc = "done"]
      <3>1. /\ call' = [call EXCEPT !.path = longer] /\ call.pc = "trace"
            /\ Head(call.path) # Local /\ call.prev[Head(call.path)] # NoPeer
        BY <1>9, <2>2 DEF TraceBack
      <3>2. call'.pc = "trace" /\ call'.path = longer
        BY <1>0, <3>1 DEF Call
      <3>3. call.path \in Seq(Peers) /\ Head(call.path) \in Peers
        BY <1>0, <3>1 DEF Call
      <3>4. longer # <<>>
        BY <3>3
      <3> QED
        BY <3>1, <3>2, <3>4 DEF BuildInv, SearchInv
    <2> QED
      BY <2>1, <2>2
  <1>10. CASE Return
    <2>1. call'.pc = "idle" /\ call'.visited = {} /\ \A p \in Peers : call'.dist[p] = 0
      BY <1>10 DEF Return, NoCall
    <2> QED
      BY <1>0, <2>1 DEF BuildInv, SearchInv
  <1> QED
    BY <1>1, <1>2, <1>3, <1>4, <1>5, <1>6, <1>7, <1>8, <1>9, <1>10 DEF RouterStep

\* A step keeps the invariant, and the distances of the visited peers.
LEMMA InvStep ==
    ASSUME RouterInv, [RtNext]_rtvars
    PROVE  /\ RouterInv'
           /\ call.pc = "search" /\ call'.pc = "search" =>
                \A p \in call.visited : /\ call'.dist[p] = call.dist[p]
                                        /\ call'.prev[p] = call.prev[p]
  <1>0. RtTypeOK /\ call \in Call /\ (call.pc = "trace" => call.path # <<>>)
    BY DEF RouterInv, RtTypeOK
  <1>1. CASE RouterStep \/ \E t \in Targets : SendBytesToPeer(t)
    <2>1. call' \in Call
      BY <1>0, <1>1, CallType
    <2>2. StoreOK' /\ seen' \in SUBSET (Peers \X Peers)
      BY <1>0, <1>1, RouterSteps
    <2>3. RtTypeOK'
      BY <2>1, <2>2 DEF StoreOK, RtTypeOK
    <2>4. CASE Visit
      <3>1. call'.pc = "search"
        <4>1. PICK i \in Nearest : call' = Visited(i)
          BY <2>4 DEF Visit
        <4>2. i \in Peers \X Nat
          BY <1>0 DEF Nearest, Call
        <4> QED
          BY <1>0, <2>4, <4>1, <4>2, VisitedType DEF Visit
      <3> QED
        BY <2>3, <2>4, <3>1, VisitKeeps DEF RouterInv, BuildInv
    <2>5. CASE ~Visit
      BY <1>1, <2>3, <2>5, OtherSteps DEF RouterInv
    <2> QED
      BY <2>4, <2>5
  <1>2. CASE StoreStep
    <2>1. StoreOK' /\ seen' \in SUBSET (Peers \X Peers) /\ call' = call
      BY <1>0, <1>2, StoreSteps
    <2>2. RtTypeOK'
      BY <1>0, <2>1 DEF StoreOK, RtTypeOK
    <2> QED
      BY <2>1, <2>2 DEF RouterInv, BuildInv, SearchInv
  <1>3. CASE UNCHANGED rtvars
    BY <1>3 DEF rtvars, store, RouterInv, RtTypeOK, BuildInv, SearchInv
  <1> QED
    BY <1>1, <1>2, <1>3 DEF RtNext

\* The router, for any graph and any changes of store and sessions during the
\* call: the variables have their types, the search keeps SearchInv.
THEOREM SearchIsSound == RtSpec => []RouterInv
  <1>1. RouterInv /\ [RtNext]_rtvars => RouterInv'
    BY InvStep
  <1> QED
    BY <1>1, InvInit, PTL DEF RtSpec

\* findPathDijkstra never takes back the distance or the predecessor of a peer
\* it has visited, although its heap keeps outdated entries.
THEOREM VisitedFinal == RtSpec => VisitedIsFinal
  <1>1. RouterInv /\ [RtNext]_rtvars =>
          [call.pc = "search" /\ call'.pc = "search" =>
             \A p \in call.visited : call'.dist[p] = call.dist[p] /\ call'.prev[p] = call.prev[p]]_rtvars
    BY InvStep
  <1> QED
    BY <1>1, SearchIsSound, PTL DEF RtSpec, VisitedIsFinal

-----------------------------------------------------------------------------
(* The answer.                                                             *)

Searched == call.pc \in {"search", "trace", "done"}

\* A session costs something, and so does a link.
WeightInv ==
    /\ \A p \in Peers : cost[p] \in SessionCosts \cup {NoSession}
    /\ \A e \in call.links : call.weight[e] >= 1

\* What the call has read was recorded while it ran, as is what it may read.
SeenInv ==
    call.pc # "idle" => Recorded \subseteq seen /\ call.links \subseteq seen

\* The distance of a peer is that of its predecessor, which was visited, and
\* the weight of the link between them.
TreeInv ==
    Searched =>
        /\ Local \in call.reached /\ call.dist[Local] = 0
        /\ call.visited \subseteq call.reached
        /\ \A q \in call.reached \ {Local} :
              /\ call.prev[q] \in call.visited
              /\ <<call.prev[q], q>> \in call.links
              /\ call.dist[q] = call.dist[call.prev[q]] + call.weight[<<call.prev[q], q>>]

\* No link of a visited peer is a shortcut, unless it is the goal, whose links
\* are not looked at.
EdgeInv ==
    Searched =>
        \A p \in call.visited \ {call.goal}, q \in Peers :
            <<p, q>> \in call.links =>
                /\ q \in call.reached
                /\ call.dist[q] <= call.dist[p] + call.weight[<<p, q>>]

\* Peers that were not visited are not nearer than the goal that was; if it
\* was not, they are in the heap, and there is none when the search is over.
CutInv ==
    /\ Searched /\ call.goal \in call.visited =>
          \A q \in call.reached \ call.visited : call.dist[call.goal] <= call.dist[q]
    /\ call.pc = "search" /\ call.goal \notin call.visited =>
          \A q \in call.reached \ call.visited : <<q, call.dist[q]>> \in call.pq
    /\ call.pc = "search" /\ call.goal \in call.visited => call.pq = {}
    /\ call.pc \in {"trace", "done"} /\ call.goal \notin call.visited =>
          call.visited = call.reached

\* The path follows the predecessors from the goal.
PathInv ==
    /\ call.pc # "idle" => call.goal \in Peers
    /\ call.pc \in {"idle", "build", "weigh", "search"} => call.path = <<>>
    /\ call.pc = "trace" => call.path # <<>>
    /\ call.pc = "done" => (call.path = <<>> <=> call.goal \notin call.reached)
    /\ call.path # <<>> =>
          /\ call.path[Len(call.path)] = call.goal
          /\ \A i \in 1..Len(call.path) : call.path[i] \in call.reached
          /\ \A i \in 1..(Len(call.path) - 1) :
                call.path[i + 1] # Local /\ call.path[i] = call.prev[call.path[i + 1]]
          /\ call.pc = "done" => call.path[1] = Local

AnswerInv == RouterInv /\ WeightInv /\ SeenInv /\ TreeInv /\ EdgeInv /\ CutInv /\ PathInv

LEMMA CostPositive == \A c \in SessionCosts : c \in Nat /\ c >= 1
  <1>1. \A k : linkBaseCost(k) \in Nat /\ linkBaseCost(k) >= 1
    BY DEF linkBaseCost
  <1> SUFFICES ASSUME NEW c \in SessionCosts PROVE c \in Nat /\ c >= 1
    OBVIOUS
  <1>2. PICK k \in Kinds, x \in Extras : c = linkBaseCost(k) + x
    BY DEF SessionCosts
  <1>3. linkBaseCost(k) \in Nat /\ linkBaseCost(k) >= 1 /\ x \in Nat
    BY <1>1, RouterAssumption
  <1> QED
    BY <1>2, <1>3

LEMMA AnswerInit == RtInit => AnswerInv
  <1> SUFFICES ASSUME RtInit PROVE AnswerInv
    OBVIOUS
  <1>1. call.pc = "idle" /\ call.links = {} /\ call.path = <<>>
    BY DEF RtInit, NoCall
  <1>2. \A p \in Peers : cost[p] = NoSession
    BY DEF RtInit
  <1> QED
    BY <1>1, <1>2, InvInit
    DEF AnswerInv, WeightInv, SeenInv, TreeInv, EdgeInv, CutInv, PathInv, Searched

\* Whatever the store records during the call is seen.
LEMMA StoreAnswer ==
    ASSUME RtTypeOK, WeightInv, SeenInv, StoreStep
    PROVE  WeightInv' /\ SeenInv'
  <1> USE RouterAssumption
  <1>0. /\ direct \in [Peers -> SUBSET Peers] /\ cost \in [Peers -> Nat \cup {NoSession}]
        /\ \A p \in Peers : cost[p] \in SessionCosts \cup {NoSession}
    BY DEF RtTypeOK, WeightInv
  <1>1. call' = call
    BY StoreSteps
  <1>2. ASSUME cost' = cost PROVE WeightInv'
    BY <1>1, <1>2 DEF WeightInv
  <1>3. ASSUME Changes PROVE SeenInv'
    BY <1>1, <1>3 DEF Changes, SeenInv
  <1>4. ASSUME NEW p \in Peers, Upsert(p) \/ DeletePeer(p) PROVE WeightInv' /\ SeenInv'
    <2>1. Changes /\ cost' = cost
      BY <1>4 DEF Upsert, DeletePeer
    <2> QED
      BY <1>2, <1>3, <2>1
  <1>5. ASSUME NEW p \in Peers, SessionChanges(p) PROVE WeightInv' /\ SeenInv'
    <2>1. PICK c \in SessionCosts \cup {NoSession} : cost' = [cost EXCEPT ![p] = c]
      BY <1>5 DEF SessionChanges
    <2>2. \A q \in Peers : cost'[q] \in SessionCosts \cup {NoSession}
      BY <1>0, <2>1
    <2>3. Changes
      BY <1>5 DEF SessionChanges
    <2> QED
      BY <1>1, <1>3, <2>2, <2>3 DEF WeightInv
  <1>6. ASSUME NEW p \in Peers, NEW q \in Peers,
               AddConnectedDirect(p, q) \/ RemoveConnectedDirect(p, q)
        PROVE  WeightInv' /\ SeenInv'
    <2>1. Changes /\ cost' = cost
      BY <1>6 DEF AddConnectedDirect, RemoveConnectedDirect
    <2> QED
      BY <1>2, <1>3, <2>1
  <1>7. ASSUME NEW p \in Peers, NEW q \in Peers, Sweep(p, q) PROVE WeightInv' /\ SeenInv'
    <2>1. /\ cost' = cost /\ known' = known /\ seen' = seen
          /\ direct' = [direct EXCEPT ![p] = direct[p] \ {q}]
      BY <1>7 DEF Sweep
    <2>2. \A r \in Peers : direct'[r] \subseteq direct[r]
      BY <1>0, <2>1
    <2>3. Recorded' \subseteq Recorded
      BY <2>1, <2>2 DEF Recorded
    <2> QED
      BY <1>1, <1>2, <2>1, <2>3 DEF SeenInv
  <1> QED
    BY <1>4, <1>5, <1>6, <1>7 DEF StoreStep

\* The call begins, and the graph is built: no path yet, and what is read is
\* recorded now.
LEMMA BuildAnswer ==
    ASSUME AnswerInv,
           \/ \E t \in Targets : SendBytesToPeer(t)
           \/ \E p \in Peers : ReadRecord(p) \/ Weigh(p)
           \/ Weighed
    PROVE  WeightInv' /\ SeenInv' /\ ~Searched' /\ PathInv'
  <1> USE RouterAssumption
  <1>0. /\ call \in Call /\ WeightInv /\ SeenInv /\ PathInv
        /\ direct \in [Peers -> SUBSET Peers] /\ known \subseteq Peers
    BY DEF AnswerInv, RouterInv, RtTypeOK
  <1>1. ASSUME NEW t \in Targets, SendBytesToPeer(t)
        PROVE  WeightInv' /\ SeenInv' /\ ~Searched' /\ PathInv'
    <2>1. /\ call'.pc = "build" /\ call'.links = {} /\ call'.path = <<>> /\ call'.goal = t
          /\ seen' = Recorded /\ store' = store
      BY <1>1 DEF SendBytesToPeer, NoCall
    <2>2. Recorded' = Recorded /\ cost' = cost
      BY <2>1 DEF Recorded, store
    <2> QED
      BY <1>0, <2>1, <2>2 DEF WeightInv, SeenInv, Searched, PathInv
  <1>2. ASSUME NEW p \in Peers, ReadRecord(p)
        PROVE  WeightInv' /\ SeenInv' /\ ~Searched' /\ PathInv'
    <2> DEFINE out == IF p \in known THEN {<<p, q>> : q \in direct[p]} ELSE {}
    <2>0. call.weight \in [Peers \X Peers -> Nat] /\ call.links \in SUBSET (Peers \X Peers)
      BY <1>0 DEF Call
    <2>1. /\ call.pc = "build" /\ call'.pc \in {"build", "weigh"}
          /\ call'.links = call.links \cup out /\ call'.path = call.path /\ call'.goal = call.goal
          /\ call'.weight = [e \in Peers \X Peers |-> IF e \in out THEN 200 ELSE call.weight[e]]
          /\ seen' = seen /\ store' = store
      BY <1>0, <1>2 DEF ReadRecord, Call
    <2>2. Recorded' = Recorded /\ cost' = cost
      BY <2>1 DEF Recorded, store
    <2>3. out \subseteq Recorded
      BY <1>0 DEF Recorded
    <2>4. \A e \in call'.links : call'.weight[e] >= 1
      <3> HIDE DEF out
      <3> SUFFICES ASSUME NEW e \in call'.links PROVE call'.weight[e] >= 1
        OBVIOUS
      <3>1. e \in Peers \X Peers
        BY <2>0, <2>1, <2>3 DEF Recorded
      <3>2. CASE e \in out
        BY <3>1, <3>2, <2>1
      <3>3. CASE e \notin out
        BY <3>1, <3>3, <2>1, <1>0 DEF WeightInv
      <3> QED
        BY <3>2, <3>3
    <2> QED
      BY <1>0, <2>1, <2>2, <2>3, <2>4 DEF WeightInv, SeenInv, Searched, PathInv
  <1>3. ASSUME NEW q \in Peers, Weigh(q)
        PROVE  WeightInv' /\ SeenInv' /\ ~Searched' /\ PathInv'
    <2>0. call.weight \in [Peers \X Peers -> Nat] /\ call.links \in SUBSET (Peers \X Peers)
      BY <1>0 DEF Call
    <2>1. /\ call.pc = "weigh" /\ call'.pc = "weigh"
          /\ call'.links = call.links /\ call'.path = call.path /\ call'.goal = call.goal
          /\ call'.weight = [call.weight EXCEPT ![<<Local, q>>] = edgeWeight(Local, q)]
          /\ seen' = seen /\ store' = store
      BY <1>0, <1>3 DEF Weigh, Call
    <2>2. Recorded' = Recorded /\ cost' = cost
      BY <2>1 DEF Recorded, store
    <2>3. edgeWeight(Local, q) >= 1
      BY <1>0, CostPositive DEF edgeWeight, WeightInv
    <2>4. \A e \in call'.links : call'.weight[e] >= 1
      BY <1>0, <2>0, <2>1, <2>3 DEF WeightInv
    <2> QED
      BY <1>0, <2>1, <2>2, <2>4 DEF WeightInv, SeenInv, Searched, PathInv
  <1>4. ASSUME Weighed PROVE WeightInv' /\ SeenInv' /\ ~Searched' /\ PathInv'
    <2>1. /\ call.pc = "weigh" /\ call'.pc = "build" /\ call'.weight = call.weight
          /\ call'.links = call.links /\ call'.path = call.path /\ call'.goal = call.goal
          /\ seen' = seen /\ store' = store
      BY <1>0, <1>4 DEF Weighed, Call
    <2>2. Recorded' = Recorded /\ cost' = cost
      BY <2>1 DEF Recorded, store
    <2> QED
      BY <1>0, <2>1, <2>2 DEF WeightInv, SeenInv, Searched, PathInv
  <1> QED
    BY <1>1, <1>2, <1>3, <1>4

\* The search begins at this node.
LEMMA StartAnswer ==
    ASSUME AnswerInv, StartSearch
    PROVE  WeightInv' /\ SeenInv' /\ TreeInv' /\ EdgeInv' /\ CutInv' /\ PathInv'
  <1>0. /\ call \in Call /\ WeightInv /\ SeenInv /\ PathInv /\ Local \in Peers
        /\ call.pc \in {"idle", "build", "weigh"} =>
              call.visited = {} /\ \A p \in Peers : call.dist[p] = 0
    BY RouterAssumption DEF AnswerInv, RouterInv, RtTypeOK, BuildInv
  <1>1. /\ call.pc = "build" /\ call'.pc = "search" /\ call'.pq = {<<Local, 0>>}
        /\ call'.visited = {} /\ call'.reached = {Local} /\ call'.dist[Local] = 0
        /\ call'.links = call.links /\ call'.weight = call.weight
        /\ call'.path = call.path /\ call'.goal = call.goal
        /\ seen' = seen /\ store' = store
    BY <1>0 DEF StartSearch, Call
  <1>2. Recorded' = Recorded /\ cost' = cost
    BY <1>1 DEF Recorded, store
  <1> QED
    BY <1>0, <1>1, <1>2 DEF WeightInv, SeenInv, TreeInv, EdgeInv, CutInv, PathInv, Searched

\* Steps of the search that change neither distances nor predecessors.
LEMMA SkipAnswer ==
    ASSUME AnswerInv, Skip
    PROVE  WeightInv' /\ SeenInv' /\ TreeInv' /\ EdgeInv' /\ CutInv' /\ PathInv'
  <1>0. /\ call \in Call /\ WeightInv /\ SeenInv /\ PathInv /\ TreeInv /\ EdgeInv /\ CutInv
    BY DEF AnswerInv, RouterInv, RtTypeOK
  <1>1. PICK i \in Nearest : i[1] \in call.visited /\ call' = [call EXCEPT !.pq = call.pq \ {i}]
    BY DEF Skip
  <1>2. /\ call.pc = "search" /\ call'.pc = "search" /\ call'.pq = call.pq \ {i}
        /\ call'.visited = call.visited /\ call'.reached = call.reached
        /\ call'.dist = call.dist /\ call'.prev = call.prev
        /\ call'.links = call.links /\ call'.weight = call.weight
        /\ call'.path = call.path /\ call'.goal = call.goal
        /\ seen' = seen /\ store' = store
    BY <1>0, <1>1 DEF Skip, Call
  <1>3. Recorded' = Recorded /\ cost' = cost
    BY <1>2 DEF Recorded, store
  <1>4. \A q \in call.reached \ call.visited : <<q, call.dist[q]>> # i
    BY <1>1
  <1>5. CutInv'
    BY <1>0, <1>2, <1>4 DEF CutInv, Searched
  <1>6. TreeInv' /\ EdgeInv'
    BY <1>0, <1>2 DEF TreeInv, EdgeInv, Searched
  <1>7. WeightInv' /\ SeenInv' /\ PathInv'
    BY <1>0, <1>2, <1>3 DEF WeightInv, SeenInv, PathInv
  <1> QED
    BY <1>5, <1>6, <1>7

\* The goal is the nearest of what is left.
LEMMA GoalAnswer ==
    ASSUME AnswerInv, ReachGoal
    PROVE  WeightInv' /\ SeenInv' /\ TreeInv' /\ EdgeInv' /\ CutInv' /\ PathInv'
  <1>0. /\ call \in Call /\ WeightInv /\ SeenInv /\ PathInv /\ TreeInv /\ EdgeInv /\ CutInv
        /\ RouterInv /\ SearchInv
    BY DEF AnswerInv, RouterInv, RtTypeOK
  <1>1. PICK i \in Nearest : /\ i[1] \notin call.visited /\ i[1] = call.goal
                             /\ call' = [call EXCEPT !.pq = {}, !.visited = call.visited \cup {i[1]}]
    BY DEF ReachGoal
  <1> DEFINE g == call.goal
  <1>2. /\ call.pc = "search" /\ call'.pc = "search" /\ call'.pq = {}
        /\ call'.visited = call.visited \cup {g} /\ call'.reached = call.reached
        /\ call'.dist = call.dist /\ call'.prev = call.prev
        /\ call'.links = call.links /\ call'.weight = call.weight
        /\ call'.path = call.path /\ call'.goal = g
        /\ seen' = seen /\ store' = store
    BY <1>0, <1>1 DEF ReachGoal, Call
  <1>3. Recorded' = Recorded /\ cost' = cost
    BY <1>2 DEF Recorded, store
  <1>4. /\ i \in call.pq /\ (\A j \in call.pq : i[2] <= j[2])
        /\ g \in call.reached /\ i[2] = call.dist[g] /\ g \notin call.visited
    BY <1>0, <1>1, <1>2, NearestFacts DEF Nearest, SearchInv
  <1>5. \A q \in call.reached \ call.visited : call.dist[g] <= call.dist[q]
    BY <1>0, <1>2, <1>4 DEF CutInv
  <1>6. CutInv'
    BY <1>2, <1>5 DEF CutInv, Searched
  <1>7. TreeInv'
    BY <1>0, <1>2, <1>4 DEF TreeInv, Searched
  <1>8. EdgeInv'
    BY <1>0, <1>2 DEF EdgeInv, Searched
  <1>9. WeightInv' /\ SeenInv' /\ PathInv'
    BY <1>0, <1>2, <1>3 DEF WeightInv, SeenInv, PathInv
  <1> QED
    BY <1>6, <1>7, <1>8, <1>9

\* What a visit does.
LEMMA VisitStep ==
    ASSUME RouterInv, Visit
    PROVE  \E i \in call.pq, n \in SUBSET Peers :
              /\ i[1] \in Peers /\ i[1] \in call.reached
              /\ i[1] \notin call.visited /\ i[1] # call.goal /\ i[1] \notin n
              /\ n \cap call.visited = {}
              /\ \A q \in Peers : q \in n <=>
                    /\ <<i[1], q>> \in call.links
                    /\ q \notin call.reached
                       \/ call.dist[i[1]] + call.weight[<<i[1], q>>] < call.dist[q]
              /\ call'.visited = call.visited \cup {i[1]}
              /\ call'.reached = call.reached \cup n
              /\ \A q \in n : /\ call'.dist[q] = call.dist[i[1]] + call.weight[<<i[1], q>>]
                              /\ call'.prev[q] = i[1]
              /\ \A q \in Peers \ n : call'.dist[q] = call.dist[q] /\ call'.prev[q] = call.prev[q]
              /\ call'.pq = (call.pq \ {i}) \cup {<<q, call'.dist[q]>> : q \in n}
              /\ call'.links = call.links /\ call'.weight = call.weight
              /\ call'.path = call.path /\ call'.goal = call.goal /\ call'.pc = "search"
  <1>s. call.pc = "search" /\ call \in Call /\ SearchInv
    BY DEF RouterInv, RtTypeOK, Visit
  <1>1. PICK i \in Nearest : i[1] \notin call.visited /\ i[1] # call.goal /\ call' = Visited(i)
    BY DEF Visit
  <1>2. /\ i \in Peers \X Nat /\ i \in call.pq /\ i[1] \in call.reached
        /\ i[1] \notin Shortened(i[1])
        /\ Shortened(i[1]) \cap call.visited = {}
    BY <1>s, <1>1, NearestFacts DEF Nearest, SearchInv
  <1>3. PICK n \in SUBSET Peers : n = Shortened(i[1])
    BY DEF Shortened
  <1>4. /\ call'.visited = call.visited \cup {i[1]}
        /\ call'.reached = call.reached \cup n
        /\ call'.dist = [q \in Peers |-> IF q \in n THEN call.dist[i[1]] + call.weight[<<i[1], q>>]
                                                    ELSE call.dist[q]]
        /\ call'.prev = [q \in Peers |-> IF q \in n THEN i[1] ELSE call.prev[q]]
        /\ call'.pq = (call.pq \ {i}) \cup {<<q, call'.dist[q]>> : q \in n}
        /\ call'.pc = "search"
    BY <1>s, <1>1, <1>2, <1>3, VisitedType
  <1>5. /\ call'.links = call.links /\ call'.weight = call.weight
        /\ call'.path = call.path /\ call'.goal = call.goal
    BY <1>s, <1>1 DEF Visited, Call
  <1>6. \A q \in Peers : q \in n <=>
                    /\ <<i[1], q>> \in call.links
                    /\ q \notin call.reached
                       \/ call.dist[i[1]] + call.weight[<<i[1], q>>] < call.dist[q]
    BY <1>3 DEF Shortened
  <1>7. /\ \A q \in n : /\ call'.dist[q] = call.dist[i[1]] + call.weight[<<i[1], q>>]
                        /\ call'.prev[q] = i[1]
        /\ \A q \in Peers \ n : call'.dist[q] = call.dist[q] /\ call'.prev[q] = call.prev[q]
    BY <1>4
  <1> QED
    BY <1>1, <1>2, <1>3, <1>4, <1>5, <1>6, <1>7

\* A visit hangs the peers it shortens under the one it visits, and leaves none
\* of its links a shortcut.
LEMMA VisitAnswer ==
    ASSUME AnswerInv, Visit
    PROVE  WeightInv' /\ SeenInv' /\ TreeInv' /\ EdgeInv' /\ CutInv' /\ PathInv'
  <1>0. /\ call \in Call /\ WeightInv /\ SeenInv /\ PathInv /\ TreeInv /\ EdgeInv /\ CutInv
        /\ RouterInv /\ SearchInv /\ Local \in Peers
    BY RouterAssumption DEF AnswerInv, RouterInv, RtTypeOK
  <1>p. call.pc = "search" /\ seen' = seen /\ store' = store
    BY DEF Visit
  <1>r. Recorded' = Recorded /\ cost' = cost
    BY <1>p DEF Recorded, store
  <1>1. PICK i \in call.pq, n \in SUBSET Peers :
              /\ i[1] \in Peers /\ i[1] \in call.reached
              /\ i[1] \notin call.visited /\ i[1] # call.goal /\ i[1] \notin n
              /\ n \cap call.visited = {}
              /\ \A q \in Peers : q \in n <=>
                    /\ <<i[1], q>> \in call.links
                    /\ q \notin call.reached
                       \/ call.dist[i[1]] + call.weight[<<i[1], q>>] < call.dist[q]
              /\ call'.visited = call.visited \cup {i[1]}
              /\ call'.reached = call.reached \cup n
              /\ \A q \in n : /\ call'.dist[q] = call.dist[i[1]] + call.weight[<<i[1], q>>]
                              /\ call'.prev[q] = i[1]
              /\ \A q \in Peers \ n : call'.dist[q] = call.dist[q] /\ call'.prev[q] = call.prev[q]
              /\ call'.pq = (call.pq \ {i}) \cup {<<q, call'.dist[q]>> : q \in n}
              /\ call'.links = call.links /\ call'.weight = call.weight
              /\ call'.path = call.path /\ call'.goal = call.goal /\ call'.pc = "search"
    BY <1>0, VisitStep
  <1>2. PICK p \in Peers : p = i[1]
    BY <1>1
  <1>3. /\ call.dist \in [Peers -> Nat] /\ call.weight \in [Peers \X Peers -> Nat]
        /\ call.visited \subseteq Peers /\ call.reached \subseteq Peers
        /\ call.links \subseteq Peers \X Peers
    BY <1>0 DEF Call
  <1>4. /\ Local \in call.reached /\ call.dist[Local] = 0
        /\ call.visited \subseteq call.reached
        /\ \A q \in call.reached \ {Local} :
              /\ call.prev[q] \in call.visited
              /\ <<call.prev[q], q>> \in call.links
              /\ call.dist[q] = call.dist[call.prev[q]] + call.weight[<<call.prev[q], q>>]
    BY <1>0, <1>p DEF TreeInv, Searched
  <1>5. \A q \in call.visited \cup {p} : q \in Peers \ n /\ call'.dist[q] = call.dist[q]
    BY <1>1, <1>2, <1>3
  <1>6. Local \notin n /\ call'.dist[Local] = 0
    <2>1. ~(call.dist[p] + call.weight[<<p, Local>>] < 0)
      <3>1. call.dist[p] \in Nat /\ call.weight[<<p, Local>>] \in Nat
        BY <1>0, <1>3
      <3> QED
        BY <3>1
    <2> QED
      BY <1>0, <1>1, <1>2, <1>4, <2>1
  <1>7. TreeInv'
    <2> SUFFICES ASSUME NEW q \in call'.reached \ {Local}
                 PROVE  /\ call'.prev[q] \in call'.visited
                        /\ <<call'.prev[q], q>> \in call'.links
                        /\ call'.dist[q] = call'.dist[call'.prev[q]] + call'.weight[<<call'.prev[q], q>>]
      BY <1>1, <1>4, <1>6 DEF TreeInv
    <2>1. CASE q \in n
      <3>1. call'.prev[q] = p /\ call'.dist[q] = call.dist[p] + call.weight[<<p, q>>]
        BY <1>1, <1>2, <2>1
      <3>2. p \in call'.visited /\ <<p, q>> \in call'.links /\ call'.weight = call.weight
        BY <1>1, <1>2, <2>1
      <3>3. call'.dist[p] = call.dist[p]
        BY <1>5
      <3> QED
        BY <3>1, <3>2, <3>3
    <2>2. CASE q \notin n
      <3>1. q \in call.reached \ {Local} /\ q \in Peers \ n
        BY <1>1, <1>3, <2>2
      <3>2. call'.dist[q] = call.dist[q] /\ call'.prev[q] = call.prev[q] /\ call.prev[q] \in call.visited
        BY <1>1, <1>4, <3>1
      <3>3. call'.dist[call.prev[q]] = call.dist[call.prev[q]]
        BY <1>5, <3>2
      <3> QED
        BY <1>1, <1>4, <3>1, <3>2, <3>3
    <2> QED
      BY <2>1, <2>2
  <1>8. EdgeInv'
    <2> SUFFICES ASSUME NEW r \in call'.visited \ {call'.goal}, NEW q \in Peers,
                        <<r, q>> \in call'.links
                 PROVE  /\ q \in call'.reached
                        /\ call'.dist[q] <= call'.dist[r] + call'.weight[<<r, q>>]
      BY DEF EdgeInv
    <2>0. /\ r \in call.visited \cup {p} /\ r # call.goal /\ <<r, q>> \in call.links
          /\ call'.dist[r] = call.dist[r] /\ call'.weight = call.weight /\ r \in Peers
      BY <1>1, <1>2, <1>5
    <2>t. call.dist[r] \in Nat /\ call.weight[<<r, q>>] \in Nat /\ call.dist[q] \in Nat
          /\ call.dist[p] \in Nat /\ call.weight[<<p, q>>] \in Nat
      BY <1>3, <2>0
    <2>1. CASE r = p
      <3>1. CASE q \in n
        BY <1>1, <1>2, <2>0, <2>1, <2>t, <3>1
      <3>2. CASE q \notin n
        <4>1. q \in call.reached /\ ~(call.dist[p] + call.weight[<<p, q>>] < call.dist[q])
          BY <1>1, <1>2, <2>0, <2>1, <3>2
        <4>2. call'.dist[q] = call.dist[q] /\ q \in call'.reached
          BY <1>1, <3>2, <4>1
        <4> QED
          BY <2>0, <2>1, <2>t, <4>1, <4>2
      <3> QED
        BY <3>1, <3>2
    <2>2. CASE r # p
      <3>1. q \in call.reached /\ call.dist[q] <= call.dist[r] + call.weight[<<r, q>>]
        BY <1>0, <1>p, <2>0, <2>2 DEF EdgeInv, Searched
      <3>2. q \in call'.reached
        BY <1>1, <3>1
      <3>3. CASE q \in n
        <4>1. /\ call.dist[p] + call.weight[<<p, q>>] < call.dist[q]
              /\ call'.dist[q] = call.dist[p] + call.weight[<<p, q>>]
          BY <1>1, <1>2, <3>1, <3>3
        <4> QED
          BY <2>0, <2>t, <3>1, <3>2, <4>1
      <3>4. CASE q \notin n
        BY <1>1, <2>0, <3>1, <3>2, <3>4
      <3> QED
        BY <3>3, <3>4
    <2> QED
      BY <2>1, <2>2
  <1>9. call.goal \notin call.visited
    BY <1>0, <1>p DEF CutInv
  <1>10. CutInv'
    <2> SUFFICES ASSUME NEW q \in call'.reached \ call'.visited
                 PROVE  <<q, call'.dist[q]>> \in call'.pq
      BY <1>1, <1>9 DEF CutInv
    <2>1. CASE q \in n
      BY <1>1, <2>1
    <2>2. CASE q \notin n
      <3>1. q \in call.reached \ call.visited /\ q # p /\ q \in Peers
        BY <1>1, <1>2, <1>3, <2>2
      <3>2. <<q, call.dist[q]>> \in call.pq /\ call'.dist[q] = call.dist[q]
        BY <1>0, <1>1, <1>p, <1>9, <2>2, <3>1 DEF CutInv
      <3>3. <<q, call.dist[q]>> # i
        BY <1>2, <3>1
      <3> QED
        BY <1>1, <3>2, <3>3
    <2> QED
      BY <2>1, <2>2
  <1>11. WeightInv' /\ SeenInv'
    BY <1>0, <1>1, <1>p, <1>r DEF WeightInv, SeenInv
  <1>12. PathInv'
    <2>1. call.path = <<>> /\ call.goal \in Peers
      BY <1>0, <1>p DEF PathInv
    <2> QED
      BY <1>1, <2>1 DEF PathInv
  <1> QED
    BY <1>7, <1>8, <1>10, <1>11, <1>12

\* The path begins with the goal.
LEMMA EndAnswer ==
    ASSUME AnswerInv, EndSearch
    PROVE  WeightInv' /\ SeenInv' /\ TreeInv' /\ EdgeInv' /\ CutInv' /\ PathInv'
  <1>0. /\ call \in Call /\ WeightInv /\ SeenInv /\ PathInv /\ TreeInv /\ EdgeInv /\ CutInv
    BY DEF AnswerInv, RouterInv, RtTypeOK
  <1>1. /\ call.pc = "search" /\ call.pq = {} /\ seen' = seen /\ store' = store
        /\ call'.pc = IF call.goal \in call.reached THEN "trace" ELSE "done"
        /\ call'.path = IF call.goal \in call.reached THEN <<call.goal>> ELSE call.path
        /\ call'.visited = call.visited /\ call'.reached = call.reached
        /\ call'.dist = call.dist /\ call'.prev = call.prev
        /\ call'.links = call.links /\ call'.weight = call.weight /\ call'.goal = call.goal
    BY <1>0 DEF EndSearch, Call
  <1>2. Recorded' = Recorded /\ cost' = cost
    BY <1>1 DEF Recorded, store
  <1>3. TreeInv' /\ EdgeInv'
    BY <1>0, <1>1 DEF TreeInv, EdgeInv, Searched
  <1>4. CutInv'
    <2>1. call.goal \notin call.visited => call.visited = call.reached
      BY <1>0, <1>1 DEF CutInv, TreeInv, Searched
    <2> QED
      BY <1>0, <1>1, <2>1 DEF CutInv, Searched
  <1>5. WeightInv' /\ SeenInv'
    BY <1>0, <1>1, <1>2 DEF WeightInv, SeenInv
  <1>6. PathInv'
    <2>1. call.path = <<>> /\ call.goal \in Peers
      BY <1>0, <1>1 DEF PathInv
    <2>2. CASE call.goal \in call.reached
      <3>1. call'.path = <<call.goal>> /\ call'.pc = "trace" /\ call'.path # <<>>
            /\ Len(call'.path) = 1 /\ call'.path[1] = call.goal
        BY <1>1, <2>2
      <3>2. 1..Len(call'.path) = {1} /\ 1..(Len(call'.path) - 1) = {}
        BY <3>1
      <3> QED
        BY <1>1, <2>1, <2>2, <3>1, <3>2 DEF PathInv
    <2>3. CASE call.goal \notin call.reached
      BY <1>1, <2>1, <2>3 DEF PathInv
    <2> QED
      BY <2>2, <2>3
  <1> QED
    BY <1>3, <1>4, <1>5, <1>6

\* It grows by the predecessor of its first peer, until this node is there.
LEMMA TraceAnswer ==
    ASSUME AnswerInv, TraceBack
    PROVE  WeightInv' /\ SeenInv' /\ TreeInv' /\ EdgeInv' /\ CutInv' /\ PathInv'
  <1>0. /\ call \in Call /\ WeightInv /\ SeenInv /\ PathInv /\ TreeInv /\ EdgeInv /\ CutInv
        /\ NoPeer \notin Peers
    BY RouterAssumption DEF AnswerInv, RouterInv, RtTypeOK
  <1>p. call.pc = "trace" /\ seen' = seen /\ store' = store
    BY DEF TraceBack
  <1>r. Recorded' = Recorded /\ cost' = cost
    BY <1>p DEF Recorded, store
  <1>1. PICK old \in Seq(Peers) : old = call.path /\ old # <<>>
    BY <1>0, <1>p DEF Call, PathInv
  <1>2. PICK at \in Peers : at = Head(old) /\ at = old[1] /\ Len(old) \in Nat \ {0}
    BY <1>1
  <1>3. /\ call'.visited = call.visited /\ call'.reached = call.reached
        /\ call'.dist = call.dist /\ call'.prev = call.prev
        /\ call'.links = call.links /\ call'.weight = call.weight /\ call'.goal = call.goal
        /\ IF at = Local \/ call.prev[at] = NoPeer
             THEN call'.pc = "done" /\ call'.path = old
             ELSE call'.pc = "trace" /\ call'.path = <<call.prev[at]>> \o old
    BY <1>0, <1>1, <1>2, <1>p DEF TraceBack, Call
  <1>4. TreeInv' /\ EdgeInv' /\ CutInv'
    BY <1>0, <1>p, <1>3 DEF TreeInv, EdgeInv, CutInv, Searched
  <1>5. WeightInv' /\ SeenInv'
    BY <1>0, <1>p, <1>r, <1>3 DEF WeightInv, SeenInv
  <1>6. /\ call.goal \in Peers /\ old[Len(old)] = call.goal
        /\ \A k \in 1..Len(old) : old[k] \in call.reached
        /\ \A k \in 1..(Len(old) - 1) : old[k + 1] # Local /\ old[k] = call.prev[old[k + 1]]
    BY <1>0, <1>p, <1>1 DEF PathInv
  <1>7. at \in call.reached /\ call.goal \in call.reached
    BY <1>2, <1>6
  <1>8. at # Local => /\ call.prev[at] \in call.visited /\ call.prev[at] \in call.reached
                      /\ call.prev[at] \in Peers /\ call.prev[at] # NoPeer
    <2>1. call.visited \subseteq call.reached /\ call.visited \subseteq Peers
          /\ \A q \in call.reached \ {Local} : call.prev[q] \in call.visited
      BY <1>0, <1>p DEF TreeInv, Searched, Call
    <2> QED
      BY <1>0, <1>7, <2>1
  <1>9. CASE at = Local
    <2>1. call'.pc = "done" /\ call'.path = old
      BY <1>3, <1>9
    <2> QED
      BY <1>1, <1>2, <1>3, <1>6, <1>7, <1>9, <2>1, <1>4, <1>5 DEF PathInv
  <1>10. CASE at # Local
    <2>1. PICK b \in Peers : b = call.prev[at] /\ b \in call.reached
      BY <1>8, <1>10
    <2>2. PICK new : new = <<b>> \o old
      OBVIOUS
    <2>3. /\ new # <<>> /\ Len(new) = Len(old) + 1 /\ new[1] = b
          /\ \A k \in 1..Len(old) : new[k + 1] = old[k]
      BY <1>1, <1>2, <2>2
    <2>4. call'.pc = "trace" /\ call'.path = new
      BY <1>3, <1>8, <1>10, <2>1, <2>2
    <2>5. new[Len(new)] = call.goal
      BY <1>2, <1>6, <2>3
    <2>6. ASSUME NEW k \in 1..Len(new) PROVE new[k] \in call.reached
      <3>1. CASE k = 1
        BY <2>1, <2>3, <3>1
      <3>2. CASE k # 1
        <4>1. k - 1 \in 1..Len(old) /\ new[(k - 1) + 1] = old[k - 1]
          BY <1>2, <2>3, <3>2
        <4>2. (k - 1) + 1 = k
          BY <2>6
        <4> QED
          BY <1>6, <4>1, <4>2
      <3> QED
        BY <3>1, <3>2
    <2>7. ASSUME NEW k \in 1..(Len(new) - 1)
          PROVE  new[k + 1] # Local /\ new[k] = call.prev[new[k + 1]]
      <3>0. k \in 1..Len(old) /\ new[k + 1] = old[k]
        BY <1>2, <2>3
      <3>1. CASE k = 1
        BY <1>2, <1>10, <2>1, <2>3, <3>0, <3>1
      <3>2. CASE k # 1
        <4>1. k - 1 \in 1..(Len(old) - 1) /\ (k - 1) + 1 = k /\ k - 1 \in 1..Len(old)
          BY <1>2, <3>0, <3>2
        <4>2. new[(k - 1) + 1] = old[k - 1]
          BY <2>3, <4>1
        <4>3. old[(k - 1) + 1] # Local /\ old[k - 1] = call.prev[old[(k - 1) + 1]]
          BY <1>6, <4>1
        <4> QED
          BY <3>0, <4>1, <4>2, <4>3
      <3> QED
        BY <3>1, <3>2
    <2>8. PathInv'
      BY <1>3, <1>6, <2>3, <2>4, <2>5, <2>6, <2>7 DEF PathInv
    <2> QED
      BY <1>4, <1>5, <2>8
  <1> QED
    BY <1>9, <1>10

LEMMA ReturnAnswer ==
    ASSUME AnswerInv, Return
    PROVE  WeightInv' /\ SeenInv' /\ TreeInv' /\ EdgeInv' /\ CutInv' /\ PathInv'
  <1>1. call'.pc = "idle" /\ call'.links = {} /\ call'.path = <<>> /\ cost' = cost
    BY DEF Return, NoCall, store
  <1> QED
    BY <1>1 DEF AnswerInv, WeightInv, SeenInv, TreeInv, EdgeInv, CutInv, PathInv, Searched

LEMMA AnswerStep == AnswerInv /\ [RtNext]_rtvars => AnswerInv'
  <1> SUFFICES ASSUME AnswerInv, [RtNext]_rtvars PROVE AnswerInv'
    OBVIOUS
  <1>0. RouterInv' /\ RtTypeOK
    BY InvStep DEF AnswerInv, RouterInv
  <1>1. CASE \/ \E t \in Targets : SendBytesToPeer(t)
             \/ \E p \in Peers : ReadRecord(p) \/ Weigh(p)
             \/ Weighed
    <2>1. WeightInv' /\ SeenInv' /\ ~Searched' /\ PathInv'
      BY <1>1, BuildAnswer
    <2>2. TreeInv' /\ EdgeInv'
      BY <2>1 DEF TreeInv, EdgeInv
    <2>3. CutInv'
      BY <2>1 DEF CutInv, Searched
    <2> QED
      BY <1>0, <2>1, <2>2, <2>3 DEF AnswerInv
  <1>2. CASE StartSearch \/ Skip \/ ReachGoal \/ Visit \/ EndSearch \/ TraceBack \/ Return
    BY <1>0, <1>2, StartAnswer, SkipAnswer, GoalAnswer, VisitAnswer, EndAnswer, TraceAnswer,
       ReturnAnswer DEF AnswerInv
  <1>3. CASE StoreStep
    <2>1. call' = call
      BY <1>0, <1>3, StoreSteps
    <2>2. TreeInv' /\ EdgeInv' /\ CutInv' /\ PathInv'
      BY <2>1 DEF AnswerInv, TreeInv, EdgeInv, CutInv, PathInv, Searched
    <2>3. WeightInv' /\ SeenInv'
      BY <1>0, <1>3, StoreAnswer DEF AnswerInv
    <2> QED
      BY <1>0, <2>2, <2>3 DEF AnswerInv
  <1>4. CASE UNCHANGED rtvars
    BY <1>0, <1>4 DEF AnswerInv, WeightInv, SeenInv, TreeInv, EdgeInv, CutInv, PathInv, Searched,
                      Recorded, rtvars, store
  <1> QED
    BY <1>1, <1>2, <1>3, <1>4 DEF RtNext, RouterStep

\* The same with what the answer depends on: the predecessors form a tree of
\* links that were recorded during the call, and no visited peer has a shortcut.
THEOREM AnswerIsSound == RtSpec => []AnswerInv
  BY AnswerInit, AnswerStep, PTL DEF RtSpec

\* However the store, the index and the sessions change while buildGraph reads
\* the records one by one, the route SendBytesToPeer follows uses no adjacency
\* that was not recorded during that very call.
THEOREM RouteIsFresh == RtSpec => []FreshRoute
  <1>1. AnswerInv => FreshRoute
    <2> SUFFICES ASSUME AnswerInv, call.pc = "done",
                        NEW k \in 1..(Len(call.path) - 1)
                 PROVE  <<call.path[k], call.path[k + 1]>> \in seen
      BY DEF FreshRoute
    <2>1. call.path \in Seq(Peers) /\ Len(call.path) \in Nat
      BY DEF AnswerInv, RouterInv, RtTypeOK, Call
    <2>2. call.path # <<>> /\ k + 1 \in 1..Len(call.path)
      BY <2>1
    <2>3. /\ call.path[k + 1] \in call.reached \ {Local}
          /\ call.path[k] = call.prev[call.path[k + 1]]
      BY <2>2 DEF AnswerInv, PathInv
    <2>4. <<call.path[k], call.path[k + 1]>> \in call.links
      BY <2>3 DEF AnswerInv, TreeInv, Searched
    <2> QED
      BY <2>4 DEF AnswerInv, SeenInv
  <1> QED
    BY <1>1, AnswerIsSound, PTL

-----------------------------------------------------------------------------
(* The answer is a shortest path.                                          *)

LEMMA LeastNumber ==
    ASSUME NEW T, T \subseteq Nat, T # {}
    PROVE  \E x \in T : \A y \in T : x <= y
  <1> DEFINE R == {r \in Nat \X Nat : r[1] < r[2]}
  <1>1. IsWellFoundedOn(R, Nat)
    <2>1. OpToRel(<, Nat) = R
      BY DEF OpToRel
    <2> QED
      BY <2>1, NatLessThanWellFounded
  <1> HIDE DEF R
  <1>2. PICK x \in T : \A y \in T : ~(<<y, x>> \in R)
    BY <1>1, WFMin
  <1>3. ASSUME NEW y \in T PROVE x <= y
    <2>1. x \in Nat /\ y \in Nat /\ ~(<<y, x>> \in R)
      BY <1>2
    <2>2. ~(y < x)
      BY <2>1 DEF R
    <2> QED
      BY <2>1, <2>2
  <1> QED
    BY <1>3

\* Induction along a path of n peers, for a set of indices.
LEMMA AlongPath ==
    ASSUME NEW n \in Nat, NEW T, 1 \in T, \A i \in 1..(n - 1) : i \in T => i + 1 \in T
    PROVE  \A i \in 1..n : i \in T
  <1> SUFFICES ASSUME NEW k \in 1..n, k \notin T PROVE FALSE
    OBVIOUS
  <1> DEFINE B == {i \in 1..n : i \notin T}
  <1>1. B \subseteq Nat /\ B # {}
    OBVIOUS
  <1>2. PICK x \in B : \A y \in B : x <= y
    BY <1>1, LeastNumber
  <1>3. x \in 1..n /\ x # 1
    BY <1>2
  <1>4. x - 1 \in 1..(n - 1) /\ x - 1 \in 1..n /\ ~(x <= x - 1) /\ (x - 1) + 1 = x
    BY <1>3
  <1>5. x - 1 \in T
    BY <1>2, <1>4
  <1>6. x \in T
    BY <1>4, <1>5
  <1> QED
    BY <1>2, <1>6

\* s adds up the weights w of the links along p.
IsSum(s, p, w, n) ==
    /\ s \in [1..n -> Nat]
    /\ s[1] = 0
    /\ \A i \in 1..(n - 1) : s[i + 1] = s[i] + w[<<p[i], p[i + 1]>>]

LEMMA SumExists ==
    ASSUME NEW P, NEW n \in Nat \ {0}, NEW p \in [1..n -> P], NEW w \in [P \X P -> Nat]
    PROVE  \E s : IsSum(s, p, w, n)
  <1> DEFINE T == {k \in 1..n : \E s : IsSum(s, p, w, k)}
  <1>1. 1 \in T
    <2>1. IsSum([i \in 1..1 |-> 0], p, w, 1)
      BY DEF IsSum
    <2> QED
      BY <2>1
  <1>2. ASSUME NEW k \in 1..(n - 1), k \in T PROVE k + 1 \in T
    <2>1. PICK s : IsSum(s, p, w, k)
      BY <1>2
    <2>2. /\ s \in [1..k -> Nat] /\ s[1] = 0 /\ k \in Nat \ {0}
          /\ \A i \in 1..(k - 1) : s[i + 1] = s[i] + w[<<p[i], p[i + 1]>>]
      BY <2>1 DEF IsSum
    <2>3. PICK x \in Nat : x = s[k] + w[<<p[k], p[k + 1]>>]
      <3>1. p[k] \in P /\ p[k + 1] \in P /\ s[k] \in Nat
        BY <2>2
      <3>2. w[<<p[k], p[k + 1]>>] \in Nat
        BY <3>1
      <3> QED
        BY <3>1, <3>2
    <2> DEFINE t == [i \in 1..(k + 1) |-> IF i = k + 1 THEN x ELSE s[i]]
    <2>4. t \in [1..(k + 1) -> Nat] /\ t[1] = 0
      BY <2>2, <2>3
    <2>5. ASSUME NEW i \in 1..k PROVE t[i + 1] = t[i] + w[<<p[i], p[i + 1]>>]
      <3>1. CASE i = k
        <4>1. t[i + 1] = x /\ t[i] = s[k]
          BY <2>2, <3>1
        <4> QED
          BY <2>3, <3>1, <4>1
      <3>2. CASE i # k
        <4>1. i \in 1..(k - 1) /\ t[i + 1] = s[i + 1] /\ t[i] = s[i]
          BY <2>2, <3>2
        <4> QED
          BY <2>2, <4>1
      <3> QED
        BY <3>1, <3>2
    <2> HIDE DEF t
    <2>6. (k + 1) - 1 = k /\ k + 1 \in 1..n
      OBVIOUS
    <2>7. IsSum(t, p, w, k + 1)
      BY <2>4, <2>5, <2>6 DEF IsSum
    <2> QED
      BY <2>6, <2>7
  <1> HIDE DEF T
  <1>3. \A k \in 1..n : k \in T
    <2>1. \A k \in 1..(n - 1) : k \in T => k + 1 \in T
      BY <1>2
    <2> QED
      BY <1>1, <2>1, AlongPath
  <1> QED
    BY <1>3 DEF T

\* Weight is such a sum.
LEMMA WeightIsSum ==
    ASSUME NEW n \in Nat \ {0}, NEW p \in [1..n -> Peers],
           call.weight \in [Peers \X Peers -> Nat]
    PROVE  \E s : IsSum(s, p, call.weight, n) /\ Weight(p) = s[n]
  <1>1. PICK w \in [Peers \X Peers -> Nat] : w = call.weight
    OBVIOUS
  <1>2. PICK s : IsSum(s, p, w, n)
    BY SumExists
  <1>3. Len(p) = n
    OBVIOUS
  <1>d. /\ s \in [1..n -> Nat] /\ s[1] = 0
        /\ \A i \in 1..(n - 1) : s[i + 1] = s[i] + w[<<p[i], p[i + 1]>>]
    BY <1>2 DEF IsSum
  <1>4. s = [i \in 1..n |-> IF i = 1 THEN 0 ELSE s[i - 1] + w[<<p[i - 1], p[i]>>]]
    <2>1. ASSUME NEW i \in 1..n, i # 1 PROVE s[i] = s[i - 1] + w[<<p[i - 1], p[i]>>]
      <3>1. i - 1 \in 1..(n - 1) /\ (i - 1) + 1 = i
        BY <2>1
      <3> QED
        BY <1>d, <3>1
    <2> QED
      BY <1>d, <2>1
  <1>5. PICK f : /\ f = [i \in 1..n |-> IF i = 1 THEN 0 ELSE f[i - 1] + w[<<p[i - 1], p[i]>>]]
                 /\ Weight(p) = f[n]
    <2>1. s = [i \in 1..Len(p) |-> IF i = 1 THEN 0 ELSE s[i - 1] + call.weight[<<p[i - 1], p[i]>>]]
      BY <1>1, <1>3, <1>4
    <2>2. \E f : /\ f = [i \in 1..Len(p) |-> IF i = 1 THEN 0
                                             ELSE f[i - 1] + call.weight[<<p[i - 1], p[i]>>]]
                 /\ Weight(p) = f[Len(p)]
      BY <2>1 DEF Weight
    <2> QED
      BY <1>1, <1>3, <2>2
  <1> DEFINE T == {i \in 1..n : f[i] = s[i]}
  <1>6. 1 \in T
    BY <1>5, <1>d
  <1>7. ASSUME NEW i \in 1..(n - 1), i \in T PROVE i + 1 \in T
    <2>1. i + 1 \in 1..n /\ i + 1 # 1 /\ (i + 1) - 1 = i /\ f[i] = s[i]
      BY <1>7
    <2>2. f[i + 1] = f[i] + w[<<p[i], p[i + 1]>>]
      BY <1>5, <2>1
    <2> QED
      BY <1>d, <2>1, <2>2
  <1> HIDE DEF T
  <1>8. \A i \in 1..n : i \in T
    <2>1. \A i \in 1..(n - 1) : i \in T => i + 1 \in T
      BY <1>7
    <2> QED
      BY <1>6, <2>1, AlongPath
  <1>9. f[n] = s[n]
    BY <1>8 DEF T
  <1> QED
    BY <1>1, <1>2, <1>5, <1>9

\* No path to a goal that was visited is shorter than the goal's distance: along
\* it, the distance of a peer is at most what the path has cost so far, until
\* that is the goal's distance already.
LEMMA NoShorterPath ==
    ASSUME AnswerInv, Searched, call.goal \in call.visited,
           NEW n \in Nat \ {0}, NEW p \in [1..n -> Peers],
           p[1] = Local, p[n] = call.goal,
           \A i \in 1..(n - 1) : <<p[i], p[i + 1]>> \in call.links
    PROVE  call.dist[call.goal] <= Weight(p)
  <1>0. /\ call \in Call /\ TreeInv /\ EdgeInv /\ CutInv
    BY DEF AnswerInv, RouterInv, RtTypeOK
  <1>1. PICK g \in Peers, d \in [Peers -> Nat], w \in [Peers \X Peers -> Nat] :
          g = call.goal /\ d = call.dist /\ w = call.weight
    BY <1>0 DEF Call
  <1>2. PICK s : IsSum(s, p, w, n) /\ Weight(p) = s[n]
    BY <1>1, WeightIsSum
  <1>3. /\ s \in [1..n -> Nat] /\ s[1] = 0
        /\ \A i \in 1..(n - 1) : s[i + 1] = s[i] + w[<<p[i], p[i + 1]>>]
    BY <1>2 DEF IsSum
  <1>4. /\ Local \in call.reached /\ d[Local] = 0
        /\ \A a \in call.visited \ {g}, q \in Peers :
              <<a, q>> \in call.links => q \in call.reached /\ d[q] <= d[a] + w[<<a, q>>]
        /\ \A q \in call.reached \ call.visited : d[g] <= d[q]
    BY <1>0, <1>1 DEF TreeInv, EdgeInv, CutInv
  <1> DEFINE T == {i \in 1..n : d[g] <= s[i] \/ (p[i] \in call.reached /\ d[p[i]] <= s[i])}
  <1>5. 1 \in T
    BY <1>3, <1>4
  <1>6. ASSUME NEW i \in 1..(n - 1), i \in T PROVE i + 1 \in T
    <2>1. /\ i \in 1..n /\ i + 1 \in 1..n /\ p[i] \in Peers /\ p[i + 1] \in Peers
          /\ <<p[i], p[i + 1]>> \in call.links
      OBVIOUS
    <2>2. /\ s[i] \in Nat /\ s[i + 1] \in Nat /\ w[<<p[i], p[i + 1]>>] \in Nat
          /\ d[p[i]] \in Nat /\ d[p[i + 1]] \in Nat /\ d[g] \in Nat
          /\ s[i + 1] = s[i] + w[<<p[i], p[i + 1]>>]
      BY <1>3, <2>1
    <2>3. CASE d[g] <= s[i]
      <3>1. d[g] <= s[i + 1]
        BY <2>2, <2>3
      <3> QED
        BY <2>1, <3>1
    <2>4. CASE ~(d[g] <= s[i])
      <3>1. p[i] \in call.reached /\ d[p[i]] <= s[i]
        BY <1>6, <2>4
      <3>2. p[i] \in call.visited \ {g}
        BY <1>4, <2>2, <2>4, <3>1
      <3>3. p[i + 1] \in call.reached /\ d[p[i + 1]] <= d[p[i]] + w[<<p[i], p[i + 1]>>]
        BY <1>4, <2>1, <3>2
      <3>4. d[p[i + 1]] <= s[i + 1]
        BY <2>2, <3>1, <3>3
      <3> QED
        BY <2>1, <3>3, <3>4
    <2> QED
      BY <2>3, <2>4
  <1> HIDE DEF T
  <1>7. \A i \in 1..n : i \in T
    <2>1. \A i \in 1..(n - 1) : i \in T => i + 1 \in T
      BY <1>6
    <2> QED
      BY <1>5, <2>1, AlongPath
  <1>8. n \in T
    BY <1>7
  <1>9. d[g] <= s[n]
    BY <1>1, <1>8 DEF T
  <1> QED
    BY <1>1, <1>2, <1>9

\* There is no path to a goal that was not reached: what was is closed under
\* the links.
LEMMA NoPathAtAll ==
    ASSUME AnswerInv, call.pc = "done", call.goal \notin call.reached,
           NEW n \in Nat \ {0}, NEW p \in [1..n -> Peers],
           p[1] = Local, p[n] = call.goal,
           \A i \in 1..(n - 1) : <<p[i], p[i + 1]>> \in call.links
    PROVE  FALSE
  <1>1. /\ Local \in call.reached /\ call.visited = call.reached
        /\ \A a \in call.visited \ {call.goal}, q \in Peers :
              <<a, q>> \in call.links => q \in call.reached
    <2>1. TreeInv /\ EdgeInv /\ CutInv /\ Searched
      BY DEF AnswerInv, Searched
    <2>2. call.visited \subseteq call.reached
      BY <2>1 DEF TreeInv
    <2> QED
      BY <2>1, <2>2 DEF TreeInv, EdgeInv, CutInv
  <1> DEFINE T == {i \in 1..n : p[i] \in call.reached}
  <1>2. 1 \in T
    BY <1>1
  <1>3. ASSUME NEW i \in 1..(n - 1), i \in T PROVE i + 1 \in T
    <2>1. i + 1 \in 1..n /\ p[i + 1] \in Peers /\ <<p[i], p[i + 1]>> \in call.links
      OBVIOUS
    <2>2. p[i] \in call.visited \ {call.goal}
      BY <1>1, <1>3
    <2> QED
      BY <1>1, <2>1, <2>2
  <1> HIDE DEF T
  <1>4. \A i \in 1..n : i \in T
    <2>1. \A i \in 1..(n - 1) : i \in T => i + 1 \in T
      BY <1>3
    <2> QED
      BY <1>2, <2>1, AlongPath
  <1>5. n \in T
    BY <1>4
  <1> QED
    BY <1>5 DEF T

\* The path that was traced back is one of the graph, without a repetition as
\* distances grow along it, and as long as the goal is far.
LEMMA TracedPath ==
    ASSUME AnswerInv, call.pc = "done", call.path # <<>>
    PROVE  call.path \in PathsTo(call.goal) /\ Weight(call.path) = call.dist[call.goal]
  <1>0. /\ call \in Call /\ TreeInv /\ PathInv /\ WeightInv /\ Searched
        /\ IsFiniteSet(Peers) /\ Local \in Peers
    BY RouterAssumption DEF AnswerInv, RouterInv, RtTypeOK, Searched
  <1>1. PICK p \in Seq(Peers), g \in Peers, d \in [Peers -> Nat], w \in [Peers \X Peers -> Nat] :
          p = call.path /\ g = call.goal /\ d = call.dist /\ w = call.weight
    BY <1>0 DEF Call, PathInv
  <1>2. PICK n \in Nat \ {0} : n = Len(p) /\ p \in [1..n -> Peers]
    BY <1>1
  <1>3. /\ p[n] = g /\ p[1] = Local
        /\ \A i \in 1..(n - 1) : /\ p[i + 1] \in call.reached \ {Local}
                                 /\ p[i] = call.prev[p[i + 1]]
    <2>1. /\ p[n] = g /\ p[1] = Local
          /\ \A i \in 1..n : p[i] \in call.reached
          /\ \A i \in 1..(n - 1) : p[i + 1] # Local /\ p[i] = call.prev[p[i + 1]]
      BY <1>0, <1>1, <1>2 DEF PathInv
    <2>2. \A i \in 1..(n - 1) : i + 1 \in 1..n
      OBVIOUS
    <2> QED
      BY <2>1, <2>2
  <1>4. d[Local] = 0
    BY <1>0, <1>1 DEF TreeInv
  <1>5. ASSUME NEW i \in 1..(n - 1)
        PROVE  /\ i \in 1..n /\ i + 1 \in 1..n
               /\ <<p[i], p[i + 1]>> \in call.links
               /\ d[p[i + 1]] = d[p[i]] + w[<<p[i], p[i + 1]>>]
               /\ d[p[i]] \in Nat /\ d[p[i + 1]] \in Nat /\ d[p[i]] < d[p[i + 1]]
    <2>1. i \in 1..n /\ i + 1 \in 1..n /\ p[i] \in Peers /\ p[i + 1] \in Peers
      BY <1>2
    <2>2. /\ <<p[i], p[i + 1]>> \in call.links
          /\ d[p[i + 1]] = d[p[i]] + w[<<p[i], p[i + 1]>>]
      BY <1>0, <1>1, <1>3 DEF TreeInv
    <2>3. w[<<p[i], p[i + 1]>>] \in Nat /\ w[<<p[i], p[i + 1]>>] >= 1
      BY <1>0, <1>1, <2>1, <2>2 DEF WeightInv
    <2>4. d[p[i]] \in Nat /\ d[p[i + 1]] \in Nat
      BY <2>1
    <2> QED
      BY <2>1, <2>2, <2>3, <2>4
  <1>6. IsInjective(p)
    <2> DEFINE T == {j \in 1..n : \A i \in 1..n : i < j => d[p[i]] < d[p[j]]}
    <2>1. 1 \in T
      OBVIOUS
    <2>2. ASSUME NEW j \in 1..(n - 1), j \in T PROVE j + 1 \in T
      <3> SUFFICES ASSUME NEW i \in 1..n, i < j + 1 PROVE d[p[i]] < d[p[j + 1]]
        BY <1>5
      <3>1. d[p[j]] \in Nat /\ d[p[j + 1]] \in Nat /\ d[p[j]] < d[p[j + 1]] /\ d[p[i]] \in Nat
        BY <1>2, <1>5
      <3>2. CASE i = j
        BY <3>1, <3>2
      <3>3. CASE i # j
        <4>1. i < j
          BY <3>3
        <4>2. d[p[i]] < d[p[j]]
          BY <2>2, <4>1
        <4>3. PICK a \in Nat, b \in Nat, c \in Nat : a = d[p[i]] /\ b = d[p[j]] /\ c = d[p[j + 1]]
          BY <3>1
        <4>4. a < b /\ b < c
          BY <3>1, <4>2, <4>3
        <4>5. a < c
          BY <4>4
        <4> QED
          BY <4>3, <4>5
      <3> QED
        BY <3>2, <3>3
    <2> HIDE DEF T
    <2>3. \A j \in 1..n : j \in T
      <3>1. \A j \in 1..(n - 1) : j \in T => j + 1 \in T
        BY <2>2
      <3> QED
        BY <2>1, <3>1, AlongPath
    <2>4. ASSUME NEW i \in 1..n, NEW j \in 1..n, i < j PROVE p[i] # p[j]
      <3>1. d[p[i]] < d[p[j]] /\ d[p[i]] \in Nat
        BY <1>2, <2>3, <2>4 DEF T
      <3> QED
        BY <3>1
    <2>5. ASSUME NEW i \in 1..n, NEW j \in 1..n, p[i] = p[j] PROVE i = j
      <3>1. ~(i < j) /\ ~(j < i)
        BY <2>4, <2>5
      <3> QED
        BY <3>1
    <2> QED
      BY <1>2, <2>5 DEF IsInjective
  <1>7. n <= Cardinality(Peers)
    <2>1. p \in Injection(1..n, Peers)
      BY <1>2, <1>6 DEF Injection
    <2>2. Cardinality(1..n) <= Cardinality(Peers)
      BY <1>0, <2>1, FS_Injection
    <2>3. Cardinality(1..n) = n
      BY FS_Interval
    <2> QED
      BY <2>2, <2>3
  <1>8. p \in PathsTo(g)
    <2>1. Cardinality(Peers) \in Nat
      BY <1>0, FS_CardinalityType
    <2>2. p \in UNION {[1..m -> Peers] : m \in 1..Cardinality(Peers)}
      BY <1>2, <1>7, <2>1
    <2> QED
      BY <1>2, <1>3, <1>5, <1>6, <2>2 DEF PathsTo
  <1>9. PICK s : IsSum(s, p, w, n) /\ Weight(p) = s[n]
    BY <1>1, <1>2, WeightIsSum
  <1>10. s[n] = d[g]
    <2>0. s[1] = 0 /\ \A i \in 1..(n - 1) : s[i + 1] = s[i] + w[<<p[i], p[i + 1]>>]
      BY <1>9 DEF IsSum
    <2> DEFINE T == {i \in 1..n : s[i] = d[p[i]]}
    <2>1. 1 \in T
      BY <1>3, <1>4, <2>0
    <2>2. ASSUME NEW i \in 1..(n - 1), i \in T PROVE i + 1 \in T
      BY <1>5, <2>0, <2>2
    <2> HIDE DEF T
    <2>3. \A i \in 1..n : i \in T
      <3>1. \A i \in 1..(n - 1) : i \in T => i + 1 \in T
        BY <2>2
      <3> QED
        BY <2>1, <3>1, AlongPath
    <2>4. n \in T
      BY <2>3
    <2> QED
      BY <1>3, <2>4 DEF T
  <1> QED
    BY <1>1, <1>8, <1>9, <1>10

\* findPathDijkstra, whose heap keeps outdated entries and which stops at the
\* goal, answers a shortest path of the graph it was given, whatever the graph,
\* and no path only if there is none.
THEOREM RouteIsShortest == RtSpec => []ShortestRoute
  <1>1. AnswerInv => ShortestRoute
    <2> SUFFICES ASSUME AnswerInv, call.pc = "done" PROVE ShortestRoute
      BY DEF ShortestRoute
    <2>0. Searched /\ PathInv /\ CutInv
      BY DEF Searched, AnswerInv
    <2>p. ASSUME NEW p \in PathsTo(call.goal)
          PROVE  \E n \in Nat \ {0} :
                    /\ p \in [1..n -> Peers] /\ p[1] = Local /\ p[n] = call.goal
                    /\ \A i \in 1..(n - 1) : <<p[i], p[i + 1]>> \in call.links
      <3>1. PICK n \in 1..Cardinality(Peers) : p \in [1..n -> Peers]
        BY DEF PathsTo
      <3>2. Cardinality(Peers) \in Nat
        BY RouterAssumption, FS_CardinalityType
      <3>3. n \in Nat \ {0} /\ Len(p) = n
        BY <3>1, <3>2
      <3>4. /\ p[1] = Local /\ p[Len(p)] = call.goal
            /\ \A i \in 1..(Len(p) - 1) : <<p[i], p[i + 1]>> \in call.links
        BY DEF PathsTo
      <3> QED
        BY <3>1, <3>3, <3>4
    <2>1. CASE call.path = <<>>
      <3>1. call.goal \notin call.reached
        BY <2>0, <2>1 DEF PathInv
      <3>2. ASSUME NEW p \in PathsTo(call.goal) PROVE FALSE
        <4>1. PICK n \in Nat \ {0} :
                    /\ p \in [1..n -> Peers] /\ p[1] = Local /\ p[n] = call.goal
                    /\ \A i \in 1..(n - 1) : <<p[i], p[i + 1]>> \in call.links
          BY <2>p
        <4> QED
          BY <3>1, <4>1, NoPathAtAll
      <3> QED
        BY <2>1, <3>2 DEF ShortestRoute
    <2>2. CASE call.path # <<>>
      <3>1. call.path \in PathsTo(call.goal) /\ Weight(call.path) = call.dist[call.goal]
        BY <2>2, TracedPath
      <3>2. call.goal \in call.visited
        BY <2>0, <2>2 DEF PathInv, CutInv
      <3>3. ASSUME NEW p \in PathsTo(call.goal) PROVE Weight(call.path) <= Weight(p)
        <4>1. PICK n \in Nat \ {0} :
                    /\ p \in [1..n -> Peers] /\ p[1] = Local /\ p[n] = call.goal
                    /\ \A i \in 1..(n - 1) : <<p[i], p[i + 1]>> \in call.links
          BY <2>p
        <4>2. call.dist[call.goal] <= Weight(p)
          BY <2>0, <3>2, <4>1, NoShorterPath
        <4> QED
          BY <3>1, <4>2
      <3> QED
        BY <2>2, <3>1, <3>3 DEF ShortestRoute
    <2> QED
      BY <2>1, <2>2
  <1> QED
    BY <1>1, AnswerIsSound, PTL

-----------------------------------------------------------------------------
(* Routes: loops over the candidates.                                      *)

\* A loop over 1..n with an accumulator in S: acc is what it has after each
\* round.
IsLoop(acc, n, S, start, F) ==
    /\ acc \in [0..n -> S]
    /\ acc[0] = start
    /\ \A i \in 1..n : acc[i] = F[<<i, acc[i - 1]>>]

LEMMA UpTo ==
    ASSUME NEW n \in Nat, NEW T, 0 \in T, \A i \in 1..n : i - 1 \in T => i \in T
    PROVE  \A i \in 0..n : i \in T
  <1> SUFFICES ASSUME NEW k \in 0..n, k \notin T PROVE FALSE
    OBVIOUS
  <1> DEFINE B == {i \in 0..n : i \notin T}
  <1>1. B \subseteq Nat /\ B # {}
    OBVIOUS
  <1>2. PICK x \in B : \A y \in B : x <= y
    BY <1>1, LeastNumber
  <1>3. x \in 1..n /\ x - 1 \in 0..n /\ ~(x <= x - 1)
    BY <1>2
  <1>4. x - 1 \in T
    BY <1>2, <1>3
  <1> QED
    BY <1>2, <1>3, <1>4

LEMMA LoopExists ==
    ASSUME NEW n \in Nat, NEW S, NEW start \in S, NEW F \in [(1..n) \X S -> S]
    PROVE  \E acc : IsLoop(acc, n, S, start, F)
  <1> DEFINE T == {k \in 0..n : \E acc : IsLoop(acc, k, S, start, F)}
  <1>1. 0 \in T
    <2>1. IsLoop([i \in 0..0 |-> start], 0, S, start, F)
      BY DEF IsLoop
    <2> QED
      BY <2>1
  <1>2. ASSUME NEW k \in 1..n, k - 1 \in T PROVE k \in T
    <2>1. PICK acc : IsLoop(acc, k - 1, S, start, F)
      BY <1>2
    <2>2. /\ acc \in [0..(k - 1) -> S] /\ acc[0] = start
          /\ \A i \in 1..(k - 1) : acc[i] = F[<<i, acc[i - 1]>>]
      BY <2>1 DEF IsLoop
    <2>3. PICK x \in S : x = F[<<k, acc[k - 1]>>]
      <3>1. acc[k - 1] \in S
        BY <2>2
      <3> QED
        BY <3>1
    <2> DEFINE bcc == [i \in 0..k |-> IF i = k THEN x ELSE acc[i]]
    <2>4. bcc \in [0..k -> S] /\ bcc[0] = start
      BY <2>2, <2>3
    <2>5. ASSUME NEW i \in 1..k PROVE bcc[i] = F[<<i, bcc[i - 1]>>]
      <3>1. i - 1 \in 0..(k - 1) /\ bcc[i - 1] = acc[i - 1]
        BY <2>2
      <3>2. CASE i = k
        <4>1. bcc[i] = x
          BY <3>2
        <4> QED
          BY <2>3, <3>1, <3>2, <4>1
      <3>3. CASE i # k
        <4>1. i \in 1..(k - 1) /\ bcc[i] = acc[i]
          BY <3>3
        <4> QED
          BY <2>2, <3>1, <4>1
      <3> QED
        BY <3>2, <3>3
    <2> HIDE DEF bcc
    <2>6. IsLoop(bcc, k, S, start, F)
      BY <2>4, <2>5 DEF IsLoop
    <2> QED
      BY <2>6
  <1> HIDE DEF T
  <1>3. \A i \in 1..n : i - 1 \in T => i \in T
    BY <1>2
  <1>4. \A i \in 0..n : i \in T
    BY <1>1, <1>3, UpTo
  <1> QED
    BY <1>4 DEF T

\* Live keeps, in each round, what has not run out.
LiveRounds(out, n, C, cs, now) ==
    /\ out \in [0..n -> Seq(C)] /\ out[0] = <<>> /\ Live(cs, now) = out[n]
    /\ \A i \in 1..n : out[i] = IF cs[i].expires > now
                                  THEN Append(out[i - 1], cs[i]) ELSE out[i - 1]

LEMMA LiveLoop ==
    ASSUME NEW C, NEW n \in Nat, NEW cs \in [1..n -> C], NEW now
    PROVE  \E out : LiveRounds(out, n, C, cs, now)
  <1> DEFINE F == [p \in (1..n) \X Seq(C) |->
                     IF cs[p[1]].expires > now THEN Append(p[2], cs[p[1]]) ELSE p[2]]
  <1>1. F \in [(1..n) \X Seq(C) -> Seq(C)]
    <2>1. ASSUME NEW p \in (1..n) \X Seq(C)
          PROVE  (IF cs[p[1]].expires > now THEN Append(p[2], cs[p[1]]) ELSE p[2]) \in Seq(C)
      <3>1. p[1] \in 1..n /\ p[2] \in Seq(C) /\ cs[p[1]] \in C
        OBVIOUS
      <3> QED
        BY <3>1, AppendProperties
    <2> QED
      BY <2>1
  <1>2. <<>> \in Seq(C)
    OBVIOUS
  <1>3. PICK acc : IsLoop(acc, n, Seq(C), <<>>, F)
    <2> HIDE DEF F
    <2> QED
      BY <1>1, <1>2, LoopExists
  <1>4. /\ acc \in [0..n -> Seq(C)] /\ acc[0] = <<>>
        /\ \A i \in 1..n : acc[i] = F[<<i, acc[i - 1]>>]
    BY <1>3 DEF IsLoop
  <1>5. ASSUME NEW i \in 1..n
        PROVE  acc[i] = IF cs[i].expires > now THEN Append(acc[i - 1], cs[i]) ELSE acc[i - 1]
    <2>1. acc[i - 1] \in Seq(C)
      BY <1>4
    <2>2. F[<<i, acc[i - 1]>>] = IF cs[i].expires > now THEN Append(acc[i - 1], cs[i]) ELSE acc[i - 1]
      BY <2>1
    <2> QED
      BY <1>4, <2>2
  <1> HIDE DEF F
  <1> DEFINE G(f, i) == IF i = 0 THEN <<>>
                        ELSE IF cs[i].expires > now THEN Append(f[i - 1], cs[i]) ELSE f[i - 1]
  <1>6. ASSUME NEW i \in 0..n PROVE acc[i] = G(acc, i)
    <2>1. CASE i = 0
      BY <1>4, <2>1
    <2>2. CASE i # 0
      <3>1. i \in 1..n
        BY <2>2
      <3> QED
        BY <1>5, <2>2, <3>1
    <2> QED
      BY <2>1, <2>2
  <1>7. Len(cs) = n
    OBVIOUS
  <1>8. PICK out : out = [i \in 0..n |-> G(out, i)] /\ Live(cs, now) = out[n]
    <2>1. acc = [i \in 0..n |-> G(acc, i)]
      <3> HIDE DEF G
      <3> QED
        BY <1>4, <1>6
    <2>2. \E out : out = [i \in 0..Len(cs) |-> G(out, i)] /\ Live(cs, now) = out[Len(cs)]
      BY <1>7, <2>1 DEF Live
    <2> QED
      BY <1>7, <2>2
  <1>9. /\ out[0] = <<>>
        /\ \A i \in 1..n : out[i] = IF cs[i].expires > now
                                      THEN Append(out[i - 1], cs[i]) ELSE out[i - 1]
    <2>1. \A i \in 0..n : out[i] = G(out, i)
      <3> HIDE DEF G
      <3> QED
        BY <1>8
    <2>2. ASSUME NEW i \in 1..n
          PROVE  out[i] = IF cs[i].expires > now THEN Append(out[i - 1], cs[i]) ELSE out[i - 1]
      <3>1. i \in 0..n /\ i # 0
        OBVIOUS
      <3> QED
        BY <2>1, <3>1
    <2>3. 0 \in 0..n
      OBVIOUS
    <2> QED
      BY <2>1, <2>2, <2>3
  <1> DEFINE T == {i \in 0..n : out[i] \in Seq(C)}
  <1>10. 0 \in T
    <2>1. out[0] = <<>> /\ 0 \in 0..n
      BY <1>9
    <2> QED
      BY <1>2, <2>1
  <1>11. ASSUME NEW i \in 1..n, i - 1 \in T PROVE i \in T
    <2>1. cs[i] \in C /\ out[i - 1] \in Seq(C)
      BY <1>11
    <2>2. Append(out[i - 1], cs[i]) \in Seq(C)
      BY <2>1, AppendProperties
    <2>3. out[i] \in Seq(C)
      BY <1>9, <2>1, <2>2
    <2> QED
      BY <2>3
  <1> HIDE DEF T
  <1>12. \A i \in 0..n : i \in T
    <2>1. \A i \in 1..n : i - 1 \in T => i \in T
      BY <1>11
    <2> QED
      BY <1>10, <2>1, UpTo
  <1>13. out \in [0..n -> Seq(C)]
    <2>1. \A i \in 0..n : out[i] \in Seq(C)
      BY <1>12 DEF T
    <2>2. DOMAIN out = 0..n /\ out = [i \in 0..n |-> out[i]]
      <3> HIDE DEF G
      <3> QED
        BY <1>8
    <2> QED
      BY <2>1, <2>2
  <1>14. LiveRounds(out, n, C, cs, now)
    BY <1>8, <1>9, <1>13 DEF LiveRounds
  <1> QED
    BY <1>14

\* Live has exactly those that have not run out.
LEMMA ToSetAppend ==
    ASSUME NEW C, NEW s \in Seq(C), NEW x \in C
    PROVE  ToSet(Append(s, x)) = ToSet(s) \cup {x}
  <1>1. /\ Len(s) \in Nat /\ DOMAIN s = 1..Len(s)
        /\ Append(s, x) \in Seq(C) /\ Len(Append(s, x)) = Len(s) + 1
        /\ \A i \in 1..Len(s) : Append(s, x)[i] = s[i]
        /\ Append(s, x)[Len(s) + 1] = x
    BY AppendProperties, LenProperties
  <1>2. PICK t \in Seq(C), k \in Nat : t = Append(s, x) /\ k = Len(s)
    BY <1>1
  <1>3. DOMAIN t = 1..(k + 1) /\ DOMAIN s = 1..k
    BY <1>1, <1>2, LenProperties
  <1>4. t[k + 1] = x /\ \A i \in 1..k : t[i] = s[i]
    BY <1>1, <1>2
  <1>5. ToSet(t) = ToSet(s) \cup {x}
    BY <1>3, <1>4 DEF ToSet
  <1> QED
    BY <1>2, <1>5

LEMMA LiveIsUnexpired ==
    ASSUME NEW C, NEW cs \in Seq(C), NEW now
    PROVE  /\ Live(cs, now) \in Seq(C)
           /\ ToSet(Live(cs, now)) = {x \in ToSet(cs) : x.expires > now}
  <1>1. PICK n \in Nat : n = Len(cs) /\ cs \in [1..n -> C] /\ DOMAIN cs = 1..n
    BY LenProperties
  <1>2. PICK out : /\ out \in [0..n -> Seq(C)] /\ out[0] = <<>> /\ Live(cs, now) = out[n]
                   /\ \A i \in 1..n : out[i] = IF cs[i].expires > now
                                                 THEN Append(out[i - 1], cs[i]) ELSE out[i - 1]
    <2>1. \E out : LiveRounds(out, n, C, cs, now)
      BY <1>1, LiveLoop
    <2> QED
      BY <2>1 DEF LiveRounds
  <1> DEFINE Upto(k) == {cs[i] : i \in {j \in 1..k : cs[j].expires > now}}
             T == {k \in 0..n : ToSet(out[k]) = Upto(k)}
  <1>3. 0 \in T
    <2>1. ToSet(<<>>) = {} /\ Upto(0) = {} /\ 0 \in 0..n
      BY DEF ToSet
    <2> QED
      BY <1>2, <2>1
  <1>4. ASSUME NEW k \in 1..n, k - 1 \in T PROVE k \in T
    <2>1. ToSet(out[k - 1]) = Upto(k - 1) /\ out[k - 1] \in Seq(C) /\ cs[k] \in C
      BY <1>1, <1>2, <1>4
    <2>2. CASE cs[k].expires > now
      <3>1. out[k] = Append(out[k - 1], cs[k])
        BY <1>2, <2>2
      <3>2. ToSet(out[k]) = ToSet(out[k - 1]) \cup {cs[k]}
        BY <2>1, <3>1, ToSetAppend
      <3>3. Upto(k) = Upto(k - 1) \cup {cs[k]}
        BY <2>2
      <3> QED
        BY <2>1, <3>2, <3>3
    <2>3. CASE ~(cs[k].expires > now)
      <3>1. out[k] = out[k - 1]
        BY <1>2, <2>3
      <3>2. Upto(k) = Upto(k - 1)
        BY <2>3
      <3>3. ToSet(out[k]) = Upto(k)
        <4> HIDE DEF Upto
        <4> QED
          BY <2>1, <3>1, <3>2
      <3> QED
        BY <3>3
    <2> QED
      BY <2>2, <2>3
  <1> HIDE DEF T
  <1>5. \A k \in 0..n : k \in T
    <2>1. \A k \in 1..n : k - 1 \in T => k \in T
      BY <1>4
    <2> QED
      BY <1>3, <2>1, UpTo
  <1>6. n \in 0..n /\ out[n] \in Seq(C)
    BY <1>2
  <1>7. ToSet(out[n]) = Upto(n)
    BY <1>5, <1>6 DEF T
  <1>8. Upto(n) = {x \in ToSet(cs) : x.expires > now}
    BY <1>1 DEF ToSet
  <1> QED
    BY <1>2, <1>6, <1>7, <1>8

-----------------------------------------------------------------------------
(* Routes: one candidate for each source.                                  *)

OnePer(cs) == \A i, j \in DOMAIN cs : SameSource(cs[i], cs[j]) => i = j

LEMMA SameSourceEquiv ==
    ASSUME NEW x, NEW y, NEW z, SameSource(x, y), SameSource(x, z)
    PROVE  SameSource(y, z) /\ SameSource(z, y)
  BY DEF SameSource

\* One of a new source is appended.
LEMMA AppendOnePer ==
    ASSUME NEW C, NEW s \in Seq(C), NEW x \in C, OnePer(s),
           \A y \in ToSet(s) : ~SameSource(y, x)
    PROVE  Append(s, x) \in Seq(C) /\ OnePer(Append(s, x))
  <1>1. /\ Len(s) \in Nat /\ DOMAIN s = 1..Len(s)
        /\ Append(s, x) \in Seq(C) /\ Len(Append(s, x)) = Len(s) + 1
        /\ \A i \in 1..Len(s) : Append(s, x)[i] = s[i]
        /\ Append(s, x)[Len(s) + 1] = x
    BY AppendProperties, LenProperties
  <1>2. PICK t \in Seq(C), k \in Nat : t = Append(s, x) /\ k = Len(s)
    BY <1>1
  <1>3. DOMAIN t = 1..(k + 1) /\ DOMAIN s = 1..k
    BY <1>1, <1>2, LenProperties
  <1>4. t[k + 1] = x /\ \A i \in 1..k : t[i] = s[i]
    BY <1>1, <1>2
  <1>5. \A i \in 1..k : ~SameSource(s[i], x) /\ ~SameSource(x, s[i])
    <2>1. \A i \in 1..k : ~SameSource(s[i], x)
      BY <1>3 DEF ToSet
    <2> QED
      BY <2>1 DEF SameSource
  <1>6. ASSUME NEW i \in 1..(k + 1), NEW j \in 1..(k + 1), SameSource(t[i], t[j])
        PROVE  i = j
    <2>1. CASE i = k + 1 /\ j # k + 1
      BY <1>4, <1>5, <1>6, <2>1
    <2>2. CASE i # k + 1 /\ j = k + 1
      BY <1>4, <1>5, <1>6, <2>2
    <2>3. CASE i # k + 1 /\ j # k + 1
      <3>1. i \in 1..k /\ j \in 1..k
        BY <2>3
      <3>2. SameSource(s[i], s[j])
        BY <1>4, <1>6, <3>1
      <3> QED
        BY <1>3, <3>1, <3>2 DEF OnePer
    <2> QED
      BY <2>1, <2>2, <2>3
  <1>7. OnePer(t)
    BY <1>3, <1>6 DEF OnePer
  <1> QED
    BY <1>2, <1>7

LEMMA PlacedOnePer ==
    ASSUME NEW C, NEW s \in Seq(C), NEW rc \in C, OnePer(s)
    PROVE  /\ Placed(s, rc) \in Seq(C) /\ OnePer(Placed(s, rc))
           /\ ToSet(Placed(s, rc)) \subseteq ToSet(s) \cup {rc}
  <1>1. CASE \E i \in DOMAIN s : SameSource(s[i], rc)
    BY <1>1 DEF Placed
  <1>2. CASE ~\E i \in DOMAIN s : SameSource(s[i], rc)
    <2>1. \A y \in ToSet(s) : ~SameSource(y, rc)
      BY <1>2 DEF ToSet
    <2>2. Append(s, rc) \in Seq(C) /\ OnePer(Append(s, rc))
      BY <2>1, AppendOnePer
    <2>3. ToSet(Append(s, rc)) = ToSet(s) \cup {rc}
      BY ToSetAppend
    <2> QED
      BY <1>2, <2>2, <2>3 DEF Placed
  <1> QED
    BY <1>1, <1>2

LEMMA PlacedIsSeq ==
    ASSUME NEW C, NEW s \in Seq(C), NEW rc \in C
    PROVE  Placed(s, rc) \in Seq(C)
  BY AppendProperties DEF Placed

\* Merged drops, places or keeps one candidate in each round.
MergedRounds(keep, n, C, cs, rc, now) ==
    /\ keep \in [0..n -> Seq(C)] /\ keep[0] = <<>>
    /\ Merged(cs, rc, now) = Placed(keep[n], rc)
    /\ \A i \in 1..n : keep[i] = IF cs[i].expires <= now THEN keep[i - 1]
                                 ELSE IF SameSource(cs[i], rc) THEN Placed(keep[i - 1], rc)
                                 ELSE Append(keep[i - 1], cs[i])

LEMMA MergedLoop ==
    ASSUME NEW C, NEW n \in Nat, NEW cs \in [1..n -> C], NEW rc \in C, NEW now
    PROVE  \E keep : MergedRounds(keep, n, C, cs, rc, now)
  <1> DEFINE Step(i, s) == IF cs[i].expires <= now THEN s
                           ELSE IF SameSource(cs[i], rc) THEN Placed(s, rc)
                           ELSE Append(s, cs[i])
             F == [p \in (1..n) \X Seq(C) |-> Step(p[1], p[2])]
  <1>0. ASSUME NEW i \in 1..n, NEW s \in Seq(C) PROVE Step(i, s) \in Seq(C)
    <2>1. cs[i] \in C /\ Placed(s, rc) \in Seq(C) /\ Append(s, cs[i]) \in Seq(C)
      BY PlacedIsSeq, AppendProperties
    <2> QED
      BY <2>1
  <1> HIDE DEF Step
  <1>1. F \in [(1..n) \X Seq(C) -> Seq(C)]
    BY <1>0
  <1>2. <<>> \in Seq(C)
    OBVIOUS
  <1>3. PICK acc : IsLoop(acc, n, Seq(C), <<>>, F)
    <2> HIDE DEF F
    <2> QED
      BY <1>1, <1>2, LoopExists
  <1>4. /\ acc \in [0..n -> Seq(C)] /\ acc[0] = <<>>
        /\ \A i \in 1..n : acc[i] = F[<<i, acc[i - 1]>>]
    BY <1>3 DEF IsLoop
  <1>5. ASSUME NEW i \in 1..n
        PROVE  acc[i] = Step(i, acc[i - 1])
    <2>1. acc[i - 1] \in Seq(C)
      BY <1>4
    <2>2. F[<<i, acc[i - 1]>>] = Step(i, acc[i - 1])
      BY <2>1
    <2> QED
      BY <1>4, <2>2
  <1> HIDE DEF F
  <1> DEFINE G(f, i) == IF i = 0 THEN <<>>
                        ELSE IF cs[i].expires <= now THEN f[i - 1]
                        ELSE IF SameSource(cs[i], rc) THEN Placed(f[i - 1], rc)
                        ELSE Append(f[i - 1], cs[i])
  <1>6. ASSUME NEW i \in 0..n PROVE acc[i] = G(acc, i)
    <2>1. CASE i = 0
      BY <1>4, <2>1
    <2>2. CASE i # 0
      <3>1. i \in 1..n
        BY <2>2
      <3> QED
        BY <1>5, <2>2, <3>1 DEF Step
    <2> QED
      BY <2>1, <2>2
  <1>7. Len(cs) = n
    OBVIOUS
  <1>8. PICK keep : keep = [i \in 0..n |-> G(keep, i)] /\ Merged(cs, rc, now) = Placed(keep[n], rc)
    <2>1. acc = [i \in 0..n |-> G(acc, i)]
      <3> HIDE DEF G
      <3> QED
        BY <1>4, <1>6
    <2>2. \E keep : /\ keep = [i \in 0..Len(cs) |-> G(keep, i)]
                    /\ Merged(cs, rc, now) = Placed(keep[Len(cs)], rc)
      BY <1>7, <2>1 DEF Merged
    <2> QED
      BY <1>7, <2>2
  <1>9. keep[0] = <<>> /\ \A i \in 1..n : keep[i] = Step(i, keep[i - 1])
    <2>1. \A i \in 0..n : keep[i] = G(keep, i)
      <3> HIDE DEF G
      <3> QED
        BY <1>8
    <2>2. ASSUME NEW i \in 1..n
          PROVE  keep[i] = Step(i, keep[i - 1])
      <3>1. i \in 0..n /\ i # 0
        OBVIOUS
      <3> QED
        BY <2>1, <3>1 DEF Step
    <2>3. 0 \in 0..n
      OBVIOUS
    <2> QED
      BY <2>1, <2>2, <2>3
  <1> DEFINE T == {i \in 0..n : keep[i] \in Seq(C)}
  <1>10. 0 \in T
    <2>1. keep[0] = <<>> /\ 0 \in 0..n
      BY <1>9
    <2> QED
      BY <1>2, <2>1
  <1>11. ASSUME NEW i \in 1..n, i - 1 \in T PROVE i \in T
    BY <1>0, <1>9, <1>11
  <1> HIDE DEF T
  <1>12. \A i \in 0..n : i \in T
    <2>1. \A i \in 1..n : i - 1 \in T => i \in T
      BY <1>11
    <2> QED
      BY <1>10, <2>1, UpTo
  <1>13. keep \in [0..n -> Seq(C)]
    <2>1. \A i \in 0..n : keep[i] \in Seq(C)
      BY <1>12 DEF T
    <2>2. DOMAIN keep = 0..n /\ keep = [i \in 0..n |-> keep[i]]
      <3> HIDE DEF G
      <3> QED
        BY <1>8
    <2> QED
      BY <2>1, <2>2
  <1>14. \A i \in 1..n : keep[i] = IF cs[i].expires <= now THEN keep[i - 1]
                                   ELSE IF SameSource(cs[i], rc) THEN Placed(keep[i - 1], rc)
                                   ELSE Append(keep[i - 1], cs[i])
    BY <1>9 DEF Step
  <1>15. MergedRounds(keep, n, C, cs, rc, now)
    BY <1>8, <1>9, <1>13, <1>14 DEF MergedRounds
  <1> QED
    BY <1>15

\* Merging rc into candidates of different sources leaves them so.
LEMMA MergedOnePer ==
    ASSUME NEW C, NEW cs \in Seq(C), NEW rc \in C, NEW now, OnePer(cs)
    PROVE  Merged(cs, rc, now) \in Seq(C) /\ OnePer(Merged(cs, rc, now))
  <1>1. PICK n \in Nat : n = Len(cs) /\ cs \in [1..n -> C] /\ DOMAIN cs = 1..n
    BY LenProperties
  <1>2. PICK keep :
            /\ keep \in [0..n -> Seq(C)] /\ keep[0] = <<>>
            /\ Merged(cs, rc, now) = Placed(keep[n], rc)
            /\ \A i \in 1..n : keep[i] = IF cs[i].expires <= now THEN keep[i - 1]
                                         ELSE IF SameSource(cs[i], rc) THEN Placed(keep[i - 1], rc)
                                         ELSE Append(keep[i - 1], cs[i])
    <2>1. \E keep : MergedRounds(keep, n, C, cs, rc, now)
      BY <1>1, MergedLoop
    <2> QED
      BY <2>1 DEF MergedRounds
  <1> DEFINE From(k) == {rc} \cup {cs[i] : i \in 1..k}
             T == {k \in 0..n : OnePer(keep[k]) /\ ToSet(keep[k]) \subseteq From(k)}
  <1>3. 0 \in T
    <2>1. ToSet(<<>>) = {} /\ OnePer(<<>>) /\ 0 \in 0..n
      BY DEF ToSet, OnePer
    <2> QED
      BY <1>2, <2>1
  <1>4. ASSUME NEW k \in 1..n, k - 1 \in T PROVE k \in T
    <2>1. /\ OnePer(keep[k - 1]) /\ ToSet(keep[k - 1]) \subseteq From(k - 1)
          /\ keep[k - 1] \in Seq(C) /\ cs[k] \in C
      BY <1>1, <1>2, <1>4
    <2>2. From(k - 1) \subseteq From(k) /\ rc \in From(k) /\ cs[k] \in From(k)
      OBVIOUS
    <2> SUFFICES OnePer(keep[k]) /\ ToSet(keep[k]) \subseteq From(k)
      OBVIOUS
    <2> HIDE DEF T
    <2>3. CASE cs[k].expires <= now
      <3>1. keep[k] = keep[k - 1]
        BY <1>2, <2>3
      <3> QED
        <4> HIDE DEF From
        <4> QED
          BY <2>1, <2>2, <3>1
    <2>4. CASE ~(cs[k].expires <= now) /\ SameSource(cs[k], rc)
      <3>1. keep[k] = Placed(keep[k - 1], rc)
        BY <1>2, <2>4
      <3>2. OnePer(keep[k]) /\ ToSet(keep[k]) \subseteq ToSet(keep[k - 1]) \cup {rc}
        <4>1. PICK s \in Seq(C) : s = keep[k - 1]
          BY <2>1
        <4>2. OnePer(s)
          BY <2>1, <4>1
        <4>3. OnePer(Placed(s, rc)) /\ ToSet(Placed(s, rc)) \subseteq ToSet(s) \cup {rc}
          BY <4>2, PlacedOnePer
        <4> QED
          BY <3>1, <4>1, <4>3
      <3> QED
        <4> HIDE DEF From
        <4> QED
          BY <2>1, <2>2, <3>2
    <2>5. CASE ~(cs[k].expires <= now) /\ ~SameSource(cs[k], rc)
      <3>1. keep[k] = Append(keep[k - 1], cs[k])
        BY <1>2, <2>5
      <3>2. ASSUME NEW y \in ToSet(keep[k - 1]) PROVE ~SameSource(y, cs[k])
        <4>1. y \in From(k - 1)
          BY <2>1
        <4>2. CASE y = rc
          BY <2>5, <4>2 DEF SameSource
        <4>3. CASE y # rc
          <5>1. PICK i \in 1..(k - 1) : y = cs[i]
            BY <4>1, <4>3
          <5>2. i \in DOMAIN cs /\ k \in DOMAIN cs /\ i # k
            BY <1>1
          <5> QED
            BY <5>1, <5>2 DEF OnePer
        <4> QED
          BY <4>2, <4>3
      <3>3. OnePer(keep[k])
        BY <2>1, <3>1, <3>2, AppendOnePer
      <3>4. ToSet(keep[k]) = ToSet(keep[k - 1]) \cup {cs[k]}
        BY <2>1, <3>1, ToSetAppend
      <3> QED
        <4> HIDE DEF From
        <4> QED
          BY <2>1, <2>2, <3>3, <3>4
    <2> QED
      BY <2>3, <2>4, <2>5
  <1> HIDE DEF T
  <1>5. n \in T
    <2>1. \A k \in 1..n : k - 1 \in T => k \in T
      BY <1>4
    <2>2. \A k \in 0..n : k \in T
      BY <1>3, <2>1, UpTo
    <2> QED
      BY <2>2
  <1>6. OnePer(keep[n]) /\ keep[n] \in Seq(C)
    BY <1>2, <1>5 DEF T
  <1> QED
    BY <1>2, <1>6, PlacedOnePer

-----------------------------------------------------------------------------
(* Routes: the best candidate.                                             *)

\* Pick holds on to the best so far, in each round.
PickRounds(best, m, C, cs) ==
    /\ best \in [0..m -> C] /\ best[0] = cs[1] /\ Pick(cs) = best[m]
    /\ \A i \in 1..m : best[i] = IF Beats(cs[i + 1], best[i - 1]) THEN cs[i + 1] ELSE best[i - 1]

LEMMA PickLoop ==
    ASSUME NEW C, NEW m \in Nat, NEW cs \in [1..(m + 1) -> C]
    PROVE  \E best : PickRounds(best, m, C, cs)
  <1> DEFINE Step(i, x) == IF Beats(cs[i + 1], x) THEN cs[i + 1] ELSE x
             F == [p \in (1..m) \X C |-> Step(p[1], p[2])]
  <1>0. ASSUME NEW i \in 1..m, NEW x \in C PROVE Step(i, x) \in C
    <2>1. i + 1 \in 1..(m + 1)
      OBVIOUS
    <2> QED
      BY <2>1
  <1> HIDE DEF Step
  <1>1. F \in [(1..m) \X C -> C]
    BY <1>0
  <1>2. cs[1] \in C /\ Len(cs) = m + 1 /\ (m + 1) - 1 = m
    OBVIOUS
  <1>3. PICK acc : IsLoop(acc, m, C, cs[1], F)
    <2> HIDE DEF F
    <2> QED
      BY <1>1, <1>2, LoopExists
  <1>4. /\ acc \in [0..m -> C] /\ acc[0] = cs[1]
        /\ \A i \in 1..m : acc[i] = F[<<i, acc[i - 1]>>]
    BY <1>3 DEF IsLoop
  <1>5. ASSUME NEW i \in 1..m
        PROVE  acc[i] = Step(i, acc[i - 1])
    <2>1. acc[i - 1] \in C
      BY <1>4
    <2>2. F[<<i, acc[i - 1]>>] = Step(i, acc[i - 1])
      BY <2>1
    <2> QED
      BY <1>4, <2>2
  <1> HIDE DEF F
  <1> DEFINE G(f, i) == IF i = 0 THEN cs[1]
                        ELSE IF Beats(cs[i + 1], f[i - 1]) THEN cs[i + 1] ELSE f[i - 1]
  <1>6. ASSUME NEW i \in 0..m PROVE acc[i] = G(acc, i)
    <2>1. CASE i = 0
      BY <1>4, <2>1
    <2>2. CASE i # 0
      <3>1. i \in 1..m
        BY <2>2
      <3> QED
        BY <1>5, <2>2, <3>1 DEF Step
    <2> QED
      BY <2>1, <2>2
  <1>7. Len(cs) - 1 = m
    BY <1>2
  <1>8. PICK best : best = [i \in 0..m |-> G(best, i)] /\ Pick(cs) = best[m]
    <2>1. acc = [i \in 0..m |-> G(acc, i)]
      <3> HIDE DEF G
      <3> QED
        BY <1>4, <1>6
    <2>2. \E best : best = [i \in 0..(Len(cs) - 1) |-> G(best, i)] /\ Pick(cs) = best[Len(cs) - 1]
      BY <1>7, <2>1 DEF Pick
    <2> QED
      BY <1>7, <2>2
  <1>9. best[0] = cs[1] /\ \A i \in 1..m : best[i] = Step(i, best[i - 1])
    <2>1. \A i \in 0..m : best[i] = G(best, i)
      <3> HIDE DEF G
      <3> QED
        BY <1>8
    <2>2. ASSUME NEW i \in 1..m
          PROVE  best[i] = Step(i, best[i - 1])
      <3>1. i \in 0..m /\ i # 0
        OBVIOUS
      <3> QED
        BY <2>1, <3>1 DEF Step
    <2>3. 0 \in 0..m
      OBVIOUS
    <2> QED
      BY <2>1, <2>2, <2>3
  <1> DEFINE T == {i \in 0..m : best[i] \in C}
  <1>10. 0 \in T
    BY <1>2, <1>9
  <1>11. ASSUME NEW i \in 1..m, i - 1 \in T PROVE i \in T
    BY <1>0, <1>9, <1>11
  <1> HIDE DEF T
  <1>12. \A i \in 0..m : i \in T
    <2>1. \A i \in 1..m : i - 1 \in T => i \in T
      BY <1>11
    <2> QED
      BY <1>10, <2>1, UpTo
  <1>13. best \in [0..m -> C]
    <2>1. \A i \in 0..m : best[i] \in C
      BY <1>12 DEF T
    <2>2. DOMAIN best = 0..m /\ best = [i \in 0..m |-> best[i]]
      <3> HIDE DEF G
      <3> QED
        BY <1>8
    <2> QED
      BY <2>1, <2>2
  <1>14. \A i \in 1..m : best[i] = IF Beats(cs[i + 1], best[i - 1]) THEN cs[i + 1] ELSE best[i - 1]
    BY <1>9 DEF Step
  <1>15. PickRounds(best, m, C, cs)
    BY <1>8, <1>9, <1>13, <1>14 DEF PickRounds
  <1> QED
    BY <1>15

\* A candidate that can be compared.
Scored(x) == routeScore(x) \in Int /\ x.updated \in Int

LEMMA BeatsOrder ==
    ASSUME NEW x, NEW y, NEW z, Scored(x), Scored(y), Scored(z), ~Beats(x, y), Beats(z, y)
    PROVE  ~Beats(x, z) /\ ~Beats(z, z)
  <1>1. PICK a \in Int, b \in Int, c \in Int : routeScore(x) = a /\ routeScore(y) = b /\ routeScore(z) = c
    BY DEF Scored
  <1> QED
    BY <1>1 DEF Beats, Scored

LEMMA BeatsNotItself ==
    ASSUME NEW x, Scored(x)
    PROVE  ~Beats(x, x)
  <1>1. PICK a \in Int : routeScore(x) = a
    BY DEF Scored
  <1> QED
    BY <1>1 DEF Beats, Scored

\* Pick returns one of the candidates, and none of them beats it.
LEMMA PickIsBest ==
    ASSUME NEW C, NEW cs \in Seq(C), cs # <<>>, \A x \in C : Scored(x)
    PROVE  Pick(cs) \in ToSet(cs) /\ \A x \in ToSet(cs) : ~Beats(x, Pick(cs))
  <1>1. PICK m \in Nat : Len(cs) = m + 1 /\ cs \in [1..(m + 1) -> C] /\ DOMAIN cs = 1..(m + 1)
    <2>1. Len(cs) \in Nat /\ Len(cs) # 0 /\ cs \in [1..Len(cs) -> C] /\ DOMAIN cs = 1..Len(cs)
      BY LenProperties, EmptySeq
    <2>2. Len(cs) - 1 \in Nat /\ Len(cs) = (Len(cs) - 1) + 1
      BY <2>1
    <2> QED
      BY <2>1, <2>2
  <1>2. PICK best :
            /\ best \in [0..m -> C] /\ best[0] = cs[1] /\ Pick(cs) = best[m]
            /\ \A i \in 1..m : best[i] = IF Beats(cs[i + 1], best[i - 1]) THEN cs[i + 1] ELSE best[i - 1]
    <2>1. \E best : PickRounds(best, m, C, cs)
      BY <1>1, PickLoop
    <2> QED
      BY <2>1 DEF PickRounds
  <1> DEFINE T == {k \in 0..m : /\ \E i \in 1..(k + 1) : best[k] = cs[i]
                                /\ \A i \in 1..(k + 1) : ~Beats(cs[i], best[k])}
  <1>3. 0 \in T
    <2>1. 0 \in 0..m /\ 1..(0 + 1) = {1} /\ cs[1] \in C
      BY <1>1
    <2>2. ~Beats(cs[1], cs[1])
      BY <2>1, BeatsNotItself
    <2> QED
      BY <1>2, <2>1, <2>2
  <1>4. ASSUME NEW k \in 1..m, k - 1 \in T PROVE k \in T
    <2>1. PICK j \in 1..k : best[k - 1] = cs[j]
      BY <1>4
    <2>2. \A i \in 1..k : ~Beats(cs[i], best[k - 1])
      BY <1>4
    <2> HIDE DEF T
    <2>3. /\ \A i \in 1..(k + 1) : cs[i] \in C
          /\ best[k - 1] \in C /\ k + 1 \in 1..(k + 1)
      BY <1>1, <1>2
    <2>4. CASE Beats(cs[k + 1], best[k - 1])
      <3>1. best[k] = cs[k + 1]
        BY <1>2, <2>4
      <3>2. ASSUME NEW i \in 1..(k + 1) PROVE ~Beats(cs[i], cs[k + 1])
        <4>1. Scored(cs[i]) /\ Scored(cs[k + 1]) /\ Scored(best[k - 1])
          BY <2>3
        <4>2. CASE i = k + 1
          BY <4>1, <4>2, BeatsNotItself
        <4>3. CASE i # k + 1
          <5>1. i \in 1..k
            BY <4>3
          <5>2. ~Beats(cs[i], best[k - 1])
            BY <2>2, <5>1
          <5> QED
            BY <2>4, <4>1, <5>2, BeatsOrder
        <4> QED
          BY <4>2, <4>3
      <3>3. /\ \E i \in 1..(k + 1) : best[k] = cs[i]
            /\ \A i \in 1..(k + 1) : ~Beats(cs[i], best[k])
        BY <2>3, <3>1, <3>2
      <3> QED
        BY <3>3 DEF T
    <2>5. CASE ~Beats(cs[k + 1], best[k - 1])
      <3>1. best[k] = best[k - 1]
        BY <1>2, <2>5
      <3>2. ASSUME NEW i \in 1..(k + 1) PROVE ~Beats(cs[i], best[k - 1])
        <4>1. i = k + 1 \/ i \in 1..k
          OBVIOUS
        <4> QED
          BY <2>2, <2>5, <4>1
      <3>3. j \in 1..(k + 1)
        OBVIOUS
      <3>4. /\ \E i \in 1..(k + 1) : best[k] = cs[i]
            /\ \A i \in 1..(k + 1) : ~Beats(cs[i], best[k])
        BY <2>1, <3>1, <3>2, <3>3
      <3> QED
        BY <3>4 DEF T
    <2> QED
      BY <2>4, <2>5
  <1> HIDE DEF T
  <1>5. m \in T
    <2>1. \A k \in 1..m : k - 1 \in T => k \in T
      BY <1>4
    <2>2. \A k \in 0..m : k \in T
      BY <1>3, <2>1, UpTo
    <2> QED
      BY <2>2
  <1>6. /\ \E i \in 1..(m + 1) : best[m] = cs[i]
        /\ \A i \in 1..(m + 1) : ~Beats(cs[i], best[m])
    BY <1>5 DEF T
  <1> QED
    BY <1>1, <1>2, <1>6 DEF ToSet

-----------------------------------------------------------------------------
(* Routes: what is kept of candidates.                                     *)

Cand == [from : Neighbours, source : Sources, metric : Metrics, len : PathLens,
         health : Healths \cup {"up", "down"}, updated : Nat, expires : Nat]

LEMMA CandScored == \A x \in Cand : Scored(x)
  <1> SUFFICES ASSUME NEW x \in Cand PROVE Scored(x)
    OBVIOUS
  <1>1. PICK d \in Nat \ {0} : d = (IF x.metric = 0 THEN 1 ELSE x.metric) + x.len
    <2>1. x.metric \in Nat /\ x.len \in Nat \ {0}
      BY RoutesAssumption DEF Cand
    <2> QED
      BY <2>1
  <1>2. 60000 \div d \in Int
    OBVIOUS
  <1>3. (CASE x.health = "up" -> 600 [] x.health = "unknown" -> 300 [] OTHER -> 0) \in Int
    OBVIOUS
  <1>4. routeScore(x) \in Int
    BY <1>1, <1>2, <1>3 DEF routeScore
  <1> QED
    BY <1>4 DEF Scored, Cand

\* What a caller has set out to do.
CallOK(r) ==
    /\ r.op = "upsert" => r.target \in RouteTargets /\ Candidate(r) \in Cand
    /\ r.op = "confirm" => /\ r.target \in RouteTargets /\ {r.now, r.ttl} \subseteq Nat
                           /\ r.health \in {"up", "down"}
    /\ r.op = "best" => r.target \in RouteTargets

\* Candidates are well formed, their sources differ, and so will the ones be
\* that callers are about to write.
RouteInv ==
    /\ clock \in Nat
    /\ cands \in [RouteTargets -> Seq(Cand)]
    /\ \A t \in RouteTargets : OnePer(cands[t])
    /\ DOMAIN caller = Callers
    /\ \A c \in Callers : CallOK(caller[c])

LEMMA RouteInit == RsInit => RouteInv
  <1> SUFFICES ASSUME RsInit PROVE RouteInv
    OBVIOUS
  <1>1. clock \in Nat /\ cands = [t \in RouteTargets |-> <<>>]
    BY DEF RsInit
  <1>2. <<>> \in Seq(Cand) /\ OnePer(<<>>)
    BY DEF OnePer
  <1>3. DOMAIN caller = Callers /\ \A c \in Callers : CallOK(caller[c])
    BY DEF RsInit, Resting, CallOK
  <1>4. cands \in [RouteTargets -> Seq(Cand)]
    BY <1>1, <1>2
  <1>5. \A t \in RouteTargets : OnePer(cands[t])
    BY <1>1, <1>2
  <1> QED
    BY <1>1, <1>3, <1>4, <1>5 DEF RouteInv

\* Only one caller moves, to a call that is well formed.
LEMMA CallMoves ==
    ASSUME RouteInv, NEW c \in Callers, NEW r, CallOK(r),
           caller' = [caller EXCEPT ![c] = r], UNCHANGED <<cands, clock>>
    PROVE  RouteInv'
  <1>1. DOMAIN caller' = Callers /\ \A d \in Callers : CallOK(caller'[d])
    BY DEF RouteInv
  <1> QED
    BY <1>1 DEF RouteInv, CallOK

\* Confirmation changes no source.
LEMMA ConfirmKeeps ==
    ASSUME NEW s \in Seq(Cand), OnePer(s), NEW r, r.health \in {"up", "down"},
           r.now \in Nat, r.ttl \in Nat
    PROVE  /\ [i \in DOMAIN s |-> Confirmed(s[i], r)] \in Seq(Cand)
           /\ OnePer([i \in DOMAIN s |-> Confirmed(s[i], r)])
  <1>1. PICK n \in Nat : n = Len(s) /\ DOMAIN s = 1..n /\ s \in [1..n -> Cand]
    BY LenProperties
  <1>2. ASSUME NEW x \in Cand
        PROVE  Confirmed(x, r) \in Cand /\ Confirmed(x, r).from = x.from /\ Confirmed(x, r).source = x.source
    <2>1. CASE ~SameSource(x, r)
      BY <2>1 DEF Confirmed
    <2>2. CASE SameSource(x, r)
      <3>1. PICK e \in Nat : e = IF r.ttl > 0 THEN r.now + r.ttl ELSE x.expires
        BY DEF Cand
      <3>2. PICK h \in {"up", "down"}, u \in Nat : h = r.health /\ u = r.now
        OBVIOUS
      <3>3. Confirmed(x, r) = [x EXCEPT !.health = h, !.updated = u, !.expires = e]
        BY <2>2, <3>1, <3>2 DEF Confirmed
      <3>4. /\ [x EXCEPT !.health = h, !.updated = u, !.expires = e] \in Cand
            /\ [x EXCEPT !.health = h, !.updated = u, !.expires = e].from = x.from
            /\ [x EXCEPT !.health = h, !.updated = u, !.expires = e].source = x.source
        BY DEF Cand
      <3> QED
        BY <3>3, <3>4
    <2> QED
      BY <2>1, <2>2
  <1> DEFINE t == [i \in DOMAIN s |-> Confirmed(s[i], r)]
  <1>3. /\ DOMAIN t = 1..n /\ t \in [1..n -> Cand]
        /\ \A i \in 1..n : t[i].from = s[i].from /\ t[i].source = s[i].source
    BY <1>1, <1>2
  <1> HIDE DEF t
  <1>4. t \in Seq(Cand)
    BY <1>3
  <1>5. OnePer(t)
    BY <1>1, <1>3 DEF OnePer, SameSource
  <1> QED
    BY <1>4, <1>5 DEF t

LEMMA UpsertKeeps ==
    ASSUME RouteInv, NEW c \in Callers, UpsertRouteCandidate(c)
    PROVE  RouteInv'
  <1>1. PICK r : r = caller[c]
    OBVIOUS
  <1>2. /\ r.op = "upsert" /\ r.target \in RouteTargets /\ Candidate(r) \in Cand
    BY <1>1 DEF RouteInv, CallOK, UpsertRouteCandidate
  <1>3. PICK rc \in Cand : rc = Candidate(r)
    BY <1>2
  <1>4. PICK t \in RouteTargets : t = r.target
    BY <1>2
  <1>5. PICK s \in Seq(Cand) : s = cands[t] /\ OnePer(s)
    BY DEF RouteInv
  <1>6. Merged(s, rc, r.now) \in Seq(Cand) /\ OnePer(Merged(s, rc, r.now))
    BY <1>5, MergedOnePer
  <1>7. cands' = cands \/ cands' = [cands EXCEPT ![t] = Merged(s, rc, r.now)]
    BY <1>1, <1>3, <1>4, <1>5 DEF UpsertRouteCandidate
  <1>8. cands \in [RouteTargets -> Seq(Cand)] /\ \A u \in RouteTargets : OnePer(cands[u])
    BY DEF RouteInv
  <1>9. cands' \in [RouteTargets -> Seq(Cand)] /\ \A u \in RouteTargets : OnePer(cands'[u])
    BY <1>6, <1>7, <1>8
  <1>10. DOMAIN caller' = Callers /\ \A d \in Callers : CallOK(caller'[d])
    <2>1. caller' = [caller EXCEPT ![c] = Resting]
      BY DEF UpsertRouteCandidate, Returns
    <2>2. CallOK(Resting)
      BY DEF CallOK, Resting
    <2> QED
      BY <2>1, <2>2 DEF RouteInv
  <1>11. clock' \in Nat
    BY DEF RouteInv, UpsertRouteCandidate
  <1> QED
    BY <1>9, <1>10, <1>11 DEF RouteInv, CallOK

LEMMA ConfirmRouteKeeps ==
    ASSUME RouteInv, NEW c \in Callers, ConfirmRoute(c)
    PROVE  RouteInv'
  <1>1. PICK r : r = caller[c]
    OBVIOUS
  <1>2. r.target \in RouteTargets /\ r.now \in Nat /\ r.ttl \in Nat /\ r.health \in {"up", "down"}
    BY <1>1 DEF RouteInv, CallOK, ConfirmRoute
  <1>3. PICK t \in RouteTargets : t = r.target
    BY <1>2
  <1>4. PICK s \in Seq(Cand) : s = cands[t] /\ OnePer(s)
    BY DEF RouteInv
  <1> DEFINE u == [i \in DOMAIN s |-> Confirmed(s[i], r)]
  <1>5. u \in Seq(Cand) /\ OnePer(u)
    BY <1>2, <1>4, ConfirmKeeps
  <1>6. cands' = [cands EXCEPT ![t] = u]
    BY <1>1, <1>3, <1>4 DEF ConfirmRoute
  <1>7. cands \in [RouteTargets -> Seq(Cand)] /\ \A v \in RouteTargets : OnePer(cands[v])
    BY DEF RouteInv
  <1> HIDE DEF u
  <1>8. cands' \in [RouteTargets -> Seq(Cand)] /\ \A v \in RouteTargets : OnePer(cands'[v])
    BY <1>5, <1>6, <1>7
  <1>9. DOMAIN caller' = Callers /\ \A d \in Callers : CallOK(caller'[d])
    <2>1. caller' = [caller EXCEPT ![c] = Resting]
      BY DEF ConfirmRoute, Returns
    <2>2. CallOK(Resting)
      BY DEF CallOK, Resting
    <2> QED
      BY <2>1, <2>2 DEF RouteInv
  <1>10. clock' \in Nat
    BY DEF RouteInv, ConfirmRoute
  <1> QED
    BY <1>8, <1>9, <1>10 DEF RouteInv, CallOK

\* The calls that begin are well formed.
LEMMA BeginKeeps ==
    ASSUME RouteInv, NEW c \in Callers,
           BeginLearn(c) \/ BeginUpsert(c) \/ BeginConfirm(c) \/ BeginBest(c) \/ BeginReply(c)
    PROVE  RouteInv'
  <1>1. clock \in Nat
    BY DEF RouteInv
  <1>2. CASE BeginLearn(c)
    <2>1. PICK r : r.op = "learn" /\ Begin(c, r)
      BY <1>2 DEF BeginLearn
    <2> QED
      BY <2>1, CallMoves DEF Begin, CallOK
  <1>3. CASE BeginUpsert(c)
    <2>1. PICK t \in RouteTargets, n \in Neighbours, s \in Sources, m \in Metrics, l \in PathLens,
               h \in Healths, d \in TTLs :
             Begin(c, [op |-> "upsert", target |-> t, now |-> clock,
                       from |-> n, source |-> s, metric |-> m, len |-> l, health |-> h, ttl |-> d])
      BY <1>3 DEF BeginUpsert
    <2>2. PICK r : r = [op |-> "upsert", target |-> t, now |-> clock,
                        from |-> n, source |-> s, metric |-> m, len |-> l, health |-> h, ttl |-> d]
      OBVIOUS
    <2>3. PICK e \in Nat : e = clock + (IF d = 0 THEN DefaultTTL ELSE d)
      BY <1>1, RoutesAssumption
    <2>4. Candidate(r) = [from |-> n, source |-> s, metric |-> m, len |-> l,
                          health |-> h, updated |-> clock, expires |-> e]
      BY <2>2, <2>3 DEF Candidate
    <2>5. Candidate(r) \in Cand
      BY <1>1, <2>4 DEF Cand
    <2>6. CallOK(r)
      BY <2>2, <2>5 DEF CallOK
    <2>7. caller' = [caller EXCEPT ![c] = r] /\ UNCHANGED <<cands, clock>>
      BY <2>1, <2>2 DEF Begin
    <2> QED
      BY <2>6, <2>7, CallMoves
  <1>4. CASE BeginConfirm(c)
    <2>1. PICK t \in RouteTargets, n \in Neighbours, s \in Sources, h \in {"up", "down"}, d \in TTLs :
             Begin(c, [op |-> "confirm", target |-> t, now |-> clock, from |-> n, source |-> s,
                       health |-> h, ttl |-> d])
      BY <1>4 DEF BeginConfirm
    <2>2. PICK r : r = [op |-> "confirm", target |-> t, now |-> clock, from |-> n, source |-> s,
                        health |-> h, ttl |-> d]
      OBVIOUS
    <2>3. CallOK(r)
      BY <1>1, <2>2, RoutesAssumption DEF CallOK
    <2>4. caller' = [caller EXCEPT ![c] = r] /\ UNCHANGED <<cands, clock>>
      BY <2>1, <2>2 DEF Begin
    <2> QED
      BY <2>3, <2>4, CallMoves
  <1>5. CASE BeginBest(c)
    <2>1. PICK r : r.op = "best" /\ r.target \in RouteTargets /\ Begin(c, r)
      BY <1>5 DEF BeginBest
    <2> QED
      BY <2>1, CallMoves DEF Begin, CallOK
  <1>6. CASE BeginReply(c)
    <2>1. PICK r : r.op = "reply" /\ Begin(c, r)
      BY <1>6 DEF BeginReply
    <2> QED
      BY <2>1, CallMoves DEF Begin, CallOK
  <1> QED
    BY <1>2, <1>3, <1>4, <1>5, <1>6

\* Those that only read leave the candidates alone.
LEMMA ReadersKeep ==
    ASSUME RouteInv, NEW c \in Callers,
           LearnPath(c) \/ BestRouteCandidate(c) \/ ReplyTarget(c) \/ Use(c)
    PROVE  RouteInv'
  <1>1. CallOK(Resting)
    BY DEF CallOK, Resting
  <1>2. CASE LearnPath(c)
    BY <1>1, <1>2, CallMoves DEF LearnPath, Returns
  <1>3. CASE BestRouteCandidate(c)
    <2> DEFINE live == GetRouteCandidates(c, caller[c].target)
               r == [op |-> "chosen", best |-> IF live = <<>> THEN NoPath ELSE Pick(live)]
    <2>1. r.op = "chosen" /\ caller' = [caller EXCEPT ![c] = r]
      BY <1>3 DEF BestRouteCandidate
    <2> HIDE DEF r
    <2>2. CallOK(r) /\ UNCHANGED <<cands, clock>>
      BY <1>3, <2>1 DEF CallOK, BestRouteCandidate
    <2> QED
      BY <2>1, <2>2, CallMoves
  <1>4. CASE ReplyTarget(c)
    <2>1. PICK t \in caller[c].todo :
             caller' = [caller EXCEPT ![c] =
                [op |-> "reply", todo |-> caller[c].todo \ {t}, now |-> clock,
                 rows |-> caller[c].rows \cup
                          {RouteCandidatePB(t, x) : x \in ToSet(Live(cands[t], clock))}]]
      BY <1>4 DEF ReplyTarget
    <2> DEFINE r == [op |-> "reply", todo |-> caller[c].todo \ {t}, now |-> clock,
                     rows |-> caller[c].rows \cup
                              {RouteCandidatePB(t, x) : x \in ToSet(Live(cands[t], clock))}]
    <2>2. CallOK(r) /\ UNCHANGED <<cands, clock>>
      BY <1>4 DEF CallOK, ReplyTarget
    <2>3. caller' = [caller EXCEPT ![c] = r]
      BY <2>1
    <2> HIDE DEF r
    <2> QED
      BY <2>2, <2>3, CallMoves
  <1>5. CASE Use(c)
    BY <1>1, <1>5, CallMoves DEF Use, Returns
  <1> QED
    BY <1>2, <1>3, <1>4, <1>5

LEMMA RouteNext == RouteInv /\ [RsNext]_routeVars => RouteInv'
  <1> SUFFICES ASSUME RouteInv, [RsNext]_routeVars PROVE RouteInv'
    OBVIOUS
  <1>1. CASE Tick
    <2>1. clock' \in Nat
      BY <1>1 DEF Tick, RouteInv
    <2> QED
      BY <1>1, <2>1 DEF Tick, RouteInv, CallOK
  <1>2. ASSUME NEW c \in Callers, UpsertRouteCandidate(c) PROVE RouteInv'
    BY <1>2, UpsertKeeps
  <1>3. ASSUME NEW c \in Callers, ConfirmRoute(c) PROVE RouteInv'
    BY <1>3, ConfirmRouteKeeps
  <1>4. ASSUME NEW c \in Callers,
               BeginLearn(c) \/ BeginUpsert(c) \/ BeginConfirm(c) \/ BeginBest(c) \/ BeginReply(c)
        PROVE  RouteInv'
    BY <1>4, BeginKeeps
  <1>5. ASSUME NEW c \in Callers,
               LearnPath(c) \/ BestRouteCandidate(c) \/ ReplyTarget(c) \/ Use(c)
        PROVE  RouteInv'
    BY <1>5, ReadersKeep
  <1>6. CASE UNCHANGED routeVars
    BY <1>6 DEF routeVars, RouteInv, CallOK
  <1> QED
    BY <1>1, <1>2, <1>3, <1>4, <1>5, <1>6 DEF RsNext

\* The candidates that the peer store keeps are well formed and their sources
\* differ, and so is what callers of the store are about to write.
THEOREM RoutesKept == RsSpec => []RouteInv
  <1> QED
    BY RouteInit, RouteNext, PTL DEF RsSpec

\* At every moment the candidates that the peer store keeps for a target come
\* from different sources, however the calls of UpsertRouteCandidate and
\* ConfirmRoute interleave and with whatever clocks.
THEOREM OneCandidate == RsSpec => []OneCandidatePerSource
  <1>1. RouteInv => OneCandidatePerSource
    BY DEF RouteInv, OneCandidatePerSource, OnePer
  <1> QED
    BY <1>1, RoutesKept, PTL

\* BestRouteCandidate's answer.
LEMMA AnswerIsBest ==
    ASSUME RouteInv, NEW c \in Callers, BestRouteCandidate(c)
    PROVE  \E L, best :
              /\ L = {x \in ToSet(cands[caller[c].target]) : x.expires > caller[c].now}
              /\ best = caller'[c].best
              /\ IF L = {} THEN best = NoPath ELSE best \in L /\ \A x \in L : ~Beats(x, best)
  <1>1. PICK t \in RouteTargets, s \in Seq(Cand) : t = caller[c].target /\ s = cands[t]
    BY DEF RouteInv, CallOK, BestRouteCandidate
  <1>2. PICK now : now = caller[c].now
    OBVIOUS
  <1>3. PICK live : live = Live(s, now)
    OBVIOUS
  <1>4. PICK L : L = {x \in ToSet(s) : x.expires > now}
    OBVIOUS
  <1>5. live \in Seq(Cand) /\ ToSet(live) = L
    BY <1>3, <1>4, LiveIsUnexpired
  <1>6. PICK best : best = IF live = <<>> THEN NoPath ELSE Pick(live)
    OBVIOUS
  <1>7. caller'[c].best = best
    BY <1>1, <1>2, <1>3, <1>6 DEF BestRouteCandidate, GetRouteCandidates, RouteInv
  <1>8. IF L = {} THEN best = NoPath ELSE best \in L /\ \A x \in L : ~Beats(x, best)
    <2>1. CASE live = <<>>
      <3>1. L = {}
        BY <1>5, <2>1 DEF ToSet
      <3> QED
        BY <1>6, <2>1, <3>1
    <2>2. CASE live # <<>>
      <3>1. Pick(live) \in ToSet(live) /\ \A x \in ToSet(live) : ~Beats(x, Pick(live))
        BY <1>5, <2>2, PickIsBest, CandScored
      <3> QED
        BY <1>5, <1>6, <2>2, <3>1
    <2> QED
      BY <2>1, <2>2
  <1> QED
    BY <1>1, <1>2, <1>4, <1>7, <1>8

\* No other step gives an answer.
LEMMA OnlyBestAnswers ==
    ASSUME RouteInv, RsNext, NEW c \in Callers, caller[c].op = "best", caller'[c].op = "chosen"
    PROVE  BestRouteCandidate(c)
  <1> DEFINE Moves(d, r) == caller' = [caller EXCEPT ![d] = r]
  <1>1. DOMAIN caller = Callers
    BY DEF RouteInv
  <1>2. ASSUME NEW d \in Callers, NEW r, Moves(d, r) PROVE d = c /\ r.op = "chosen"
    BY <1>1, <1>2
  <1>3. Resting.op = "none"
    BY DEF Resting
  <1>4. ~Tick
    BY DEF Tick
  <1>5. PICK d \in Callers :
           \/ BeginLearn(d) \/ LearnPath(d) \/ BeginUpsert(d) \/ UpsertRouteCandidate(d)
           \/ BeginConfirm(d) \/ ConfirmRoute(d) \/ BeginBest(d) \/ BestRouteCandidate(d)
           \/ BeginReply(d) \/ ReplyTarget(d) \/ Use(d)
    BY <1>4 DEF RsNext
  <1>6. ASSUME NEW r, Begin(d, r) PROVE FALSE
    <2>1. Moves(d, r) /\ caller[d] = Resting
      BY <1>6 DEF Begin
    <2> QED
      BY <1>2, <1>3, <2>1
  <1>7. ~BeginLearn(d) /\ ~BeginUpsert(d) /\ ~BeginConfirm(d) /\ ~BeginBest(d) /\ ~BeginReply(d)
    BY <1>6 DEF BeginLearn, BeginUpsert, BeginConfirm, BeginBest, BeginReply
  <1>8. ~Returns(d)
    BY <1>2, <1>3 DEF Returns
  <1>9. ~LearnPath(d) /\ ~UpsertRouteCandidate(d) /\ ~ConfirmRoute(d) /\ ~Use(d)
    BY <1>8 DEF LearnPath, UpsertRouteCandidate, ConfirmRoute, Use
  <1>10. ~ReplyTarget(d)
    <2>1. SUFFICES ASSUME ReplyTarget(d) PROVE FALSE
      OBVIOUS
    <2>2. caller[d].op = "reply" /\ \E r : Moves(d, r)
      BY <2>1 DEF ReplyTarget
    <2> QED
      BY <1>2, <2>2
  <1>11. BestRouteCandidate(d)
    BY <1>5, <1>7, <1>9, <1>10
  <1>12. \E r : Moves(d, r)
    BY <1>11 DEF BestRouteCandidate
  <1>13. d = c
    BY <1>2, <1>12
  <1> QED
    BY <1>11, <1>13

\* BestRouteCandidate answers with one that had not run out at the time it had
\* read, than which no other such is better, or with none if there is none:
\* whatever other callers do to the candidates in between.
THEOREM BestChosen == RsSpec => BestIsBest
  <1> DEFINE Step == \A c \in Callers : caller[c].op = "best" /\ caller'[c].op = "chosen" =>
                       LET live == {x \in ToSet(cands[caller[c].target]) : x.expires > caller[c].now}
                           best == caller'[c].best
                       IN  IF live = {} THEN best = NoPath
                           ELSE best \in live /\ \A x \in live : ~Beats(x, best)
  <1>1. RouteInv /\ RsNext => Step
    <2> SUFFICES ASSUME RouteInv, RsNext, NEW c \in Callers,
                        caller[c].op = "best", caller'[c].op = "chosen"
                 PROVE  LET live == {x \in ToSet(cands[caller[c].target]) : x.expires > caller[c].now}
                            best == caller'[c].best
                        IN  IF live = {} THEN best = NoPath
                            ELSE best \in live /\ \A x \in live : ~Beats(x, best)
      OBVIOUS
    <2>1. BestRouteCandidate(c)
      BY OnlyBestAnswers
    <2> QED
      BY <2>1, AnswerIsBest
  <1>2. RouteInv /\ [RsNext]_routeVars => [Step]_routeVars
    BY <1>1
  <1>3. RsSpec => [][Step]_routeVars
    BY <1>2, RoutesKept, PTL DEF RsSpec
  <1> QED
    BY <1>3, PTL DEF BestIsBest
=============================================================================
