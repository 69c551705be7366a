------------------------------- MODULE Router -------------------------------
(***************************************************************************)
(* The router (pkg/router/router.go) over the peer store's records and     *)
(* index (pkg/peers/store.go) and the sessions of the transport manager,   *)
(* all of which may change while a call of SendBytesToPeer is under way:   *)
(* the graph is read record by record, each under a lock of its own, and   *)
(* so is the weight of each link of this node.                             *)
(*                                                                         *)
(* Weights are counted in halves, as the base costs are multiples of 0.5.  *)
(* The candidates the router asks for first are left out: the store adds   *)
(* them with memkv's Update, which does nothing for a key that is not      *)
(* there, so there never is one (NodeLinks shows the same of the node's    *)
(* own record, which users of the package have to write themselves).       *)
(*                                                                         *)
(* NodeLinks cuts the operations of the store where memkv and the index    *)
(* have different locks.  Here a record and its index entry change in one  *)
(* step: a call that lists the peers between the two behaves like one that *)
(* lists them before the record is written, or reads it after it is gone.  *)
(***************************************************************************)
EXTENDS Integers, Sequences, FiniteSets, SequencesExt

CONSTANTS
    Peers,      \* the nodes
    Local,      \* this one
    Kinds,      \* transports of its sessions
    Extras,     \* what round trips and losses add to the cost of a session
    Targets,    \* where messages are sent to
    MayLink,    \* bound: peer -> the peers it is ever connected to; one
                \* that is connected to none has no record
    MaxChanges, \* bound: changes of store and sessions
    NoPeer, NoSession

ASSUME RouterAssumption ==
    /\ IsFiniteSet(Peers) /\ Local \in Peers /\ NoPeer \notin Peers
    /\ Extras \subseteq Nat
    /\ Targets \subseteq Peers
    /\ MayLink \in [Peers -> SUBSET Peers]
    /\ NoSession \notin Nat

VARIABLES
    known,      \* the peers with a record
    direct,     \* peer -> ConnectedDirectIDs of its record
    listed,     \* peerIndex
    cost,       \* peer -> cost of the session with it, or NoSession
    sweep,      \* what DeletePeer has still to remove: <<from, to>>
    changes,    \* changes so far
    call,       \* SendBytesToPeer: its program counter and locals
    seen        \* history: adjacencies that were recorded during the call

store  == <<known, direct, listed, cost, sweep, changes>>
rtvars == <<store, call, seen>>

-----------------------------------------------------------------------------
(* Costs.                                                                  *)

linkBaseCost(k) ==
    CASE k = "quic"                     -> 2
      [] k = "tcp"                      -> 4
      [] k = "holepunch"                -> 6
      [] k \in {"quicrelay", "tcprelay"} -> 8
      [] k = "udp"                      -> 10
      [] k \in {"winpipe", "mem"}       -> 1
      [] OTHER                          -> 20

SessionCosts == {linkBaseCost(k) + x : k \in Kinds, x \in Extras}

\* A link of this node costs what its session does, any other one 100.
edgeWeight(from, to) == IF from = Local /\ cost[to] # NoSession THEN cost[to] ELSE 200

-----------------------------------------------------------------------------
(* State.                                                                  *)

\* ids: records still to be read; pend: links of this node still to be
\* weighed; links: what was read, with weights; dist and prev of the peers in
\* reached; pq: the heap; visited; path: what was traced back so far.
Call == [pc      : {"idle", "build", "weigh", "search", "trace", "done"},
         goal    : Peers \cup {NoPeer},
         ids     : SUBSET Peers,
         pend    : SUBSET Peers,
         links   : SUBSET (Peers \X Peers),
         weight  : [Peers \X Peers -> Nat],
         reached : SUBSET Peers,
         dist    : [Peers -> Nat],
         prev    : [Peers -> Peers \cup {NoPeer}],
         pq      : SUBSET (Peers \X Nat),
         visited : SUBSET Peers,
         path    : Seq(Peers)]

NoCall == [pc |-> "idle", goal |-> NoPeer, ids |-> {}, pend |-> {}, links |-> {},
           weight |-> [e \in Peers \X Peers |-> 0], reached |-> {}, dist |-> [p \in Peers |-> 0],
           prev |-> [p \in Peers |-> NoPeer], pq |-> {}, visited |-> {}, path |-> <<>>]

RtInit ==
    /\ known = {}
    /\ direct = [p \in Peers |-> {}]
    /\ listed = {}
    /\ cost = [p \in Peers |-> NoSession]
    /\ sweep = {}
    /\ changes = 0
    /\ call = NoCall
    /\ seen = {}

Recorded == {e \in Peers \X Peers : e[1] \in known /\ e[2] \in direct[e[1]]}

-----------------------------------------------------------------------------
(* Changes of the store and the sessions.                                  *)

Changes ==
    /\ changes < MaxChanges
    /\ changes' = changes + 1
    /\ seen' = IF call.pc = "idle" THEN {} ELSE seen \cup Recorded'
    /\ UNCHANGED call

\* A record is written as a whole.
Upsert(p) ==
    /\ MayLink[p] # {}
    /\ known' = known \cup {p}
    /\ \E to \in SUBSET MayLink[p] : direct' = [direct EXCEPT ![p] = to]
    /\ listed' = listed \cup {p}
    /\ UNCHANGED <<cost, sweep>>
    /\ Changes

AddConnectedDirect(p, q) ==
    /\ p # q /\ q \in MayLink[p]
    /\ direct' = IF p \in known THEN [direct EXCEPT ![p] = @ \cup {q}] ELSE direct
    /\ listed' = listed \cup {p, q}
    /\ UNCHANGED <<known, cost, sweep>>
    /\ Changes

RemoveConnectedDirect(p, q) ==
    /\ q \in direct[p]
    /\ direct' = [direct EXCEPT ![p] = @ \ {q}]
    /\ UNCHANGED <<known, listed, cost, sweep>>
    /\ Changes

\* DeletePeer: the record and the index ...
DeletePeer(p) ==
    /\ p \in known
    /\ known' = known \ {p}
    /\ direct' = [direct EXCEPT ![p] = {}]
    /\ listed' = listed \ {p}
    /\ sweep' = sweep \cup {<<q, p>> : q \in listed \ {p}}
    /\ UNCHANGED cost
    /\ Changes

\* ... and then the adjacencies of the others, one by one.
Sweep(p, q) ==
    /\ <<p, q>> \in sweep
    /\ sweep' = sweep \ {<<p, q>>}
    /\ direct' = [direct EXCEPT ![p] = @ \ {q}]
    /\ UNCHANGED <<known, listed, cost, changes, call, seen>>

\* A session is made, gets better or worse, or is lost.
SessionChanges(p) ==
    /\ p \in MayLink[Local]
    /\ \E c \in SessionCosts \cup {NoSession} : cost' = [cost EXCEPT ![p] = c]
    /\ UNCHANGED <<known, direct, listed, sweep>>
    /\ Changes

-----------------------------------------------------------------------------
(* buildGraph.                                                             *)

\* A worker calls SendBytesToPeer, and buildGraph lists the peers.
SendBytesToPeer(t) ==
    /\ call.pc = "idle"
    /\ call' = [NoCall EXCEPT !.pc = "build", !.goal = t, !.ids = listed]
    /\ seen' = Recorded
    /\ UNCHANGED store

\* Adjacencies are taken to go both ways.
ReadRecordBothWays(p) ==
    /\ call.pc = "build" /\ p \in call.ids
    /\ LET out == IF p \in known THEN {<<p, q>> : q \in direct[p]} ELSE {}
           in  == {<<e[2], e[1]>> : e \in out}
       IN  call' = [call EXCEPT !.ids = @ \ {p},
                                !.pc = IF p = Local THEN "weigh" ELSE "build",
                                !.pend = IF p = Local THEN {e[2] : e \in out} ELSE {},
                                !.links = @ \cup out \cup in,
                                !.weight = [e \in Peers \X Peers |->
                                              IF e \in out \cup in THEN 200 ELSE @[e]]]
    /\ UNCHANGED <<store, seen>>

\* One of them is read, if it has a record still.
ReadRecord(p) ==
    /\ call.pc = "build" /\ p \in call.ids
    /\ LET out == IF p \in known THEN {<<p, q>> : q \in direct[p]} ELSE {}
       IN  call' = [call EXCEPT !.ids = @ \ {p},
                                !.pc = IF p = Local THEN "weigh" ELSE "build",
                                !.pend = IF p = Local THEN {e[2] : e \in out} ELSE {},
                                !.links = @ \cup out,
                                !.weight = [e \in Peers \X Peers |->
                                              IF e \in out THEN 200 ELSE @[e]]]
    /\ UNCHANGED <<store, seen>>

\* A link of this node is weighed by its session.
Weigh(q) ==
    /\ call.pc = "weigh" /\ q \in call.pend
    /\ call' = [call EXCEPT !.pend = @ \ {q},
                            !.weight = [@ EXCEPT ![<<Local, q>>] = edgeWeight(Local, q)]]
    /\ UNCHANGED <<store, seen>>

Weighed ==
    /\ call.pc = "weigh" /\ call.pend = {}
    /\ call' = [call EXCEPT !.pc = "build"]
    /\ UNCHANGED <<store, seen>>

-----------------------------------------------------------------------------
(* findPathDijkstra.                                                       *)

StartSearch ==
    /\ call.pc = "build" /\ call.ids = {}
    /\ call' = [call EXCEPT !.pc = "search", !.reached = {Local}, !.pq = {<<Local, 0>>}]
    /\ UNCHANGED <<store, seen>>

\* The neighbours of p that are new, or nearer by way of p.
Shortened(p) ==
    {q \in Peers : /\ <<p, q>> \in call.links
                   /\ q \notin call.reached
                      \/ call.dist[p] + call.weight[<<p, q>>] < call.dist[q]}

\* An entry of any distance.
NearestAny == call.pq

\* What heap.Pop may return.
Nearest == {i \in call.pq : \A j \in call.pq : i[2] <= j[2]}

\* An outdated entry is looked at and stays in the heap.
SkipStays ==
    /\ call.pc = "search"
    /\ \E i \in Nearest : i[1] \in call.visited
    /\ UNCHANGED <<store, call, seen>>

\* An outdated entry is dropped.
Skip ==
    /\ call.pc = "search"
    /\ \E i \in Nearest :
          /\ i[1] \in call.visited
          /\ call' = [call EXCEPT !.pq = @ \ {i}]
    /\ UNCHANGED <<store, seen>>

\* The goal ends the search, whatever else is in the heap.
ReachGoal ==
    /\ call.pc = "search"
    /\ \E i \in Nearest :
          /\ i[1] \notin call.visited /\ i[1] = call.goal
          /\ call' = [call EXCEPT !.pq = {}, !.visited = @ \cup {i[1]}]
    /\ UNCHANGED <<store, seen>>

Visited(i) ==
    LET p    == i[1]
        new  == Shortened(p)
        dist == [q \in Peers |-> IF q \in new THEN call.dist[p] + call.weight[<<p, q>>]
                                              ELSE call.dist[q]]
    IN  [call EXCEPT !.visited = @ \cup {p},
                     !.reached = @ \cup new,
                     !.dist = dist,
                     !.prev = [q \in Peers |-> IF q \in new THEN p ELSE @[q]],
                     !.pq = (@ \ {i}) \cup {<<q, dist[q]>> : q \in new}]

Visit ==
    /\ call.pc = "search"
    /\ \E i \in Nearest :
          /\ i[1] \notin call.visited /\ i[1] # call.goal
          /\ call' = Visited(i)
    /\ UNCHANGED <<store, seen>>

\* The search ends as soon as some way to the goal is known.
EndSearchEarly ==
    /\ call.pc = "search" /\ (call.pq = {} \/ call.goal \in call.reached)
    /\ call' = IF call.goal \in call.reached
                 THEN [call EXCEPT !.pc = "trace", !.path = <<call.goal>>]
                 ELSE [call EXCEPT !.pc = "done"]
    /\ UNCHANGED <<store, seen>>

\* The heap is empty, or the goal was reached: the path is traced back.
EndSearch ==
    /\ call.pc = "search" /\ call.pq = {}
    /\ call' = IF call.goal \in call.reached
                 THEN [call EXCEPT !.pc = "trace", !.path = <<call.goal>>]
                 ELSE [call EXCEPT !.pc = "done"]
    /\ UNCHANGED <<store, seen>>

TraceBack ==
    /\ call.pc = "trace"
    /\ LET at == Head(call.path)
       IN  call' = IF at = Local \/ call.prev[at] = NoPeer
                     THEN [call EXCEPT !.pc = "done"]
                     ELSE [call EXCEPT !.path = <<call.prev[at]>> \o @]
    /\ UNCHANGED <<store, seen>>

\* The call returns: ErrNoRoute when there is no path, or a path of this node
\* only, or no session with the next hop; else what OpenStream and SendBytes do.
Return ==
    /\ call.pc = "done"
    /\ call' = NoCall
    /\ seen' = {}
    /\ UNCHANGED store

-----------------------------------------------------------------------------

RouterStep ==
    \/ \E p \in Peers : ReadRecord(p) \/ Weigh(p)
    \/ Weighed \/ StartSearch
    \/ Skip \/ ReachGoal \/ Visit
    \/ EndSearch \/ TraceBack \/ Return

StoreStep ==
    \/ \E p \in Peers : Upsert(p) \/ DeletePeer(p) \/ SessionChanges(p)
    \/ \E p, q \in Peers : AddConnectedDirect(p, q) \/ RemoveConnectedDirect(p, q) \/ Sweep(p, q)

RtNext ==
    \/ \E t \in Targets : SendBytesToPeer(t)
    \/ RouterStep
    \/ StoreStep

RtSpec == RtInit /\ [][RtNext]_rtvars /\ WF_rtvars(RouterStep)

-----------------------------------------------------------------------------
(* Properties.                                                             *)

RtTypeOK ==
    /\ known \in SUBSET Peers
    /\ direct \in [Peers -> SUBSET Peers]
    /\ listed \in SUBSET Peers
    /\ cost \in [Peers -> Nat \cup {NoSession}]
    /\ sweep \in SUBSET (Peers \X Peers)
    /\ changes \in Nat
    /\ call \in Call
    /\ seen \in SUBSET (Peers \X Peers)

\* Paths of the graph the call has built, without a repetition.
PathsTo(t) ==
    {p \in UNION {[1..n -> Peers] : n \in 1..Cardinality(Peers)} :
        /\ p[1] = Local /\ p[Len(p)] = t /\ IsInjective(p)
        /\ \A i \in 1..(Len(p) - 1) : <<p[i], p[i + 1]>> \in call.links}

Weight(p) ==
    LET upTo[i \in 1..Len(p)] == IF i = 1 THEN 0 ELSE upTo[i - 1] + call.weight[<<p[i - 1], p[i]>>]
    IN  upTo[Len(p)]

\* Dijkstra's algorithm, with a heap that keeps outdated entries and a search
\* that stops early, answers a shortest path of the graph it was given, and
\* none only if there is none.
ShortestRoute ==
    call.pc = "done" =>
        IF call.path = <<>>
          THEN PathsTo(call.goal) = {}
          ELSE /\ call.path \in PathsTo(call.goal)
               /\ \A p \in PathsTo(call.goal) : Weight(call.path) <= Weight(p)

\* However store and sessions change meanwhile, the answer uses no link that
\* was not recorded at some moment of this very call.
FreshRoute ==
    call.pc = "done" =>
        \A i \in 1..(Len(call.path) - 1) : <<call.path[i], call.path[i + 1]>> \in seen

\* A peer that was visited has its final distance and predecessor.
VisitedIsFinal ==
    [][call.pc = "search" /\ call'.pc = "search" =>
          \A p \in call.visited : call'.dist[p] = call.dist[p] /\ call'.prev[p] = call.prev[p]]_rtvars

\* A call returns: in particular the predecessors lead back to this node.
CallReturns == call.pc # "idle" ~> call.pc = "idle"
=============================================================================
