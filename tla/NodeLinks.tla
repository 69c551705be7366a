----------------------------- MODULE NodeLinks -----------------------------
(***************************************************************************)
(* The links of a node: the sessions of its transport manager together     *)
(* with the peer store (pkg/peers/store.go) that the accept and dial loops *)
(* (pkg/core/netstack) and the session handlers (pkg/core/peering) keep up *)
(* to date, and that the router (pkg/router) reads.                        *)
(*                                                                         *)
(* A record is kept in memkv and its key in an index with a lock of its    *)
(* own, so writing or deleting a peer is two steps.  All the updates but   *)
(* Upsert go through memkv's Update, which does nothing for a key that     *)
(* does not exist.  Of a record only ConnectedDirectIDs is modelled.       *)
(***************************************************************************)
EXTENDS SessionManager

CONSTANTS
    Local,      \* the id of this node
    Dialled     \* the sessions made by a dial loop; the others are accepted

ASSUME LocalAssumption == Local \in Ids

VARIABLES
    known,      \* the ids that have a record
    direct,     \* id -> ConnectedDirectIDs of its record
    index,      \* peerIndex
    curID,      \* session -> the id its handler cleans up when it returns
    step        \* session -> what its goroutine does to the store next

record == <<known, direct>>
store == <<record, index>>
lvars == <<svars, store, curID, step>>

Steps == {"none", "linked", "upsert", "adjacent", "delete", "unindex"}

LInit ==
    /\ SInit
    /\ known = {}
    /\ direct = [i \in Ids |-> {}]
    /\ index = {}
    /\ curID = FirstId
    /\ step = [s \in Sessions |-> "none"]

Goes(s, x) == step' = [step EXCEPT ![s] = x]

-----------------------------------------------------------------------------
(* The store.                                                              *)

\* AddConnectedDirect on the node's own record.
WithAdjacency(d, i) ==
    IF i = Local \/ Local \notin known THEN d
                                      ELSE [d EXCEPT ![Local] = d[Local] \cup {i}]

\* RemoveConnectedDirect on the records of some peers.
WithoutAdjacency(d, ids, i) ==
    [j \in Ids |-> IF j \in ids \cap known THEN d[j] \ {i} ELSE d[j]]

\* The record of i is deleted, or written anew.
Cleared(d, i) == [d EXCEPT ![i] = {}]

\* hasDirectAdjacency.  No other record ever gets an adjacency, so there is no
\* longer path for Dijkstra to find.
HasRoute(i) == Local \in known /\ i \in direct[Local]

\* The TTL of a record runs out; only a connection or a handshake renews it.
Expire(i) ==
    /\ i \in known
    /\ known' = known \ {i}
    /\ direct' = Cleared(direct, i)
    /\ UNCHANGED <<svars, index, curID, step>>

-----------------------------------------------------------------------------
(* The accept and dial loops.                                              *)

\* A dial loop comes back to Dial when HandleSession has returned.
LConnect(s) ==
    /\ \A t \in Sessions : FirstId[t] = FirstId[s] => step[t] = "none"
    /\ Connect(s)
    /\ UNCHANGED <<store, curID, step>>

\* The accept loop forgets a session that was rejected, the dial loop enters it
\* into the store all the same.
LAddSession(s) ==
    /\ AddSession(s)
    /\ Goes(s, IF stage'[s] = "reading" \/ s \in Dialled THEN "linked" ELSE "none")
    /\ UNCHANGED <<store, curID>>

\* Touch, RecordQuality, AddConnectedDirect.
EnterLink(s) ==
    /\ step[s] = "linked"
    /\ direct' = WithAdjacency(direct, FirstId[s])
    /\ index' = index \cup {FirstId[s], Local}
    /\ Goes(s, "none")

\* Then HandleSession starts and notes the id the session has ...
Linked(s) ==
    /\ EnterLink(s)
    /\ curID' = [curID EXCEPT ![s] = id[s]]
    /\ UNCHANGED <<svars, known>>

\* ... or returns at once, with nothing to clean up, when OpenStream fails.
OpenFails(s) ==
    /\ EnterLink(s)
    /\ SessionEnds(s)
    /\ UNCHANGED <<known, curID>>

-----------------------------------------------------------------------------
(* The session handler.                                                    *)

LHandshake(s) ==
    /\ step[s] = "none"
    /\ Hello(s) \/ NoHandshake(s) \/ \E i \in Acks[s] : HelloAck(s, i)
    /\ UNCHANGED <<store, curID, step>>

LRebind(s) ==
    /\ Rebind(s)
    /\ Goes(s, "upsert")
    /\ UNCHANGED <<store, curID>>

\* Upsert writes a new record over the old one.
Upsert(s) ==
    /\ step[s] = "upsert"
    /\ known' = known \cup {newID[s]}
    /\ direct' = Cleared(direct, newID[s])
    /\ Goes(s, "adjacent")
    /\ UNCHANGED <<svars, index, curID>>

\* The handler goes on with the id it had before.
AdjacentOldId(s) ==
    /\ step[s] = "adjacent"
    /\ direct' = WithoutAdjacency(WithAdjacency(direct, newID[s]), {Local}, oldID[s])
    /\ index' = index \cup {newID[s], Local}
    /\ Goes(s, "none")
    /\ UNCHANGED <<svars, known, curID>>

\* The rest of handleHello and handleHelloAck: the index, the new adjacency for
\* the old one.
Adjacent(s) ==
    /\ step[s] = "adjacent"
    /\ direct' = WithoutAdjacency(WithAdjacency(direct, newID[s]), {Local}, oldID[s])
    /\ index' = index \cup {newID[s], Local}
    /\ curID' = [curID EXCEPT ![s] = newID[s]]
    /\ Goes(s, "none")
    /\ UNCHANGED <<svars, known>>

\* HandleSession returns and its deferred function runs.
LSessionEnds(s) ==
    /\ step[s] = "none"
    /\ SessionEnds(s)
    /\ Goes(s, "delete")
    /\ UNCHANGED <<store, curID>>

\* RemoveConnectedDirect, and DeletePeer up to the record ...
DeletePeer(s) ==
    /\ step[s] = "delete"
    /\ known' = known \ {curID[s]}
    /\ direct' = Cleared(WithoutAdjacency(direct, {Local}, curID[s]), curID[s])
    /\ Goes(s, "unindex")
    /\ UNCHANGED <<svars, index, curID>>

\* ... and from the index on.
Unindex(s) ==
    /\ step[s] = "unindex"
    /\ index' = index \ {curID[s]}
    /\ direct' = WithoutAdjacency(direct, index', curID[s])
    /\ Goes(s, "none")
    /\ UNCHANGED <<svars, known, curID>>

LHangUp(s) == HangUp(s) /\ UNCHANGED <<store, curID, step>>

LCloseDue(s) == CloseDue(s) /\ UNCHANGED <<store, curID, step>>

\* Offered to the embedding program; the store is not told.
LClosePeer(i) == ClosePeer(i) /\ UNCHANGED <<store, curID, step>>

LNext ==
    \/ \E s \in Sessions :
          \/ LConnect(s) \/ LAddSession(s) \/ Linked(s) \/ OpenFails(s) \/ LHandshake(s)
          \/ LRebind(s) \/ Upsert(s) \/ Adjacent(s)
          \/ LSessionEnds(s) \/ DeletePeer(s) \/ Unindex(s) \/ LHangUp(s) \/ LCloseDue(s)
    \/ \E i \in Ids : Expire(i) \/ LClosePeer(i)

LSpec == LInit /\ [][LNext]_lvars

\* The closing goroutines are started and wait for a timer at most.
LFairSpec == LSpec /\ \A s \in Sessions : WF_lvars(LCloseDue(s))

-----------------------------------------------------------------------------
(* Properties.                                                             *)

LTypeOK ==
    /\ STypeOK
    /\ known \subseteq Ids
    /\ direct \in [Ids -> SUBSET Ids]
    /\ index \subseteq Ids
    /\ curID \in [Sessions -> Ids]
    /\ step \in [Sessions -> Steps]

\* A handler that will delete the record of peer i before it is gone.
WillDelete(s, i) ==
    \/ step[s] = "adjacent" /\ newID[s] = i
    \/ /\ curID[s] = i
       /\ stage[s] \in {"reading", "verified", "serving"} \/ step[s] = "delete"

\* No record outlives the peer: as long as there is one, some handler is at
\* work that will delete it, although a handler's id changes half-way, several
\* handlers may have one peer, and each deletes what the others have written.
RecordHasHandler ==
    \A i \in known : \E s \in Sessions : WillDelete(s, i)

\* The node can send to a peer it has a direct link to: the link is canonical,
\* the handshake over and the adjacency added.
DirectPeersRoutable ==
    \A s \in Sessions :
        stage[s] = "serving" /\ step[s] = "none" /\ open[s] /\ canonical[newID[s]] = s
            => HasRoute(newID[s])
=============================================================================
