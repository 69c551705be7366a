--------------------------- MODULE SessionManager ---------------------------
(***************************************************************************)
(* The transport manager of a node (pkg/transport/manager.go): at most one *)
(* canonical session for every peer id, with the goroutines that use it:   *)
(* the accept and dial loops (pkg/core/netstack), which register a session *)
(* under a temporary id, and the handler of a session (pkg/core/peering),  *)
(* which moves it to the id of the peer when the handshake has told it.    *)
(*                                                                         *)
(* AddSession, RebindPeer and ClosePeer each run under the manager's lock  *)
(* and are one step; between them the goroutines interleave freely, links  *)
(* fail, and the goroutines that close a displaced session take their      *)
(* time.  open[s] is false once Close has been called on s or its link is  *)
(* lost; a message that has arrived before is still handled.               *)
(***************************************************************************)
EXTENDS Integers, FiniteSets

CONSTANTS
    Sessions,   \* connections, dialled or accepted; each is made once
    Ids,        \* peer ids: temporary ones and those made from a public key
    Kind,       \* session -> kind of its transport
    FirstId,    \* session -> its peer id before the handshake
    Key,        \* session -> the id made from the key that signs its Hello
    Acks,       \* session -> the ids that a HelloAck on it may name
    MaxTime,    \* bound: of the clock
    Shared,     \* first ids that several sessions carry at once: the address
                \* of a named pipe or of a mem listener
    NoSession

baseRank == [mem |-> 120, quicDirect |-> 100, winPipe |-> 95, tcpDirect |-> 90,
             quicHolePunch |-> 80, quicRelay |-> 70, tcpRelay |-> 60, udp |-> 50,
             unknown |-> 0]

ASSUME SessionsAssumption ==
    /\ Kind \in [Sessions -> DOMAIN baseRank]
    /\ FirstId \in [Sessions -> Ids]
    /\ Key \in [Sessions -> Ids]
    /\ Shared \subseteq Ids
    /\ Acks \in [Sessions -> SUBSET Ids]
    /\ MaxTime \in Nat
    /\ NoSession \notin Sessions

VARIABLES
    now,        \* the clock that stamps a new session
    est,        \* session -> EstablishedAt
    id,         \* session -> Peer().ID
    oldID,      \* session -> the id its handler read before RebindPeer
    newID,      \* session -> the id its handshake has given, or FirstId
    open,       \* session -> not closed, link not lost
    stage,      \* session -> what has been done with it
    canonical,  \* id -> peers[id].canonical, NoSession when there is no entry
    candidates, \* id -> peers[id].candidates
    closing     \* sessions that a goroutine is about to close

link  == <<now, est, id, oldID, newID>>
table == <<canonical, candidates>>
svars == <<link, open, stage, table, closing>>

-----------------------------------------------------------------------------
(* State.                                                                  *)

\* none: not connected; new: connected, not registered; reading: its handler
\* waits for the first message; verified: that was a handshake, and the handler
\* calls RebindPeer; serving: the handler goes on to the next message; ended.
Stages == {"none", "new", "reading", "verified", "serving", "ended"}

SInit ==
    /\ now = 0
    /\ est = [s \in Sessions |-> 0]
    /\ id = FirstId
    /\ oldID = FirstId
    /\ newID = FirstId
    /\ open = [s \in Sessions |-> FALSE]
    /\ stage = [s \in Sessions |-> "none"]
    /\ canonical = [i \in Ids |-> NoSession]
    /\ candidates = [i \in Ids |-> {}]
    /\ closing = {}

\* The RTT of every session is 0: no transport measures it.
better(a, b) ==
    \/ baseRank[Kind[a]] > baseRank[Kind[b]]
    \/ baseRank[Kind[a]] = baseRank[Kind[b]] /\ est[a] > est[b]

IsCanonical(s) == \E i \in Ids : canonical[i] = s

-----------------------------------------------------------------------------
(* The connections.                                                        *)

\* Dial or Accept returns a session.  A dial loop makes its next session only
\* when the last one has ended, and an address is not used again before.  Two
\* sessions may be stamped with the same time.
Connect(s) ==
    /\ stage[s] = "none"
    /\ FirstId[s] \in Shared \/ \A t \in Sessions :
           FirstId[t] = FirstId[s] => stage[t] \in {"none", "ended"}
    /\ now' \in {now, now + 1} /\ now' <= MaxTime
    /\ est' = [est EXCEPT ![s] = now']
    /\ open' = [open EXCEPT ![s] = TRUE]
    /\ stage' = [stage EXCEPT ![s] = "new"]
    /\ UNCHANGED <<id, oldID, newID, table, closing>>

\* The other end closes the connection, or the network loses it.
HangUp(s) ==
    /\ open[s]
    /\ open' = [open EXCEPT ![s] = FALSE]
    /\ UNCHANGED <<link, stage, table, closing>>

\* RecvBytes fails and HandleSession returns.  The manager is not told.
SessionEnds(s) ==
    /\ stage[s] \in {"reading", "serving"} /\ ~open[s]
    /\ stage' = [stage EXCEPT ![s] = "ended"]
    /\ UNCHANGED <<link, open, table, closing>>

\* A goroutine started by AddSession or RebindPeer, or the loop that called
\* AddSession, closes a session that was displaced.
CloseDue(s) ==
    /\ s \in closing
    /\ closing' = closing \ {s}
    /\ open' = [open EXCEPT ![s] = FALSE]
    /\ UNCHANGED <<link, stage, table>>

-----------------------------------------------------------------------------
(* AddSession.                                                             *)

AddFirst(s) ==
    /\ canonical[id[s]] = NoSession
    /\ canonical' = [canonical EXCEPT ![id[s]] = s]
    /\ stage' = [stage EXCEPT ![s] = "reading"]
    /\ UNCHANGED <<link, open, candidates, closing>>

AddBetter(s) ==
    LET old == canonical[id[s]] IN
    /\ old # NoSession /\ better(s, old)
    /\ canonical' = [canonical EXCEPT ![id[s]] = s]
    /\ candidates' = [candidates EXCEPT ![id[s]] = candidates[id[s]] \cup {old}]
    /\ closing' = closing \cup {old}
    /\ stage' = [stage EXCEPT ![s] = "reading"]
    /\ UNCHANGED <<link, open>>

\* The accept loop goes on with a session that was rejected.
AddWorseServed(s) ==
    /\ canonical[id[s]] # NoSession /\ ~better(s, canonical[id[s]])
    /\ open' = [open EXCEPT ![s] = FALSE]
    /\ stage' = [stage EXCEPT ![s] = "reading"]
    /\ UNCHANGED <<link, table, closing>>

AddWorse(s) ==
    /\ canonical[id[s]] # NoSession /\ ~better(s, canonical[id[s]])
    /\ open' = [open EXCEPT ![s] = FALSE]
    /\ stage' = [stage EXCEPT ![s] = "ended"]
    /\ UNCHANGED <<link, table, closing>>

\* The accept or dial loop registers the session; when it is accepted the
\* loop starts HandleSession.
AddSession(s) ==
    /\ stage[s] = "new"
    /\ AddFirst(s) \/ AddBetter(s) \/ AddWorse(s)

-----------------------------------------------------------------------------
(* RebindPeer.                                                             *)

\* Nothing to move.
RebindNothing(old, new) ==
    /\ old = new \/ canonical[old] = NoSession
    /\ UNCHANGED <<id, table, closing>>

\* The entry of the old id stays.
MovedKeepOld(old, new, s) == [canonical EXCEPT ![new] = s]

\* The canonical sessions when old has lost its entry and new has s.
Moved(old, new, s) == [canonical EXCEPT ![old] = NoSession, ![new] = s]

\* The new id has no entry, or a worse session.
RebindWins(old, new) ==
    LET moving == canonical[old]
        loser  == canonical[new] IN
    /\ old # new /\ moving # NoSession
    /\ loser # NoSession => better(moving, loser)
    /\ id' = [id EXCEPT ![moving] = new]
    /\ canonical' = Moved(old, new, moving)
    /\ candidates' = [candidates EXCEPT ![old] = {}]
    /\ closing' = closing \cup ({loser} \ {NoSession})

\* The loser is left to itself.
RebindLosesQuietly(old, new) ==
    LET moving == canonical[old] IN
    /\ old # new /\ moving # NoSession
    /\ canonical[new] # NoSession /\ ~better(moving, canonical[new])
    /\ id' = [id EXCEPT ![moving] = new]
    /\ canonical' = Moved(old, new, canonical[new])
    /\ candidates' = [candidates EXCEPT ![old] = {}]
    /\ UNCHANGED closing

\* The session the new id has stays; the moving one is closed, under the new
\* id all the same.
RebindLoses(old, new) ==
    LET moving == canonical[old] IN
    /\ old # new /\ moving # NoSession
    /\ canonical[new] # NoSession /\ ~better(moving, canonical[new])
    /\ id' = [id EXCEPT ![moving] = new]
    /\ canonical' = Moved(old, new, canonical[new])
    /\ candidates' = [candidates EXCEPT ![old] = {}]
    /\ closing' = closing \cup {moving}

RebindPeer(old, new) ==
    RebindNothing(old, new) \/ RebindWins(old, new) \/ RebindLoses(old, new)

\* The handler's first message gives id i for the other end.  The handler reads
\* the id its session has so far.
Handshake(s, i) ==
    /\ stage[s] = "reading"
    /\ oldID' = [oldID EXCEPT ![s] = id[s]]
    /\ newID' = [newID EXCEPT ![s] = i]
    /\ stage' = [stage EXCEPT ![s] = "verified"]
    /\ UNCHANGED <<now, est, id, open, table, closing>>

\* A Hello, in an envelope or raw, that verifies: the id is made from the key.
Hello(s) == Handshake(s, Key[s])

\* A HelloAck, on a dialled session or an accepted one: its Meta.Id is taken as
\* it is, whatever it names, and nothing is verified.
HelloAck(s, i) == Handshake(s, i)

\* What is bound to the old id then moves to the id of the handshake.
Rebind(s) ==
    /\ stage[s] = "verified"
    /\ RebindPeer(oldID[s], newID[s])
    /\ stage' = [stage EXCEPT ![s] = "serving"]
    /\ UNCHANGED <<now, est, oldID, newID, open>>

\* The first message is something else, or a Hello that does not verify: the
\* session is served under the id it has.
NoHandshake(s) ==
    /\ stage[s] = "reading"
    /\ stage' = [stage EXCEPT ![s] = "serving"]
    /\ UNCHANGED <<link, open, table, closing>>

\* ClosePeer: the entry goes, with all its sessions.
ClosePeer(i) ==
    /\ canonical[i] # NoSession
    /\ open' = [s \in Sessions |->
                  open[s] /\ s # canonical[i] /\ s \notin candidates[i]]
    /\ canonical' = [canonical EXCEPT ![i] = NoSession]
    /\ candidates' = [candidates EXCEPT ![i] = {}]
    /\ UNCHANGED <<link, stage, closing>>

-----------------------------------------------------------------------------

SNext ==
    \/ \E s \in Sessions :
          \/ Connect(s) \/ HangUp(s) \/ SessionEnds(s) \/ CloseDue(s)
          \/ AddSession(s) \/ Hello(s) \/ NoHandshake(s) \/ Rebind(s)
          \/ \E i \in Acks[s] : HelloAck(s, i)
    \/ \E i \in Ids : ClosePeer(i)

SSpec == SInit /\ [][SNext]_svars

-----------------------------------------------------------------------------
(* Properties.                                                             *)

\* Every entry holds a session, and closing goroutines have one to close.
STypeOK ==
    /\ now \in Nat
    /\ est \in [Sessions -> Nat]
    /\ id \in [Sessions -> Ids]
    /\ oldID \in [Sessions -> Ids]
    /\ newID \in [Sessions -> Ids]
    /\ open \in [Sessions -> BOOLEAN]
    /\ stage \in [Sessions -> Stages]
    /\ canonical \in [Ids -> Sessions \cup {NoSession}]
    /\ candidates \in [Ids -> SUBSET Sessions]
    /\ closing \in SUBSET Sessions

\* What GetSession(i) returns says of itself that its peer is i, so a session
\* is canonical for one peer only, whatever was rebound in between.
CanonicalOwnsId ==
    \A i \in Ids : canonical[i] # NoSession => id[canonical[i]] = i

\* A session that is being handled and still open is the canonical one of some
\* peer, or on its way to be closed: no link is left behind by an election
\* that nobody can reach, close or send on.
NoOrphans ==
    \A s \in Sessions :
        stage[s] \in {"reading", "verified", "serving"} /\ open[s]
            => IsCanonical(s) \/ s \in closing

\* The handshake of s has given another id than s was connected under.
Renamed(s) == newID[s] # FirstId[s]

\* The id that s was connected under is not its own: another session carries it
\* too, or the handshake of another one has given it.
Taken(s) ==
    \E t \in Sessions \ {s} :
        \/ FirstId[t] = FirstId[s] /\ FirstId[s] \in Shared
        \/ Renamed(t) /\ newID[t] = FirstId[s]

\* No session leaves an id that is not its own.
NoneLeavesTaken == \A s \in Sessions : ~(Renamed(s) /\ Taken(s))

\* A session is found only under the id it was connected under or the one that
\* its own handshake has given, although RebindPeer moves whatever the old id is
\* bound to by then.  Not so once a handshake leaves an id that is not the
\* session's own, as it may take another session along.
OwnBinding ==
    NoneLeavesTaken =>
        \A i \in Ids : LET s == canonical[i] IN
            s # NoSession => \/ i = FirstId[s]
                             \/ i = newID[s] /\ stage[s] \in {"serving", "ended"}

\* Two sessions under one id do not both stay open: the manager "keeps at most
\* one canonical Session per peer", and the others are closed in the end.
OneLinkPerPeer ==
    \A pair \in {p \in SUBSET Sessions : Cardinality(p) = 2} :
        (\A s, t \in pair :
            open[s] /\ stage[s] \in {"reading", "verified", "serving"} /\ id[s] = id[t])
          ~> (\E s, t \in pair : ~open[s] \/ id[s] # id[t])
=============================================================================
