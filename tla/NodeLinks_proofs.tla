-------------------------- MODULE NodeLinks_proofs --------------------------
(***************************************************************************)
(* Proofs about SessionManager and NodeLinks for any number of sessions,   *)
(* ids and peers.                                                          *)
(***************************************************************************)
EXTENDS NodeLinks, TLAPS

-----------------------------------------------------------------------------
(* The session manager: types.                                             *)

\* Every entry of the table holds a session (there is never an entry whose
\* canonical session is nil), and the goroutines started by AddSession and
\* RebindPeer always have a session to close.
THEOREM ManagerTypes == SSpec => []STypeOK
  <1>1. SInit => STypeOK
    <2> SUFFICES ASSUME SInit PROVE STypeOK
      OBVIOUS
    <2>1. open \in [Sessions -> BOOLEAN]
      BY Zenon DEF SInit
    <2> QED
      BY <2>1, SessionsAssumption DEF SInit, STypeOK, Stages
  <1>2. STypeOK /\ [SNext]_svars => STypeOK'
    <2> SUFFICES ASSUME STypeOK, [SNext]_svars PROVE STypeOK'
      OBVIOUS
    <2> USE SessionsAssumption
    <2>1. CASE UNCHANGED svars
      BY <2>1 DEF STypeOK, svars, link, table
    <2>2. ASSUME NEW s \in Sessions, Connect(s) PROVE STypeOK'
      BY <2>2 DEF STypeOK, Connect, table, Stages
    <2>3. ASSUME NEW s \in Sessions, HangUp(s) PROVE STypeOK'
      BY <2>3 DEF STypeOK, HangUp, link, table
    <2>4. ASSUME NEW s \in Sessions, SessionEnds(s) PROVE STypeOK'
      BY <2>4 DEF STypeOK, SessionEnds, link, table, Stages
    <2>5. ASSUME NEW s \in Sessions, CloseDue(s) PROVE STypeOK'
      BY <2>5 DEF STypeOK, CloseDue, link, table
    <2>6. ASSUME NEW s \in Sessions, AddSession(s) PROVE STypeOK'
      <3>1. CASE AddFirst(s)
        BY <3>1 DEF STypeOK, AddFirst, link, Stages
      <3>2. CASE AddBetter(s)
        BY <3>2 DEF STypeOK, AddBetter, link, Stages
      <3>3. CASE AddWorse(s)
        BY <3>3 DEF STypeOK, AddWorse, link, table, Stages
      <3> QED
        BY <2>6, <3>1, <3>2, <3>3 DEF AddSession
    <2>7. ASSUME NEW s \in Sessions, Hello(s) \/ NoHandshake(s) \/ \E i \in Acks[s] : HelloAck(s, i)
          PROVE  STypeOK'
      BY <2>7 DEF STypeOK, Hello, HelloAck, Handshake, NoHandshake, link, table, Stages
    <2>8. ASSUME NEW s \in Sessions, Rebind(s) PROVE STypeOK'
      <3>1. stage' \in [Sessions -> Stages] /\ oldID[s] \in Ids /\ newID[s] \in Ids
        BY <2>8 DEF STypeOK, Rebind, Stages
      <3>2. CASE RebindNothing(oldID[s], newID[s])
        BY <2>8, <3>1, <3>2 DEF STypeOK, Rebind, RebindNothing, table
      <3>3. CASE RebindWins(oldID[s], newID[s])
        BY <2>8, <3>1, <3>3 DEF STypeOK, Rebind, RebindWins, Moved
      <3>4. CASE RebindLoses(oldID[s], newID[s])
        BY <2>8, <3>1, <3>4 DEF STypeOK, Rebind, RebindLoses, Moved
      <3> QED
        BY <2>8, <3>2, <3>3, <3>4 DEF Rebind, RebindPeer
    <2>9. ASSUME NEW i \in Ids, ClosePeer(i) PROVE STypeOK'
      <3>1. open' \in [Sessions -> BOOLEAN]
        BY <2>9, Zenon DEF STypeOK, ClosePeer
      <3> QED
        BY <2>9, <3>1 DEF STypeOK, ClosePeer, link
    <2> QED
      BY <2>1, <2>2, <2>3, <2>4, <2>5, <2>6, <2>7, <2>8, <2>9 DEF SNext
  <1> QED
    BY <1>1, <1>2, PTL DEF SSpec

-----------------------------------------------------------------------------
(* Every canonical session owns its id.  The fact is inductive once the    *)
(* types are known: RebindPeer writes the id of a session together with    *)
(* the only entry that session has.                                        *)

\* What GetSession(i) returns has i as the id of its peer, however AddSession,
\* RebindPeer and ClosePeer of different handlers interleave.
THEOREM CanonicalIds == SSpec => []CanonicalOwnsId
  <1>1. SInit => CanonicalOwnsId
    BY DEF SInit, CanonicalOwnsId
  <1>2. STypeOK /\ CanonicalOwnsId /\ [SNext]_svars => CanonicalOwnsId'
    <2> SUFFICES ASSUME STypeOK, CanonicalOwnsId, [SNext]_svars PROVE CanonicalOwnsId'
      OBVIOUS
    <2> USE SessionsAssumption
    <2>1. ASSUME UNCHANGED <<id, canonical>> PROVE CanonicalOwnsId'
      BY <2>1 DEF CanonicalOwnsId
    <2>2. CASE UNCHANGED svars
      BY <2>1, <2>2 DEF svars, link, table
    <2>3. ASSUME NEW s \in Sessions,
                 Connect(s) \/ HangUp(s) \/ SessionEnds(s) \/ CloseDue(s)
                     \/ Hello(s) \/ NoHandshake(s) \/ \E i \in Acks[s] : HelloAck(s, i)
          PROVE  CanonicalOwnsId'
      BY <2>1, <2>3 DEF Connect, HangUp, SessionEnds, CloseDue, Hello, HelloAck, Handshake,
                        NoHandshake, link, table
    <2>4. ASSUME NEW s \in Sessions, AddSession(s) PROVE CanonicalOwnsId'
      <3>1. CASE AddFirst(s)
        BY <3>1 DEF STypeOK, CanonicalOwnsId, AddFirst, link
      <3>2. CASE AddBetter(s)
        BY <3>2 DEF STypeOK, CanonicalOwnsId, AddBetter, link
      <3>3. CASE AddWorse(s)
        BY <2>1, <3>3 DEF AddWorse, link, table
      <3> QED
        BY <2>4, <3>1, <3>2, <3>3 DEF AddSession
    <2>5. ASSUME NEW s \in Sessions, Rebind(s) PROVE CanonicalOwnsId'
      <3>1. oldID[s] \in Ids /\ newID[s] \in Ids
        BY DEF STypeOK
      <3>2. CASE RebindNothing(oldID[s], newID[s])
        BY <2>1, <3>2 DEF RebindNothing, table
      <3>3. CASE RebindWins(oldID[s], newID[s])
        BY <3>1, <3>3 DEF STypeOK, CanonicalOwnsId, RebindWins, Moved
      <3>4. CASE RebindLoses(oldID[s], newID[s])
        BY <3>1, <3>4 DEF STypeOK, CanonicalOwnsId, RebindLoses, Moved
      <3> QED
        BY <2>5, <3>2, <3>3, <3>4 DEF Rebind, RebindPeer
    <2>6. ASSUME NEW i \in Ids, ClosePeer(i) PROVE CanonicalOwnsId'
      BY <2>6 DEF STypeOK, CanonicalOwnsId, ClosePeer, link
    <2> QED
      BY <2>2, <2>3, <2>4, <2>5, <2>6 DEF SNext
  <1> QED
    BY <1>1, <1>2, ManagerTypes, PTL DEF SSpec

-----------------------------------------------------------------------------
(* No link is left behind.                                                 *)

Handled(s) == stage[s] \in {"reading", "verified", "serving"}

\* An open session that is being handled is canonical for some peer or is
\* about to be closed, whatever elections have been held meanwhile.
THEOREM NoLinkLeftBehind == SSpec => []NoOrphans
  <1>1. SInit => NoOrphans
    BY DEF SInit, NoOrphans
  <1>2. STypeOK /\ NoOrphans /\ [SNext]_svars => NoOrphans'
    <2> SUFFICES ASSUME STypeOK, NoOrphans, [SNext]_svars,
                        NEW t \in Sessions, Handled(t)', open'[t]
                 PROVE  IsCanonical(t)' \/ t \in closing'
      BY DEF NoOrphans, Handled
    <2> USE SessionsAssumption
    <2>1. Handled(t) /\ open[t] => IsCanonical(t) \/ t \in closing
      BY DEF NoOrphans, Handled
    <2>2. ASSUME Handled(t), open[t], UNCHANGED <<canonical, closing>>
          PROVE  IsCanonical(t)' \/ t \in closing'
      BY <2>1, <2>2 DEF IsCanonical
    <2>3. CASE UNCHANGED svars
      BY <2>2, <2>3 DEF svars, link, table, Handled
    <2>4. ASSUME NEW s \in Sessions, Connect(s) PROVE IsCanonical(t)' \/ t \in closing'
      <3>1. t # s
        BY <2>4 DEF STypeOK, Connect, Handled
      <3>2. Handled(t) /\ open[t]
        BY <2>4, <3>1 DEF STypeOK, Connect, Handled
      <3> QED
        BY <2>2, <2>4, <3>2 DEF Connect, table
    <2>5. ASSUME NEW s \in Sessions, HangUp(s) \/ SessionEnds(s)
          PROVE  IsCanonical(t)' \/ t \in closing'
      <3>1. Handled(t) /\ open[t]
        BY <2>5 DEF STypeOK, HangUp, SessionEnds, Handled
      <3> QED
        BY <2>2, <2>5, <3>1 DEF HangUp, SessionEnds, table
    <2>6. ASSUME NEW s \in Sessions, CloseDue(s) PROVE IsCanonical(t)' \/ t \in closing'
      <3>1. t # s /\ Handled(t) /\ open[t]
        BY <2>6 DEF STypeOK, CloseDue, Handled
      <3> QED
        BY <2>1, <2>6, <3>1 DEF CloseDue, table, IsCanonical
    <2>7. ASSUME NEW s \in Sessions, AddSession(s) PROVE IsCanonical(t)' \/ t \in closing'
      <3>1. id[s] \in Ids
        BY DEF STypeOK
      <3>2. CASE AddFirst(s)
        BY <2>1, <3>1, <3>2 DEF STypeOK, AddFirst, IsCanonical, Handled
      <3>3. CASE AddBetter(s)
        BY <2>1, <3>1, <3>3 DEF STypeOK, AddBetter, IsCanonical, Handled
      <3>4. CASE AddWorse(s)
        <4>1. Handled(t) /\ open[t]
          BY <3>4 DEF STypeOK, AddWorse, Handled
        <4> QED
          BY <2>2, <3>4, <4>1 DEF AddWorse, table
      <3> QED
        BY <2>7, <3>2, <3>3, <3>4 DEF AddSession
    <2>8. ASSUME NEW s \in Sessions, Hello(s) \/ NoHandshake(s) \/ \E i \in Acks[s] : HelloAck(s, i)
          PROVE  IsCanonical(t)' \/ t \in closing'
      <3>1. Handled(t) /\ open[t]
        BY <2>8 DEF STypeOK, Hello, HelloAck, Handshake, NoHandshake, Handled
      <3> QED
        BY <2>2, <2>8, <3>1 DEF Hello, HelloAck, Handshake, NoHandshake, table
    <2>9. ASSUME NEW s \in Sessions, Rebind(s) PROVE IsCanonical(t)' \/ t \in closing'
      <3>1. Handled(t) /\ open[t]
        BY <2>9 DEF STypeOK, Rebind, Handled
      <3>2. oldID[s] \in Ids /\ newID[s] \in Ids
        BY DEF STypeOK
      <3>3. CASE RebindNothing(oldID[s], newID[s])
        BY <2>2, <3>1, <3>3 DEF RebindNothing, table
      <3>4. CASE RebindWins(oldID[s], newID[s])
        BY <2>1, <3>1, <3>2, <3>4 DEF STypeOK, RebindWins, Moved, IsCanonical
      <3>5. CASE RebindLoses(oldID[s], newID[s])
        BY <2>1, <3>1, <3>2, <3>5 DEF STypeOK, RebindLoses, Moved, IsCanonical
      <3> QED
        BY <2>9, <3>3, <3>4, <3>5 DEF Rebind, RebindPeer
    <2>10. ASSUME NEW i \in Ids, ClosePeer(i) PROVE IsCanonical(t)' \/ t \in closing'
      <3>1. open[t] /\ t # canonical[i]
        BY <2>10, Zenon DEF ClosePeer
      <3>2. Handled(t)
        BY <2>10 DEF ClosePeer, Handled
      <3> QED
        BY <2>1, <2>10, <3>1, <3>2 DEF STypeOK, ClosePeer, IsCanonical
    <2> QED
      BY <2>3, <2>4, <2>5, <2>6, <2>7, <2>8, <2>9, <2>10 DEF SNext
  <1> QED
    BY <1>1, <1>2, ManagerTypes, PTL DEF SSpec

-----------------------------------------------------------------------------
(* A session is found only under an id that is its own.  RebindPeer moves  *)
(* whatever the old id is bound to, not the session whose handler calls    *)
(* it, so the fact depends on the old id being that session's alone: no    *)
(* other one carries it, and no handshake of another one has given it.     *)

\* Before its handshake no session has an id to go to.
NewIsFirst ==
    \A s \in Sessions : stage[s] \in {"none", "new", "reading"} => newID[s] = FirstId[s]

\* An address is carried by one session at a time.
OneAtATime ==
    \A s, t \in Sessions :
        s # t /\ FirstId[s] = FirstId[t] /\ FirstId[s] \notin Shared
            => stage[s] \in {"none", "ended"} \/ stage[t] \in {"none", "ended"}

\* The id of a session changes in the step that ends its handshake.
IdIsOwn ==
    \A s \in Sessions :
        \/ id[s] = FirstId[s]
        \/ id[s] = newID[s] /\ stage[s] \in {"serving", "ended"}

\* What a handler has read of its session's id is still so.
OldIsFirst == \A s \in Sessions : stage[s] = "verified" => oldID[s] = FirstId[s]

\* The entry of an id that nobody else has taken, if there is one, holds the
\* session that is still in its handshake there, not an earlier one.
EntryIsCurrent ==
    \A s \in Sessions :
        stage[s] \in {"reading", "verified"} /\ ~Taken(s)
            => canonical[FirstId[s]] \in {s, NoSession}

Bound == IdIsOwn /\ OldIsFirst /\ EntryIsCurrent

BindInv == NewIsFirst /\ OneAtATime /\ (NoneLeavesTaken => Bound)

LEMMA BindInit == SInit => BindInv
  BY SessionsAssumption
     DEF SInit, BindInv, NewIsFirst, OneAtATime, Bound, IdIsOwn, OldIsFirst, EntryIsCurrent

\* A step that moves one session along and touches neither ids nor table.
LEMMA BindStage ==
    ASSUME STypeOK, BindInv, NEW s \in Sessions,
           UNCHANGED <<id, canonical, oldID, newID>>,
           \/ UNCHANGED stage
           \/ /\ stage[s] \notin {"none", "ended"}
              /\ \E x \in {"serving", "ended"} : stage' = [stage EXCEPT ![s] = x]
    PROVE  BindInv'
  <1>1. NewIsFirst' /\ OneAtATime'
    BY DEF STypeOK, BindInv, NewIsFirst, OneAtATime
  <1>2. ASSUME NoneLeavesTaken' PROVE Bound'
    <2>1. Bound
      BY <1>2 DEF BindInv, NoneLeavesTaken, Renamed, Taken
    <2>2. IdIsOwn' /\ OldIsFirst'
      BY <2>1 DEF STypeOK, Bound, IdIsOwn, OldIsFirst
    <2>3. EntryIsCurrent'
      BY <2>1 DEF STypeOK, Bound, EntryIsCurrent, Taken, Renamed
    <2> QED
      BY <2>2, <2>3 DEF Bound
  <1> QED
    BY <1>1, <1>2 DEF BindInv

LEMMA BindConnect ==
    ASSUME STypeOK, BindInv, NEW s \in Sessions, Connect(s)
    PROVE  BindInv'
  <1>1. /\ UNCHANGED <<id, oldID, newID, canonical>>
        /\ stage[s] = "none" /\ stage' = [stage EXCEPT ![s] = "new"]
    BY DEF Connect, table
  <1>2. NewIsFirst'
    BY <1>1 DEF STypeOK, BindInv, NewIsFirst
  <1>3. OneAtATime'
    <2>1. FirstId[s] \in Shared \/ \A t \in Sessions :
             FirstId[t] = FirstId[s] => stage[t] \in {"none", "ended"}
      BY DEF Connect
    <2> QED
      BY <1>1, <2>1 DEF STypeOK, BindInv, OneAtATime
  <1>4. ASSUME NoneLeavesTaken' PROVE Bound'
    <2>1. Bound
      BY <1>1, <1>4 DEF BindInv, NoneLeavesTaken, Renamed, Taken
    <2>2. IdIsOwn' /\ OldIsFirst'
      BY <1>1, <2>1 DEF STypeOK, Bound, IdIsOwn, OldIsFirst
    <2>3. EntryIsCurrent'
      BY <1>1, <2>1 DEF STypeOK, Bound, EntryIsCurrent, Taken, Renamed
    <2> QED
      BY <2>2, <2>3 DEF Bound
  <1> QED
    BY <1>2, <1>3, <1>4 DEF BindInv

\* The first message gives id i: the session may leave its first id now, and
\* that of another session may be taken.
LEMMA BindHandshake ==
    ASSUME STypeOK, BindInv, NEW s \in Sessions, NEW i \in Ids, Handshake(s, i)
    PROVE  BindInv'
  <1>1. /\ UNCHANGED <<id, canonical>> /\ stage[s] = "reading"
        /\ stage' = [stage EXCEPT ![s] = "verified"]
        /\ oldID' = [oldID EXCEPT ![s] = id[s]]
        /\ newID' = [newID EXCEPT ![s] = i]
    BY DEF Handshake, table
  <1>2. NewIsFirst' /\ OneAtATime'
    BY <1>1 DEF STypeOK, BindInv, NewIsFirst, OneAtATime
  <1>3. ~Renamed(s)
    BY <1>1 DEF BindInv, NewIsFirst, Renamed
  <1>4. ASSUME NEW t \in Sessions, Renamed(t) PROVE Renamed(t)' /\ newID'[t] = newID[t]
    BY <1>1, <1>3, <1>4 DEF STypeOK, Renamed
  <1>5. ASSUME NEW t \in Sessions, Taken(t) PROVE Taken(t)'
    BY <1>4, <1>5 DEF Taken
  <1>6. ASSUME NoneLeavesTaken' PROVE Bound'
    <2>1. NoneLeavesTaken
      BY <1>4, <1>5, <1>6 DEF NoneLeavesTaken
    <2>2. Bound
      BY <2>1 DEF BindInv
    <2>3. IdIsOwn'
      <3> SUFFICES ASSUME NEW t \in Sessions
                   PROVE  \/ id'[t] = FirstId[t]
                          \/ id'[t] = newID'[t] /\ stage'[t] \in {"serving", "ended"}
        BY DEF IdIsOwn
      <3> QED
        BY <1>1, <2>2 DEF STypeOK, Bound, IdIsOwn
    <2>4. OldIsFirst'
      BY <1>1, <2>2 DEF STypeOK, Bound, OldIsFirst, IdIsOwn
    <2>5. EntryIsCurrent'
      <3> SUFFICES ASSUME NEW t \in Sessions, stage'[t] \in {"reading", "verified"}, ~Taken(t)'
                   PROVE  canonical[FirstId[t]] \in {t, NoSession}
        BY <1>1 DEF EntryIsCurrent
      <3>1. stage[t] \in {"reading", "verified"} /\ ~Taken(t)
        BY <1>1, <1>5 DEF STypeOK
      <3> QED
        BY <2>2, <3>1 DEF Bound, EntryIsCurrent
    <2> QED
      BY <2>3, <2>4, <2>5 DEF Bound
  <1> QED
    BY <1>2, <1>6 DEF BindInv

\* AddFirst and AddBetter: the table gets the new session at its address, where
\* no other one is in its handshake.
LEMMA BindAdd ==
    ASSUME STypeOK, BindInv, NEW s \in Sessions,
           stage[s] = "new", UNCHANGED <<id, oldID, newID>>,
           canonical' = [canonical EXCEPT ![id[s]] = s],
           stage' = [stage EXCEPT ![s] = "reading"]
    PROVE  BindInv'
  <1>1. NewIsFirst' /\ OneAtATime'
    BY DEF STypeOK, BindInv, NewIsFirst, OneAtATime
  <1>2. ASSUME NoneLeavesTaken' PROVE Bound'
    <2>1. Bound
      BY <1>2 DEF BindInv, NoneLeavesTaken, Renamed, Taken
    <2>2. id[s] = FirstId[s] /\ id[s] \in Ids
      BY <2>1 DEF STypeOK, Bound, IdIsOwn
    <2>3. IdIsOwn' /\ OldIsFirst'
      BY <2>1 DEF STypeOK, Bound, IdIsOwn, OldIsFirst
    <2>4. EntryIsCurrent'
      <3> SUFFICES ASSUME NEW t \in Sessions, stage'[t] \in {"reading", "verified"}, ~Taken(t)'
                   PROVE  canonical'[FirstId[t]] \in {t, NoSession}
        BY DEF EntryIsCurrent
      <3>1. CASE t = s
        BY <2>2, <3>1 DEF STypeOK
      <3>2. CASE t # s
        <4>1. stage[t] \in {"reading", "verified"} /\ ~Taken(t)
          BY <3>2 DEF STypeOK, Taken, Renamed
        <4>2. FirstId[t] # FirstId[s]
          BY <3>2, <4>1 DEF BindInv, OneAtATime, Taken
        <4> QED
          BY <2>1, <2>2, <4>1, <4>2, SessionsAssumption DEF STypeOK, Bound, EntryIsCurrent
      <3> QED
        BY <3>1, <3>2
    <2> QED
      BY <2>3, <2>4 DEF Bound
  <1> QED
    BY <1>1, <1>2 DEF BindInv

\* RebindPeer: the session it moves is the one whose handler calls it.
LEMMA BindRebind ==
    ASSUME STypeOK, BindInv, NEW s \in Sessions, Rebind(s)
    PROVE  BindInv'
  <1> USE SessionsAssumption
  <1>1. /\ stage[s] = "verified" /\ stage' = [stage EXCEPT ![s] = "serving"]
        /\ UNCHANGED <<oldID, newID>>
    BY DEF Rebind
  <1>2. CASE RebindNothing(oldID[s], newID[s])
    BY <1>1, <1>2, BindStage DEF RebindNothing, table
  <1>3. CASE RebindWins(oldID[s], newID[s]) \/ RebindLoses(oldID[s], newID[s])
    <2>1. NewIsFirst' /\ OneAtATime'
      BY <1>1 DEF STypeOK, BindInv, NewIsFirst, OneAtATime
    <2>2. ASSUME NoneLeavesTaken' PROVE Bound'
      <3>1. NoneLeavesTaken /\ Bound
        BY <1>1, <2>2 DEF BindInv, NoneLeavesTaken, Renamed, Taken
      <3>2. oldID[s] = FirstId[s] /\ Renamed(s) /\ FirstId[s] \in Ids /\ newID[s] \in Ids
        BY <1>1, <1>3, <3>1 DEF STypeOK, RebindWins, RebindLoses, Bound, OldIsFirst, Renamed
      <3>3. canonical[FirstId[s]] = s
        BY <1>1, <1>3, <3>1, <3>2
           DEF RebindWins, RebindLoses, Bound, EntryIsCurrent, NoneLeavesTaken
      <3>4. /\ id' = [id EXCEPT ![s] = newID[s]]
            /\ \A i \in Ids : i # newID[s] => canonical'[i] \in {canonical[i], NoSession}
        <4>1. CASE RebindWins(oldID[s], newID[s])
          BY <3>2, <3>3, <4>1 DEF RebindWins, Moved, STypeOK
        <4>2. CASE RebindLoses(oldID[s], newID[s])
          BY <3>2, <3>3, <4>2 DEF RebindLoses, Moved, STypeOK
        <4> QED
          BY <1>3, <4>1, <4>2
      <3>5. IdIsOwn'
        BY <1>1, <3>1, <3>4 DEF STypeOK, Bound, IdIsOwn
      <3>6. OldIsFirst'
        BY <1>1, <3>1 DEF STypeOK, Bound, OldIsFirst
      <3>7. EntryIsCurrent'
        <4> SUFFICES ASSUME NEW t \in Sessions, stage'[t] \in {"reading", "verified"}, ~Taken(t)'
                     PROVE  canonical'[FirstId[t]] \in {t, NoSession}
          BY DEF EntryIsCurrent
        <4>1. t # s /\ stage[t] \in {"reading", "verified"} /\ ~Taken(t)
          BY <1>1 DEF STypeOK, Taken, Renamed
        <4>2. canonical[FirstId[t]] \in {t, NoSession} /\ FirstId[t] \in Ids
          BY <3>1, <4>1 DEF Bound, EntryIsCurrent
        <4>3. FirstId[t] # newID[s]
          BY <3>2, <4>1 DEF Taken
        <4> QED
          BY <3>4, <4>2, <4>3
      <3> QED
        BY <3>5, <3>6, <3>7 DEF Bound
    <2> QED
      BY <2>1, <2>2 DEF BindInv
  <1> QED
    BY <1>2, <1>3 DEF Rebind, RebindPeer

LEMMA BindClosePeer ==
    ASSUME STypeOK, BindInv, NEW i \in Ids, ClosePeer(i)
    PROVE  BindInv'
  <1>1. /\ UNCHANGED <<id, oldID, newID, stage>>
        /\ canonical' = [canonical EXCEPT ![i] = NoSession]
    BY DEF ClosePeer, link
  <1>2. NewIsFirst' /\ OneAtATime'
    BY <1>1 DEF BindInv, NewIsFirst, OneAtATime
  <1>3. ASSUME NoneLeavesTaken' PROVE Bound'
    <2>1. Bound
      BY <1>1, <1>3 DEF BindInv, NoneLeavesTaken, Renamed, Taken
    <2>2. EntryIsCurrent'
      BY <1>1, <2>1, SessionsAssumption DEF STypeOK, Bound, EntryIsCurrent, Taken, Renamed
    <2> QED
      BY <1>1, <2>1, <2>2 DEF Bound, IdIsOwn, OldIsFirst
  <1> QED
    BY <1>2, <1>3 DEF BindInv

LEMMA BindNext ==
    ASSUME STypeOK, BindInv, [SNext]_svars
    PROVE  BindInv'
  <1>1. CASE UNCHANGED svars
    BY <1>1 DEF svars, link, table, BindInv, NewIsFirst, OneAtATime, NoneLeavesTaken, Renamed,
                Taken, Bound, IdIsOwn, OldIsFirst, EntryIsCurrent
  <1>2. ASSUME NEW s \in Sessions, HangUp(s) \/ CloseDue(s) PROVE BindInv'
    BY <1>2, BindStage DEF HangUp, CloseDue, link, table
  <1>3. ASSUME NEW s \in Sessions, SessionEnds(s) \/ NoHandshake(s) PROVE BindInv'
    BY <1>3, BindStage DEF SessionEnds, NoHandshake, link, table
  <1>4. ASSUME NEW s \in Sessions, Hello(s) \/ \E i \in Acks[s] : HelloAck(s, i) PROVE BindInv'
    BY <1>4, BindHandshake, SessionsAssumption DEF Hello, HelloAck
  <1>5. ASSUME NEW s \in Sessions, AddSession(s) PROVE BindInv'
    <2>1. CASE AddFirst(s) \/ AddBetter(s)
      BY <1>5, <2>1, BindAdd DEF AddSession, AddFirst, AddBetter, link
    <2>2. CASE AddWorse(s)
      BY <1>5, <2>2, BindStage DEF AddSession, AddWorse, link, table
    <2> QED
      BY <1>5, <2>1, <2>2 DEF AddSession
  <1> QED
    BY <1>1, <1>2, <1>3, <1>4, <1>5, BindConnect, BindRebind, BindClosePeer DEF SNext

\* Whatever a Hello shows or a HelloAck names: as long as no session leaves an id
\* that another one has or takes, an id is bound only to a session that was
\* connected under it or whose own handshake has given it.
THEOREM BindingIsOwn == SSpec => []OwnBinding
  <1>1. STypeOK /\ BindInv /\ [SNext]_svars => BindInv'
    BY BindNext
  <1>2. STypeOK /\ CanonicalOwnsId /\ BindInv => OwnBinding
    BY DEF STypeOK, CanonicalOwnsId, BindInv, Bound, IdIsOwn, OwnBinding
  <1> QED
    BY <1>1, <1>2, BindInit, ManagerTypes, CanonicalIds, PTL DEF SSpec

-----------------------------------------------------------------------------
(* What the goroutines do to the store changes nothing for the manager.    *)

\* Every step of NodeLinks is a step of SessionManager or leaves the manager
\* alone, so that whatever is proved of the manager holds of the whole.
THEOREM LinksRefineManager == LSpec => SSpec
  <1>1. LInit => SInit
    BY DEF LInit
  <1>2. [LNext]_lvars => [SNext]_svars
    <2> SUFFICES ASSUME [LNext]_lvars PROVE [SNext]_svars
      OBVIOUS
    <2>1. CASE UNCHANGED lvars
      BY <2>1 DEF lvars
    <2>2. ASSUME NEW s \in Sessions,
                 LConnect(s) \/ LAddSession(s) \/ LHandshake(s) \/ LRebind(s)
                     \/ OpenFails(s) \/ LSessionEnds(s) \/ LHangUp(s) \/ LCloseDue(s)
          PROVE  SNext
      BY <2>2 DEF LConnect, OpenFails, LAddSession, LHandshake, LRebind, LSessionEnds, LHangUp,
                  LCloseDue, SNext
    <2>3. ASSUME NEW s \in Sessions,
                 Linked(s) \/ Upsert(s) \/ Adjacent(s) \/ DeletePeer(s) \/ Unindex(s)
          PROVE  UNCHANGED svars
      BY <2>3 DEF Linked, Upsert, Adjacent, DeletePeer, Unindex
    <2>4. ASSUME NEW i \in Ids, Expire(i) PROVE UNCHANGED svars
      BY <2>4 DEF Expire
    <2>5. ASSUME NEW i \in Ids, LClosePeer(i) PROVE SNext
      BY <2>5 DEF LClosePeer, SNext
    <2> QED
      BY <2>1, <2>2, <2>3, <2>4, <2>5 DEF LNext
  <1> QED
    BY <1>1, <1>2, PTL DEF LSpec, SSpec

-----------------------------------------------------------------------------
(* Records and handlers.  WillDelete is not inductive: the id a handler    *)
(* will clean up changes when its handshake ends.  A record is tied to a   *)
(* handler that has written it, and whose id does not change any more.     *)

\* The handler of s has written the record of i, or is past the point where it
\* could have, and has not deleted it.
Owner(s, i) ==
    /\ newID[s] = i
    /\ \/ step[s] = "adjacent"
       \/ curID[s] = i /\ step[s] = "none" /\ stage[s] = "serving"
       \/ curID[s] = i /\ step[s] = "delete"

\* Which steps on the store go with which stage of the session.
StepOfStage ==
    \A s \in Sessions :
        /\ stage[s] \in {"none", "new", "verified"} => step[s] = "none"
        /\ step[s] \in {"upsert", "adjacent"} => stage[s] = "serving"

Owned == \A i \in known : \E s \in Sessions : Owner(s, i)

HandlerTypes ==
    /\ curID \in [Sessions -> Ids]
    /\ step \in [Sessions -> Steps]

RecInv == HandlerTypes /\ StepOfStage /\ Owned

\* A step of s that keeps what s owns, and writes no record.
LEMMA KeepsOwned ==
    ASSUME RecInv, NEW s \in Sessions, known' \subseteq known,
           \A t \in Sessions \ {s} :
               /\ step'[t] = step[t] /\ stage'[t] = stage[t]
               /\ curID'[t] = curID[t] /\ newID'[t] = newID[t],
           \A i \in known' : Owner(s, i) => Owner(s, i)'
    PROVE  Owned'
  <1> SUFFICES ASSUME NEW i \in known' PROVE \E t \in Sessions : Owner(t, i)'
    BY DEF Owned
  <1>1. PICK t \in Sessions : Owner(t, i)
    BY DEF RecInv, Owned
  <1>2. Owner(t, i)'
    BY <1>1 DEF Owner
  <1> QED
    BY <1>2

LEMMA RecNext ==
    ASSUME STypeOK, RecInv, [LNext]_lvars
    PROVE  RecInv'
  <1> USE SessionsAssumption
  <1>1. CASE UNCHANGED lvars
    BY <1>1 DEF lvars, svars, link, store, record, RecInv, HandlerTypes, StepOfStage, Owned, Owner
  <1>2. ASSUME NEW s \in Sessions, LConnect(s) PROVE RecInv'
    <2>1. /\ UNCHANGED <<known, curID, step, newID>> /\ step[s] = "none"
          /\ stage[s] = "none" /\ stage' = [stage EXCEPT ![s] = "new"]
      BY <1>2 DEF LConnect, Connect, store, record
    <2>2. Owned'
      BY <2>1, KeepsOwned DEF STypeOK, Owner
    <2> QED
      BY <2>1, <2>2 DEF STypeOK, RecInv, HandlerTypes, StepOfStage
  <1>3. ASSUME NEW s \in Sessions, LAddSession(s) PROVE RecInv'
    <2>1. /\ UNCHANGED <<known, curID, newID>> /\ step[s] = "none"
          /\ stage[s] = "new"
          /\ \E x \in {"reading", "ended"} : stage' = [stage EXCEPT ![s] = x]
          /\ \E x \in {"linked", "none"} : step' = [step EXCEPT ![s] = x]
      BY <1>3 DEF LAddSession, AddSession, AddFirst, AddBetter, AddWorse, Goes, store, record, link,
                  RecInv, StepOfStage
    <2>2. Owned'
      BY <2>1, KeepsOwned DEF STypeOK, RecInv, HandlerTypes, Owner
    <2> QED
      BY <2>1, <2>2 DEF STypeOK, RecInv, HandlerTypes, StepOfStage, Steps
  <1>4. ASSUME NEW s \in Sessions, Linked(s) PROVE RecInv'
    <2>1. /\ UNCHANGED <<known, stage, newID>> /\ step[s] = "linked"
          /\ step' = [step EXCEPT ![s] = "none"]
          /\ curID' = [curID EXCEPT ![s] = id[s]] /\ id[s] \in Ids
      BY <1>4 DEF Linked, EnterLink, Goes, svars, link, STypeOK
    <2>2. Owned'
      BY <2>1, KeepsOwned DEF RecInv, HandlerTypes, Owner
    <2> QED
      BY <2>1, <2>2 DEF RecInv, HandlerTypes, StepOfStage, Steps
  <1>5. ASSUME NEW s \in Sessions, LHandshake(s) PROVE RecInv'
    <2>1. /\ UNCHANGED <<known, curID, step>> /\ step[s] = "none"
          /\ stage[s] = "reading"
          /\ \A t \in Sessions \ {s} : newID'[t] = newID[t]
          /\ \E x \in {"verified", "serving"} : stage' = [stage EXCEPT ![s] = x]
      BY <1>5 DEF LHandshake, Hello, HelloAck, Handshake, NoHandshake, store, record, link, STypeOK
    <2>2. Owned'
      BY <2>1, KeepsOwned DEF STypeOK, Owner
    <2> QED
      BY <2>1, <2>2 DEF STypeOK, RecInv, HandlerTypes, StepOfStage
  <1>6. ASSUME NEW s \in Sessions, LRebind(s) PROVE RecInv'
    <2>1. /\ UNCHANGED <<known, curID, newID>> /\ step[s] = "none"
          /\ stage[s] = "verified" /\ stage' = [stage EXCEPT ![s] = "serving"]
          /\ step' = [step EXCEPT ![s] = "upsert"]
      BY <1>6 DEF LRebind, Rebind, Goes, store, record, RecInv, StepOfStage
    <2>2. Owned'
      BY <2>1, KeepsOwned DEF STypeOK, RecInv, HandlerTypes, Owner
    <2> QED
      BY <2>1, <2>2 DEF STypeOK, RecInv, HandlerTypes, StepOfStage, Steps
  <1>7. ASSUME NEW s \in Sessions, Upsert(s) PROVE RecInv'
    <2>1. /\ UNCHANGED <<curID, stage, newID>> /\ step[s] = "upsert"
          /\ step' = [step EXCEPT ![s] = "adjacent"]
          /\ known' = known \cup {newID[s]}
      BY <1>7 DEF Upsert, Goes, svars, link
    <2>2. Owner(s, newID[s])'
      BY <2>1 DEF RecInv, HandlerTypes, Owner
    <2>3. ASSUME NEW i \in known PROVE \E t \in Sessions : Owner(t, i)'
      <3>1. PICK t \in Sessions : Owner(t, i)
        BY DEF RecInv, Owned
      <3>2. t # s
        BY <2>1, <3>1 DEF Owner
      <3>3. Owner(t, i)'
        BY <2>1, <3>1, <3>2 DEF RecInv, HandlerTypes, Owner
      <3> QED
        BY <3>3
    <2>4. Owned'
      BY <2>1, <2>2, <2>3 DEF Owned
    <2> QED
      BY <2>1, <2>4 DEF RecInv, HandlerTypes, StepOfStage, Steps
  <1>8. ASSUME NEW s \in Sessions, Adjacent(s) PROVE RecInv'
    <2>1. /\ UNCHANGED <<known, stage, newID>> /\ step[s] = "adjacent" /\ stage[s] = "serving"
          /\ step' = [step EXCEPT ![s] = "none"]
          /\ curID' = [curID EXCEPT ![s] = newID[s]]
      BY <1>8 DEF Adjacent, Goes, svars, link, RecInv, StepOfStage
    <2>2. Owned'
      BY <2>1, KeepsOwned DEF RecInv, HandlerTypes, Owner
    <2> QED
      BY <2>1, <2>2 DEF STypeOK, RecInv, HandlerTypes, StepOfStage, Steps
  <1>9. ASSUME NEW s \in Sessions, LSessionEnds(s) PROVE RecInv'
    <2>1. /\ UNCHANGED <<known, curID, newID>> /\ step[s] = "none"
          /\ stage' = [stage EXCEPT ![s] = "ended"]
          /\ step' = [step EXCEPT ![s] = "delete"]
      BY <1>9 DEF LSessionEnds, SessionEnds, Goes, store, record, link
    <2>2. Owned'
      BY <2>1, KeepsOwned DEF STypeOK, RecInv, HandlerTypes, Owner
    <2> QED
      BY <2>1, <2>2 DEF STypeOK, RecInv, HandlerTypes, StepOfStage, Steps
  <1>10. ASSUME NEW s \in Sessions, DeletePeer(s) PROVE RecInv'
    <2>1. /\ UNCHANGED <<curID, stage, newID>> /\ step[s] = "delete"
          /\ step' = [step EXCEPT ![s] = "unindex"]
          /\ known' = known \ {curID[s]}
      BY <1>10 DEF DeletePeer, Goes, svars, link
    <2>2. Owned'
      BY <2>1, KeepsOwned DEF RecInv, HandlerTypes, Owner
    <2>3. StepOfStage'
      BY <2>1 DEF RecInv, HandlerTypes, StepOfStage
    <2> QED
      BY <2>1, <2>2, <2>3 DEF RecInv, HandlerTypes, Steps
  <1>11. ASSUME NEW s \in Sessions, Unindex(s) PROVE RecInv'
    <2>1. /\ UNCHANGED <<known, curID, stage, newID>> /\ step[s] = "unindex"
          /\ step' = [step EXCEPT ![s] = "none"]
      BY <1>11 DEF Unindex, Goes, svars, link
    <2>2. Owned'
      BY <2>1, KeepsOwned DEF RecInv, HandlerTypes, Owner
    <2> QED
      BY <2>1, <2>2 DEF RecInv, HandlerTypes, StepOfStage, Steps
  <1>12. ASSUME NEW s \in Sessions, LHangUp(s) \/ LCloseDue(s) PROVE RecInv'
    <2>1. UNCHANGED <<known, curID, step, stage, newID>>
      BY <1>12 DEF LHangUp, LCloseDue, HangUp, CloseDue, store, record, link
    <2> QED
      BY <2>1 DEF RecInv, HandlerTypes, StepOfStage, Owned, Owner
  <1>13. ASSUME NEW i \in Ids, Expire(i) PROVE RecInv'
    <2>1. UNCHANGED <<curID, step, stage, newID>> /\ known' \subseteq known
      BY <1>13 DEF Expire, svars, link
    <2> QED
      BY <2>1 DEF RecInv, HandlerTypes, StepOfStage, Owned, Owner
  <1>14. ASSUME NEW s \in Sessions, OpenFails(s) PROVE RecInv'
    <2>1. /\ UNCHANGED <<known, curID, newID>> /\ step[s] = "linked"
          /\ stage' = [stage EXCEPT ![s] = "ended"]
          /\ step' = [step EXCEPT ![s] = "none"]
      BY <1>14 DEF OpenFails, EnterLink, SessionEnds, Goes, link
    <2>2. Owned'
      BY <2>1, KeepsOwned DEF STypeOK, RecInv, HandlerTypes, Owner
    <2> QED
      BY <2>1, <2>2 DEF STypeOK, RecInv, HandlerTypes, StepOfStage, Steps
  <1>15. ASSUME NEW i \in Ids, LClosePeer(i) PROVE RecInv'
    <2>1. UNCHANGED <<known, curID, step, stage, newID>>
      BY <1>15 DEF LClosePeer, ClosePeer, store, record, link
    <2> QED
      BY <2>1 DEF RecInv, HandlerTypes, StepOfStage, Owned, Owner
  <1> QED
    BY <1>1, <1>2, <1>3, <1>4, <1>5, <1>6, <1>7, <1>8, <1>9, <1>10, <1>11, <1>12, <1>13, <1>14,
       <1>15
       DEF LNext

\* A peer's record never outlives the last handler of a session to that peer.
THEOREM RecordsAreCleanedUp == LSpec => []RecordHasHandler
  <1>1. LInit => RecInv
    BY SessionsAssumption
       DEF LInit, SInit, RecInv, HandlerTypes, StepOfStage, Owned, Steps
  <1>2. STypeOK /\ RecInv /\ [LNext]_lvars => RecInv'
    BY RecNext
  <1>3. RecInv => RecordHasHandler
    <2> SUFFICES ASSUME RecInv, NEW i \in known PROVE \E s \in Sessions : WillDelete(s, i)
      BY DEF RecordHasHandler
    <2>1. PICK s \in Sessions : Owner(s, i)
      BY DEF RecInv, Owned
    <2>2. WillDelete(s, i)
      BY <2>1 DEF Owner, WillDelete
    <2> QED
      BY <2>2
  <1> QED
    BY <1>1, <1>2, <1>3, ManagerTypes, LinksRefineManager, PTL DEF LSpec
=============================================================================
