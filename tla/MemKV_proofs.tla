---------------------------- MODULE MemKV_proofs ----------------------------
(***************************************************************************)
(* Proofs about MemKV for every set of keys and clients, every limit and   *)
(* every bound.                                                            *)
(***************************************************************************)
EXTENDS MemKV, FiniteSetTheorems, TLAPS

USE DEF Times

\* A client inside an operation knows which key it works on, and one that is
\* about to move a deadline holds a real one.
LocalsOK ==
    \A c \in Clients :
        /\ cli[c].pc # "idle" => cli[c].key \in Keys
        /\ cli[c].pc = "expire" => cli[c].at # 0

\* The expirer holds a key exactly when it has popped an item.
HoldsKey == expirer.pc \in {"popped", "check"} => expirer.key \in Keys

TypeInv == TypeOK /\ LocalsOK /\ HoldsKey

-----------------------------------------------------------------------------

\* The helpers shared by the operations keep the types of what they assign.
LEMMA UncountTypes ==
    ASSUME TypeOK, NEW n \in Nat, Uncount(n)
    PROVE  mKeys' \in Int /\ mBytes' \in Nat
  BY DEF TypeOK, Uncount, AddBytesDelta

LEMMA EvictTypes ==
    ASSUME TypeOK, NEW k \in Keys, NEW t, EvictIfDue(k, t)
    PROVE  /\ m' \in [Keys -> Entry \cup {None}]
           /\ mKeys' \in Int
           /\ mBytes' \in Nat
  <1>1. CASE Due(k, t)
    <2>1. m[k] \in Entry
      BY <1>1 DEF Due, TypeOK
    <2>2. m[k].len \in Nat
      BY <2>1 DEF Entry
    <2>3. m' = [m EXCEPT ![k] = None] /\ Uncount(m[k].len)
      BY <1>1 DEF EvictIfDue
    <2> QED
      BY <2>2, <2>3, UncountTypes DEF TypeOK
  <1>2. CASE ~Due(k, t)
    BY <1>2 DEF EvictIfDue, TypeOK
  <1> QED
    BY <1>1, <1>2

LEMMA EnqueueTypes ==
    ASSUME TypeOK, HoldsKey, NEW k \in Keys, NEW t \in 1..MaxTime,
           EnqueueExpire(k, t)
    PROVE  /\ expq' \in [Items -> Nat]
           /\ cond' \in BOOLEAN
           /\ expirer' \in Expirer
           /\ HoldsKey'
  <1>1. <<k, t>> \in Items
    BY DEF Items
  <1>2. expq' \in [Items -> Nat]
    BY <1>1 DEF EnqueueExpire, TypeOK
  <1>3. expirer' \in Expirer /\ HoldsKey'
    BY BoundsAssumption DEF EnqueueExpire, Broadcast, ExpirerAt, Expirer, TypeOK, HoldsKey
  <1> QED
    BY <1>2, <1>3 DEF EnqueueExpire

LEMMA GotoTypes ==
    ASSUME TypeOK, LocalsOK, NEW c \in Clients,
           NEW pc \in {"set", "get", "update", "expire", "ttl", "account"},
           NEW k \in Keys, NEW n \in Nat, NEW t \in Times,
           pc = "expire" => t # 0,
           Goto(c, pc, k, n, t)
    PROVE  cli' \in [Clients -> Local] /\ LocalsOK'
  <1> DEFINE r == [pc |-> pc, key |-> k, len |-> n, at |-> t]
  <1>1. r \in Local
    BY DEF Local
  <1>2. cli' = [cli EXCEPT ![c] = r]
    BY DEF Goto
  <1>3. cli' \in [Clients -> Local]
    BY <1>1, <1>2 DEF TypeOK
  <1>4. LocalsOK'
    BY <1>2 DEF TypeOK, LocalsOK
  <1> QED
    BY <1>3, <1>4

LEMMA ReturnTypes ==
    ASSUME TypeOK, LocalsOK, NEW c \in Clients, Return(c)
    PROVE  cli' \in [Clients -> Local] /\ LocalsOK'
  BY BoundsAssumption DEF Return, Idle, Local, TypeOK, LocalsOK

LEMMA RemoveTypes ==
    ASSUME TypeOK, LocalsOK, NEW c \in Clients, NEW k \in Keys,
           RemoveThenAccount(c, k)
    PROVE  /\ m' \in [Keys -> Entry \cup {None}]
           /\ cli' \in [Clients -> Local]
           /\ LocalsOK'
  <1>1. m[k].len \in Nat
    BY DEF RemoveThenAccount, TypeOK, Entry
  <1>2. 0 \in Times
    BY BoundsAssumption
  <1>3. cli' \in [Clients -> Local] /\ LocalsOK'
    BY <1>1, <1>2, GotoTypes DEF RemoveThenAccount
  <1> QED
    BY <1>3 DEF RemoveThenAccount, TypeOK

LEMMA InitTypeInv == Init => TypeInv
  <1> SUFFICES ASSUME Init PROVE TypeInv
    OBVIOUS
  <1>1. Idle \in Local /\ ExpirerAt("top") \in Expirer /\ 1 \in Times
    BY BoundsAssumption DEF Idle, Local, ExpirerAt, Expirer
  <1>2. TypeOK
    <2>1. m \in [Keys -> Entry \cup {None}] /\ expq \in [Items -> Nat] /\ cli \in [Clients -> Local]
      BY <1>1 DEF Init
    <2>2. leaked \in [keys : Nat, bytes : Nat]
      BY DEF Init
    <2>3. cond \in BOOLEAN /\ closed \in BOOLEAN
      BY Zenon DEF Init
    <2>4. now \in Times /\ mKeys \in Int /\ mBytes \in Nat /\ ops \in Nat /\ expirer \in Expirer
      BY <1>1 DEF Init
    <2> QED
      BY <2>1, <2>2, <2>3, <2>4 DEF Init, TypeOK
  <1>3. LocalsOK /\ HoldsKey
    BY DEF Init, LocalsOK, HoldsKey, Idle, ExpirerAt
  <1> QED
    BY <1>2, <1>3 DEF TypeInv

\* Every step keeps the types: one case per action of Next.
LEMMA NextTypeInv == TypeInv /\ [Next]_vars => TypeInv'
  <1> SUFFICES ASSUME TypeOK, LocalsOK, HoldsKey, [Next]_vars
               PROVE  TypeOK' /\ LocalsOK' /\ HoldsKey'
    BY DEF TypeInv
  <1> USE DEF env, store, expiry
  <1>0. 0 \in Times /\ now \in Times
    BY BoundsAssumption DEF TypeOK
  <1>1. ASSUME NEW c \in Clients, SetStart(c)
        PROVE  TypeOK' /\ LocalsOK' /\ HoldsKey'
    <2>1. PICK k \in Keys, n \in Lens, ttl \in TTLs :
              \E t \in Deadlines(ttl) : Goto(c, "set", k, n, t)
      BY <1>1 DEF SetStart
    <2>2. PICK t \in Deadlines(ttl) : Goto(c, "set", k, n, t)
      BY <2>1
    <2>3. t \in Times /\ n \in Nat
      BY <1>0, <2>2, LensAssumption DEF Deadlines
    <2>4. cli' \in [Clients -> Local] /\ LocalsOK'
      BY <2>2, <2>3, GotoTypes
    <2> QED
      BY <1>1, <2>4 DEF SetStart, Start, TypeOK, HoldsKey
  <1>2. ASSUME NEW c \in Clients, SetRejected(c)
        PROVE  TypeOK' /\ LocalsOK' /\ HoldsKey'
    BY <1>2, ReturnTypes DEF SetRejected, TypeOK, HoldsKey
  <1>3. ASSUME NEW c \in Clients, SetLocked(c)
        PROVE  TypeOK' /\ LocalsOK' /\ HoldsKey'
    <2> DEFINE k == cli[c].key
               n == cli[c].len
               t == cli[c].at
    <2>1. k \in Keys /\ n \in Nat /\ t \in Times
      BY <1>3 DEF SetLocked, LocalsOK, TypeOK, Local
    <2>2. OldLen(k) \in Nat
      BY <2>1 DEF OldLen, TypeOK, Entry
    <2>3. mBytes' \in Nat /\ mKeys' \in Int
      BY <1>3, <2>1, <2>2 DEF SetLocked, AddBytesDelta, CountSet, TypeOK
    <2>4. [len |-> n, expireAt |-> t] \in Entry
      BY <2>1 DEF Entry
    <2>5. m' \in [Keys -> Entry \cup {None}]
      BY <1>3, <2>1, <2>4 DEF SetLocked, TypeOK
    <2>6. expq' \in [Items -> Nat] /\ cond' \in BOOLEAN /\ expirer' \in Expirer /\ HoldsKey'
      <3>1. CASE t = 0
        BY <1>3, <3>1 DEF SetLocked, TypeOK, HoldsKey
      <3>2. CASE t # 0
        <4>1. EnqueueExpire(k, t)
          BY <1>3, <3>2 DEF SetLocked
        <4>2. t \in 1..MaxTime
          BY <2>1, <3>2
        <4> QED
          BY <2>1, <4>1, <4>2, EnqueueTypes
      <3> QED
        BY <3>1, <3>2
    <2>7. cli' \in [Clients -> Local] /\ LocalsOK'
      BY <1>3, ReturnTypes DEF SetLocked
    <2> QED
      BY <1>3, <2>3, <2>5, <2>6, <2>7 DEF SetLocked, TypeOK
  <1>4. ASSUME NEW c \in Clients, GetRead(c)
        PROVE  TypeOK' /\ LocalsOK' /\ HoldsKey'
    <2>1. PICK k \in Live : Goto(c, "get", k, 0, m[k].expireAt)
      BY <1>4 DEF GetRead
    <2>2. k \in Keys /\ m[k].expireAt \in Times
      BY DEF Live, TypeOK, Entry
    <2>3. cli' \in [Clients -> Local] /\ LocalsOK'
      BY <2>1, <2>2, GotoTypes
    <2> QED
      BY <1>4, <2>3 DEF GetRead, Start, TypeOK, HoldsKey
  <1>5. ASSUME NEW c \in Clients, GetCheck(c)
        PROVE  TypeOK' /\ LocalsOK' /\ HoldsKey'
    <2>1. cli[c].key \in Keys
      BY <1>5 DEF GetCheck, LocalsOK
    <2>2. m' \in [Keys -> Entry \cup {None}] /\ mKeys' \in Int /\ mBytes' \in Nat
      BY <1>5, <2>1, EvictTypes DEF GetCheck, TypeOK
    <2>3. cli' \in [Clients -> Local] /\ LocalsOK'
      BY <1>5, ReturnTypes DEF GetCheck
    <2> QED
      BY <1>5, <2>2, <2>3 DEF GetCheck, TypeOK, HoldsKey
  <1>6. ASSUME NEW c \in Clients, GetDel(c) \/ Delete(c)
        PROVE  TypeOK' /\ LocalsOK' /\ HoldsKey'
    <2>1. PICK k \in Live : RemoveThenAccount(c, k)
      BY <1>6 DEF GetDel, Delete
    <2>2. m' \in [Keys -> Entry \cup {None}] /\ cli' \in [Clients -> Local] /\ LocalsOK'
      BY <2>1, RemoveTypes DEF Live
    <2> QED
      BY <1>6, <2>1, <2>2 DEF GetDel, Delete, Start, RemoveThenAccount, TypeOK, HoldsKey
  <1>7. ASSUME NEW c \in Clients, Account(c)
        PROVE  TypeOK' /\ LocalsOK' /\ HoldsKey'
    <2>1. cli[c].len \in Nat
      BY DEF TypeOK, Local
    <2>2. mKeys' \in Int /\ mBytes' \in Nat
      BY <1>7, <2>1, UncountTypes DEF Account
    <2>3. cli' \in [Clients -> Local] /\ LocalsOK'
      BY <1>7, ReturnTypes DEF Account
    <2> QED
      BY <1>7, <2>2, <2>3 DEF Account, TypeOK, HoldsKey
  <1>8. ASSUME NEW c \in Clients, UpdateStart(c)
        PROVE  TypeOK' /\ LocalsOK' /\ HoldsKey'
    <2>1. PICK k \in Keys, n \in Lens : Goto(c, "update", k, n, now)
      BY <1>8 DEF UpdateStart
    <2>2. cli' \in [Clients -> Local] /\ LocalsOK'
      BY <1>0, <2>1, GotoTypes, LensAssumption
    <2> QED
      BY <1>8, <2>2 DEF UpdateStart, Start, TypeOK, HoldsKey
  <1>9. ASSUME NEW c \in Clients, UpdateFails(c)
        PROVE  TypeOK' /\ LocalsOK' /\ HoldsKey'
    BY <1>9, ReturnTypes DEF UpdateFails, TypeOK, HoldsKey
  <1>10. ASSUME NEW c \in Clients, UpdateDrops(c)
         PROVE  TypeOK' /\ LocalsOK' /\ HoldsKey'
    <2>1. cli[c].key \in Keys
      BY <1>10 DEF UpdateDrops, LocalsOK
    <2>2. m[cli[c].key].len \in Nat
      BY <1>10, <2>1 DEF UpdateDrops, Due, TypeOK, Entry
    <2>3. cli' \in [Clients -> Local] /\ LocalsOK'
      BY <1>10, ReturnTypes DEF UpdateDrops
    <2> QED
      BY <1>10, <2>1, <2>2, <2>3 DEF UpdateDrops, TypeOK, HoldsKey
  <1>11. ASSUME NEW c \in Clients, UpdateLocked(c)
         PROVE  TypeOK' /\ LocalsOK' /\ HoldsKey'
    <2>1. cli[c].key \in Keys /\ cli[c].len \in Nat
      BY <1>11 DEF UpdateLocked, LocalsOK, TypeOK, Local
    <2>2. m[cli[c].key] \in Entry
      BY <1>11, <2>1 DEF UpdateLocked, TypeOK
    <2>3. m' \in [Keys -> Entry \cup {None}] /\ mBytes' \in Nat
      BY <1>11, <2>1, <2>2 DEF UpdateLocked, AddBytesDelta, TypeOK, Entry
    <2>4. cli' \in [Clients -> Local] /\ LocalsOK'
      BY <1>11, ReturnTypes DEF UpdateLocked
    <2> QED
      BY <1>11, <2>3, <2>4 DEF UpdateLocked, TypeOK, HoldsKey
  <1>12. ASSUME NEW c \in Clients, ExpireStart(c)
         PROVE  TypeOK' /\ LocalsOK' /\ HoldsKey'
    <2>1. PICK k \in Keys, ttl \in TTLs \ {0} :
              now + ttl \in Times /\ Goto(c, "expire", k, 0, now + ttl)
      BY <1>12 DEF ExpireStart
    <2>2. now + ttl # 0
      BY <1>0, <2>1, TTLsAssumption
    <2>3. cli' \in [Clients -> Local] /\ LocalsOK'
      BY <2>1, <2>2, GotoTypes
    <2> QED
      BY <1>12, <2>3 DEF ExpireStart, Start, TypeOK, HoldsKey
  <1>13. ASSUME NEW c \in Clients, ExpireFails(c)
         PROVE  TypeOK' /\ LocalsOK' /\ HoldsKey'
    <2>1. cli[c].key \in Keys
      BY <1>13 DEF ExpireFails, LocalsOK
    <2>2. m' \in [Keys -> Entry \cup {None}] /\ mKeys' \in Int /\ mBytes' \in Nat
      BY <1>13, <2>1, EvictTypes DEF ExpireFails
    <2>3. cli' \in [Clients -> Local] /\ LocalsOK'
      BY <1>13, ReturnTypes DEF ExpireFails
    <2> QED
      BY <1>13, <2>2, <2>3 DEF ExpireFails, TypeOK, HoldsKey
  <1>14. ASSUME NEW c \in Clients, ExpireLocked(c)
         PROVE  TypeOK' /\ LocalsOK' /\ HoldsKey'
    <2>1. cli[c].key \in Keys /\ cli[c].at \in 1..MaxTime
      BY <1>14 DEF ExpireLocked, LocalsOK, TypeOK, Local
    <2>2. m[cli[c].key] \in Entry
      BY <1>14, <2>1 DEF ExpireLocked, TypeOK
    <2>3. m' \in [Keys -> Entry \cup {None}]
      BY <1>14, <2>1, <2>2 DEF ExpireLocked, TypeOK, Entry
    <2>4. expq' \in [Items -> Nat] /\ cond' \in BOOLEAN /\ expirer' \in Expirer /\ HoldsKey'
      BY <1>14, <2>1, EnqueueTypes DEF ExpireLocked
    <2>5. cli' \in [Clients -> Local] /\ LocalsOK'
      BY <1>14, ReturnTypes DEF ExpireLocked
    <2> QED
      BY <1>14, <2>3, <2>4, <2>5 DEF ExpireLocked, TypeOK
  <1>15. ASSUME NEW c \in Clients, TTLRead(c)
         PROVE  TypeOK' /\ LocalsOK' /\ HoldsKey'
    <2>1. PICK k \in Live : Goto(c, "ttl", k, 0, m[k].expireAt)
      BY <1>15 DEF TTLRead
    <2>2. k \in Keys /\ m[k].expireAt \in Times
      BY DEF Live, TypeOK, Entry
    <2>3. cli' \in [Clients -> Local] /\ LocalsOK'
      BY <2>1, <2>2, GotoTypes
    <2> QED
      BY <1>15, <2>3 DEF TTLRead, Start, TypeOK, HoldsKey
  <1>16. ASSUME NEW c \in Clients, TTLAnswers(c)
         PROVE  TypeOK' /\ LocalsOK' /\ HoldsKey'
    BY <1>16, ReturnTypes DEF TTLAnswers, TypeOK, HoldsKey
  <1>17. ASSUME NEW c \in Clients, TTLDeletes(c)
         PROVE  TypeOK' /\ LocalsOK' /\ HoldsKey'
    <2>1. cli[c].key \in Keys /\ RemoveThenAccount(c, cli[c].key)
      BY <1>17 DEF TTLDeletes, LocalsOK
    <2>2. m' \in [Keys -> Entry \cup {None}] /\ cli' \in [Clients -> Local] /\ LocalsOK'
      BY <2>1, RemoveTypes
    <2> QED
      BY <1>17, <2>1, <2>2 DEF TTLDeletes, RemoveThenAccount, TypeOK, HoldsKey
  <1>18. ASSUME Scan
         PROVE  /\ expq' \in [Items -> Nat]
                /\ cond' \in BOOLEAN
                /\ expirer' \in Expirer
                /\ HoldsKey'
    <2>1. CASE /\ expirer' = ExpirerAt(IF closed THEN "done" ELSE "wait")
               /\ cond' = TRUE
               /\ UNCHANGED expq
      BY <1>0, <2>1 DEF ExpirerAt, Expirer, TypeOK, HoldsKey
    <2>2. ASSUME NEW it \in Nearest, it[2] > now,
                 expirer' = [pc |-> "sleep", key |-> None, when |-> it[2], nowN |-> 0],
                 UNCHANGED <<expq, cond>>
          PROVE  /\ expq' \in [Items -> Nat] /\ cond' \in BOOLEAN
                 /\ expirer' \in Expirer /\ HoldsKey'
      BY <1>0, <2>2 DEF Nearest, Queued, Items, Expirer, TypeOK, HoldsKey
    <2>3. ASSUME NEW it \in Nearest, it[2] <= now,
                 expirer' = [pc |-> "popped", key |-> it[1], when |-> it[2], nowN |-> 0],
                 expq' = [expq EXCEPT ![it] = @ - 1],
                 UNCHANGED cond
          PROVE  /\ expq' \in [Items -> Nat] /\ cond' \in BOOLEAN
                 /\ expirer' \in Expirer /\ HoldsKey'
      <3>1. it \in Items /\ expq[it] \in Nat /\ expq[it] > 0
        BY DEF Nearest, Queued, TypeOK
      <3>2. it[1] \in Keys /\ it[2] \in Times
        BY <3>1 DEF Items
      <3> QED
        BY <1>0, <2>3, <3>1, <3>2 DEF Expirer, TypeOK, HoldsKey
    <2> QED
      BY <1>18, <2>1, <2>2, <2>3 DEF Scan
  <1>19. CASE ExpirerTop
    BY <1>18, <1>19 DEF ExpirerTop, TypeOK, LocalsOK
  <1>20. CASE ExpirerWoken
    <2>1. CASE closed
      BY <1>0, <1>20, <2>1 DEF ExpirerWoken, ExpirerAt, Expirer, TypeOK, LocalsOK, HoldsKey
    <2>2. CASE ~closed
      BY <1>18, <1>20, <2>2 DEF ExpirerWoken, TypeOK, LocalsOK
    <2> QED
      BY <2>1, <2>2
  <1>21. CASE ExpirerTimer
    BY <1>0, <1>21 DEF ExpirerTimer, ExpirerAt, Expirer, TypeOK, LocalsOK, HoldsKey
  <1>22. CASE ExpirerReadsClock
    BY <1>0, <1>22 DEF ExpirerReadsClock, Expirer, TypeOK, LocalsOK, HoldsKey
  <1>23. CASE ExpirerEvicts
    <2>1. expirer.key \in Keys
      BY <1>23 DEF ExpirerEvicts, HoldsKey
    <2>2. m' \in [Keys -> Entry \cup {None}] /\ mKeys' \in Int /\ mBytes' \in Nat
      BY <1>23, <2>1, EvictTypes DEF ExpirerEvicts
    <2> QED
      BY <1>0, <1>23, <2>2
      DEF ExpirerEvicts, ExpirerAt, Expirer, TypeOK, LocalsOK, HoldsKey
  <1>24. CASE CloseCh \/ CloseJoin
    BY <1>24 DEF CloseCh, CloseJoin, TypeOK, LocalsOK, HoldsKey
  <1>25. CASE CloseBroadcast
    BY <1>0, <1>25
    DEF CloseBroadcast, Broadcast, ExpirerAt, Expirer, TypeOK, LocalsOK, HoldsKey
  <1>26. CASE Tick
    BY <1>26, BoundsAssumption DEF Tick, TypeOK, LocalsOK, HoldsKey
  <1>27. CASE UNCHANGED vars
    BY <1>27 DEF vars, TypeOK, LocalsOK, HoldsKey
  <1> QED
    BY <1>1, <1>2, <1>3, <1>4, <1>5, <1>6, <1>7, <1>8, <1>9, <1>10, <1>11,
       <1>12, <1>13, <1>14, <1>15, <1>16, <1>17, <1>19, <1>20, <1>21, <1>22,
       <1>23, <1>24, <1>25, <1>26, <1>27
    DEF Next, Call, Finish, ExpirerStep

\* Every reachable state of the store is well typed.
THEOREM TypeCorrect == Spec => []TypeOK
  <1>1. Spec => []TypeInv
    BY InitTypeInv, NextTypeInv, PTL DEF Spec
  <1>2. TypeInv => TypeOK
    BY DEF TypeInv
  <1> QED
    BY <1>1, <1>2, PTL

-----------------------------------------------------------------------------
(* TTLTracked: no deadline is forgotten.                                   *)

Held == expirer.pc \in {"popped", "check"}

\* What a step may do to an entry without the queue having to follow.
Covered(k) ==
    \/ m'[k] = None
    \/ m'[k].expireAt = 0
    \/ m[k] # None /\ m'[k].expireAt = m[k].expireAt
    \/ <<k, m'[k].expireAt>> \in Queued'

\* A step that forgets no item keeps every deadline tracked.
LEMMA TrackedKept ==
    ASSUME \A k \in Keys : Tracked(k),
           Queued \subseteq Queued',
           Held => Held' /\ expirer'.key = expirer.key /\ expirer'.when = expirer.when,
           \A k \in Keys : Covered(k)
    PROVE  \A k \in Keys : Tracked(k)'
  BY DEF Tracked, Covered, Held

\* enqueueExpire only adds an item, and wakes no expirer that holds one.
LEMMA EnqueueAdds ==
    ASSUME TypeOK, HeldItemIsDue, NEW k \in Keys, NEW t \in 1..MaxTime,
           EnqueueExpire(k, t), UNCHANGED now
    PROVE  /\ Queued \subseteq Queued'
           /\ <<k, t>> \in Queued'
           /\ Held => Held' /\ expirer'.key = expirer.key /\ expirer'.when = expirer.when
           /\ HeldItemIsDue'
  <1>1. <<k, t>> \in Items
    BY DEF Items
  <1>2. expq' = [expq EXCEPT ![<<k, t>>] = @ + 1]
    BY DEF EnqueueExpire
  <1>3. Queued \subseteq Queued' /\ <<k, t>> \in Queued'
    BY <1>1, <1>2 DEF Queued, TypeOK
  <1>4. CASE expirer.pc = "wait"
    BY <1>3, <1>4 DEF EnqueueExpire, Broadcast, ExpirerAt, Held, HeldItemIsDue
  <1>5. CASE expirer.pc # "wait"
    BY <1>3, <1>5 DEF EnqueueExpire, Broadcast, Held, HeldItemIsDue
  <1> QED
    BY <1>4, <1>5

\* Removing one entry, or leaving the map alone, forgets no deadline.
LEMMA RemovalCovered ==
    ASSUME TypeOK, NEW k \in Keys,
           m' = [m EXCEPT ![k] = None] \/ m' = m
    PROVE  \A j \in Keys : Covered(j)
  BY DEF TypeOK, Covered

LEMMA InitTracked == Init => TTLTracked
  BY DEF Init, TTLTracked, HeldItemIsDue, Tracked, ExpirerAt

\* One case per action; the actions that touch neither map nor queue first.
LEMMA NextTracked == TypeInv /\ TTLTracked /\ [Next]_vars => TTLTracked'
  <1> SUFFICES ASSUME TypeOK, LocalsOK, HoldsKey, HeldItemIsDue,
                      \A k \in Keys : Tracked(k), [Next]_vars
               PROVE  HeldItemIsDue' /\ \A k \in Keys : Tracked(k)'
    BY DEF TypeInv, TTLTracked
  <1> USE DEF env, store, expiry
  <1>1. ASSUME UNCHANGED <<m, expq, expirer>>, now' \in Nat, now <= now'
        PROVE  HeldItemIsDue' /\ \A k \in Keys : Tracked(k)'
    BY <1>1 DEF HeldItemIsDue, Tracked, Queued, TypeOK, Expirer
  <1>2. ASSUME NEW k \in Keys, UNCHANGED <<expq, expirer, now>>,
               m' = [m EXCEPT ![k] = None] \/ m' = m
        PROVE  HeldItemIsDue' /\ \A j \in Keys : Tracked(j)'
    <2>1. \A j \in Keys : Covered(j)
      BY <1>2, RemovalCovered
    <2>2. Queued' = Queued /\ HeldItemIsDue'
      BY <1>2 DEF Queued, HeldItemIsDue
    <2> QED
      BY <1>2, <2>1, <2>2, TrackedKept DEF Held
  <1>3. now \in Nat /\ UNCHANGED now => now' \in Nat /\ now <= now'
    BY DEF TypeOK
  <1>4. now \in Nat
    BY BoundsAssumption DEF TypeOK
  <1>5. ASSUME NEW c \in Clients,
               \/ SetStart(c) \/ SetRejected(c) \/ GetRead(c) \/ Account(c)
               \/ UpdateStart(c) \/ UpdateFails(c) \/ ExpireStart(c)
               \/ TTLRead(c) \/ TTLAnswers(c)
        PROVE  HeldItemIsDue' /\ \A k \in Keys : Tracked(k)'
    <2>1. UNCHANGED <<m, expq, expirer, now>>
      BY <1>5 DEF SetStart, SetRejected, GetRead, Account, UpdateStart,
                  UpdateFails, ExpireStart, TTLRead, TTLAnswers
    <2> QED
      BY <1>1, <1>3, <1>4, <2>1
  <1>6. ASSUME NEW c \in Clients, SetLocked(c)
        PROVE  HeldItemIsDue' /\ \A k \in Keys : Tracked(k)'
    <2> DEFINE k == cli[c].key
               t == cli[c].at
               e == [len |-> cli[c].len, expireAt |-> t]
    <2>1. k \in Keys /\ t \in Times
      BY <1>6 DEF SetLocked, LocalsOK, TypeOK, Local
    <2>2. m' = [m EXCEPT ![k] = e] /\ UNCHANGED now
      BY <1>6 DEF SetLocked
    <2>3. m'[k].expireAt = t /\ \A j \in Keys \ {k} : m'[j] = m[j]
      BY <2>1, <2>2 DEF TypeOK
    <2>4. CASE t = 0
      <3>1. UNCHANGED <<expq, expirer>>
        BY <1>6, <2>4 DEF SetLocked
      <3>2. \A j \in Keys : Covered(j)
        BY <2>3, <2>4 DEF Covered
      <3>3. Queued' = Queued /\ HeldItemIsDue'
        BY <2>2, <3>1 DEF Queued, HeldItemIsDue
      <3> QED
        BY <3>1, <3>2, <3>3, TrackedKept DEF Held
    <2>5. CASE t # 0
      <3>1. t \in 1..MaxTime /\ EnqueueExpire(k, t)
        BY <1>6, <2>1, <2>5 DEF SetLocked
      <3>2. /\ Queued \subseteq Queued'
            /\ <<k, t>> \in Queued'
            /\ Held => Held' /\ expirer'.key = expirer.key /\ expirer'.when = expirer.when
            /\ HeldItemIsDue'
        BY <2>1, <2>2, <3>1, EnqueueAdds
      <3>3. \A j \in Keys : Covered(j)
        BY <2>3, <3>2 DEF Covered
      <3> QED
        BY <3>2, <3>3, TrackedKept
    <2> QED
      BY <2>4, <2>5
  <1>7. ASSUME NEW c \in Clients,
               \/ GetCheck(c) \/ GetDel(c) \/ Delete(c) \/ UpdateDrops(c)
               \/ ExpireFails(c) \/ TTLDeletes(c)
        PROVE  HeldItemIsDue' /\ \A k \in Keys : Tracked(k)'
    <2>1. UNCHANGED <<expq, expirer, now>>
      BY <1>7 DEF GetCheck, GetDel, Delete, UpdateDrops, ExpireFails, TTLDeletes
    <2>2. \E k \in Keys : m' = [m EXCEPT ![k] = None] \/ m' = m
      <3>1. CASE GetDel(c) \/ Delete(c)
        BY <3>1 DEF GetDel, Delete, RemoveThenAccount, Live
      <3>2. CASE GetCheck(c) \/ ExpireFails(c)
        BY <3>2 DEF GetCheck, ExpireFails, EvictIfDue, LocalsOK
      <3>3. CASE UpdateDrops(c) \/ TTLDeletes(c)
        BY <3>3 DEF UpdateDrops, TTLDeletes, RemoveThenAccount, LocalsOK
      <3> QED
        BY <1>7, <3>1, <3>2, <3>3
    <2> QED
      BY <1>2, <2>1, <2>2
  <1>8. ASSUME NEW c \in Clients, UpdateLocked(c)
        PROVE  HeldItemIsDue' /\ \A k \in Keys : Tracked(k)'
    <2>1. cli[c].key \in Keys /\ m[cli[c].key] \in Entry
      BY <1>8 DEF UpdateLocked, LocalsOK, TypeOK
    <2>2. m' = [m EXCEPT ![cli[c].key] = [@ EXCEPT !.len = cli[c].len]]
      BY <1>8 DEF UpdateLocked
    <2>3. \A j \in Keys : \/ m[j] = None /\ m'[j] = None
                          \/ m[j] # None /\ m'[j].expireAt = m[j].expireAt
      BY <1>8, <2>1, <2>2, NoneAssumption DEF UpdateLocked, TypeOK, Entry
    <2>4. \A j \in Keys : Covered(j)
      BY <2>3 DEF Covered
    <2>5. Queued' = Queued /\ HeldItemIsDue' /\ UNCHANGED <<expirer>>
      BY <1>8 DEF UpdateLocked, Queued, HeldItemIsDue
    <2> QED
      BY <2>4, <2>5, TrackedKept DEF Held
  <1>9. ASSUME NEW c \in Clients, ExpireLocked(c)
        PROVE  HeldItemIsDue' /\ \A k \in Keys : Tracked(k)'
    <2> DEFINE k == cli[c].key
               t == cli[c].at
    <2>1. k \in Keys /\ t \in 1..MaxTime
      BY <1>9 DEF ExpireLocked, LocalsOK, TypeOK, Local
    <2>2. m' = [m EXCEPT ![k] = [@ EXCEPT !.expireAt = t]] /\ UNCHANGED now /\ m[k] \in Entry
      BY <1>9, <2>1 DEF ExpireLocked, TypeOK
    <2>3. m'[k].expireAt = t /\ \A j \in Keys \ {k} : m'[j] = m[j]
      BY <2>1, <2>2 DEF TypeOK, Entry
    <2>4. /\ Queued \subseteq Queued'
          /\ <<k, t>> \in Queued'
          /\ Held => Held' /\ expirer'.key = expirer.key /\ expirer'.when = expirer.when
          /\ HeldItemIsDue'
      BY <1>9, <2>1, <2>2, EnqueueAdds DEF ExpireLocked
    <2>5. \A j \in Keys : Covered(j)
      BY <2>3, <2>4 DEF Covered
    <2> QED
      BY <2>4, <2>5, TrackedKept
  <1>10. ASSUME Scan, ~Held, UNCHANGED <<m, now>>
         PROVE  HeldItemIsDue' /\ \A k \in Keys : Tracked(k)'
    <2>0. \A j \in Keys : Covered(j)
      BY <1>10, RemovalCovered DEF Covered
    <2>1. CASE ~Held' /\ UNCHANGED expq
      BY <1>10, <2>0, <2>1, TrackedKept DEF Queued, Held, HeldItemIsDue
    <2>2. ASSUME NEW it \in Nearest, it[2] <= now,
                 expirer' = [pc |-> "popped", key |-> it[1], when |-> it[2], nowN |-> 0],
                 expq' = [expq EXCEPT ![it] = @ - 1]
          PROVE  HeldItemIsDue' /\ \A k \in Keys : Tracked(k)'
      <3>1. it \in Items
        BY DEF Nearest, Queued
      <3>2. it[1] \in Keys /\ it = <<it[1], it[2]>>
        BY <3>1 DEF Items
      <3>3. \A jt \in Queued : jt \in Queued' \/ jt = it
        BY <2>2, <3>1 DEF Queued, TypeOK
      <3>4. HeldItemIsDue'
        BY <1>10, <2>2, <3>2 DEF HeldItemIsDue
      <3>5. ASSUME NEW k \in Keys PROVE Tracked(k)'
        <4>1. CASE m[k] = None \/ m[k].expireAt = 0
          BY <1>10, <4>1 DEF Tracked
        <4>2. CASE ~(m[k] = None \/ m[k].expireAt = 0)
          <5>1. <<k, m[k].expireAt>> \in Queued
            BY <1>10, <4>2 DEF Tracked, Held
          <5>2. CASE <<k, m[k].expireAt>> \in Queued'
            BY <1>10, <5>2 DEF Tracked
          <5>3. CASE <<k, m[k].expireAt>> = it
            BY <1>10, <2>2, <5>3 DEF Tracked
          <5> QED
            BY <3>3, <5>1, <5>2, <5>3
        <4> QED
          BY <4>1, <4>2
      <3> QED
        BY <3>4, <3>5
    <2> QED
      BY <1>10, <2>1, <2>2 DEF Scan, Held, ExpirerAt
  <1>11. CASE ExpirerTop
    BY <1>10, <1>11 DEF ExpirerTop, Held
  <1>12. CASE ExpirerWoken
    <2>1. CASE closed
      <3>1. UNCHANGED <<m, now, expq>> /\ ~Held /\ ~Held'
        BY <1>12, <2>1 DEF ExpirerWoken, Held, ExpirerAt
      <3> QED
        BY <3>1 DEF Tracked, Queued, Held, HeldItemIsDue
    <2>2. CASE ~closed
      BY <1>10, <1>12, <2>2 DEF ExpirerWoken, Held
    <2> QED
      BY <2>1, <2>2
  <1>13. CASE ExpirerTimer
    <2>1. UNCHANGED <<m, now, expq>> /\ ~Held /\ ~Held'
      BY <1>13 DEF ExpirerTimer, Held, ExpirerAt
    <2> QED
      BY <2>1 DEF Tracked, Queued, Held, HeldItemIsDue
  <1>14. CASE ExpirerReadsClock
    <2>1. /\ UNCHANGED <<m, now, expq>>
          /\ expirer' = [expirer EXCEPT !.pc = "check", !.nowN = now]
          /\ expirer.pc = "popped"
      BY <1>14 DEF ExpirerReadsClock
    <2>2. expirer'.pc = "check" /\ expirer'.key = expirer.key /\ expirer'.when = expirer.when /\ expirer'.nowN = now
      BY <2>1 DEF TypeOK, Expirer
    <2> QED
      BY <2>1, <2>2 DEF Tracked, Queued, HeldItemIsDue
  <1>15. CASE ExpirerEvicts
    <2> DEFINE k == expirer.key
    <2>1. /\ expirer.pc = "check" /\ k \in Keys /\ expirer.when <= expirer.nowN
          /\ EvictIfDue(k, expirer.nowN)
          /\ expirer'.pc = "top"
          /\ UNCHANGED <<now, expq>>
      BY <1>15 DEF ExpirerEvicts, HeldItemIsDue, HoldsKey, ExpirerAt
    <2>2. HeldItemIsDue' /\ Queued' = Queued
      BY <2>1 DEF HeldItemIsDue, Queued
    <2>3. ASSUME NEW j \in Keys PROVE Tracked(j)'
      <3>1. CASE m'[j] = None
        BY <3>1 DEF Tracked
      <3>2. CASE m'[j] # None
        <4>1. m'[j] = m[j]
          BY <2>1, <3>2 DEF EvictIfDue, TypeOK
        <4>2. j = k => ~Due(k, expirer.nowN)
          BY <2>1, <3>2 DEF EvictIfDue, TypeOK
        <4>3. j = k /\ m[j].expireAt # 0 => expirer.when # m[j].expireAt
          BY <2>1, <3>2, <4>1, <4>2 DEF Due
        <4> QED
          BY <2>2, <4>1, <4>3 DEF Tracked
      <3> QED
        BY <3>1, <3>2
    <2> QED
      BY <2>2, <2>3
  <1>16. CASE CloseCh \/ CloseJoin
    BY <1>1, <1>3, <1>4, <1>16 DEF CloseCh, CloseJoin
  <1>17. CASE CloseBroadcast
    <2>1. CASE expirer.pc = "wait"
      <3>1. UNCHANGED <<m, now, expq>> /\ ~Held /\ ~Held'
        BY <1>17, <2>1 DEF CloseBroadcast, Broadcast, Held, ExpirerAt
      <3> QED
        BY <3>1 DEF Tracked, Queued, Held, HeldItemIsDue
    <2>2. CASE expirer.pc # "wait"
      BY <1>1, <1>3, <1>4, <1>17, <2>2 DEF CloseBroadcast, Broadcast
    <2> QED
      BY <2>1, <2>2
  <1>18. CASE Tick
    BY <1>1, <1>4, <1>18 DEF Tick
  <1>19. CASE UNCHANGED vars
    BY <1>1, <1>3, <1>4, <1>19 DEF vars
  <1> QED
    BY <1>5, <1>6, <1>7, <1>8, <1>9, <1>11, <1>12, <1>13, <1>14, <1>15, <1>16,
       <1>17, <1>18, <1>19
    DEF Next, Call, Finish, ExpirerStep

\* Whatever Set, Expire, Get, Delete and the expirer do to map and queue under
\* their separate locks, no entry's deadline is forgotten.
THEOREM DeadlinesTracked == Spec => []TTLTracked
  <1>1. Init => TypeInv /\ TTLTracked
    BY InitTypeInv, InitTracked
  <1>2. (TypeInv /\ TTLTracked) /\ [Next]_vars => (TypeInv /\ TTLTracked)'
    BY NextTypeInv, NextTracked
  <1> QED
    BY <1>1, <1>2, PTL DEF Spec

-----------------------------------------------------------------------------
(* KeysAccounted: the key counter.                                         *)

LEMMA SetsFinite ==
    /\ IsFiniteSet(Live) /\ Cardinality(Live) \in Nat
    /\ IsFiniteSet(Accounting) /\ Cardinality(Accounting) \in Nat
  <1>1. Live \in SUBSET Keys /\ Accounting \in SUBSET Clients
    BY DEF Live, Accounting
  <1> QED
    BY <1>1, KeysAssumption, ClientsAssumption, FS_Subset, FS_CardinalityType

\* An entry that leaves the map makes Live smaller by one.
LEMMA LiveLoses ==
    ASSUME TypeOK, NEW k \in Keys, m[k] # None, m' = [m EXCEPT ![k] = None]
    PROVE  Cardinality(Live') = Cardinality(Live) - 1
  <1>1. Live' = Live \ {k} /\ k \in Live
    BY DEF Live, TypeOK
  <1> QED
    BY <1>1, SetsFinite, FS_RemoveElement

\* An eviction under the lock keeps counter and map together.
LEMMA EvictCounts ==
    ASSUME TypeOK, NEW k \in Keys, NEW t, EvictIfDue(k, t)
    PROVE  mKeys' - Cardinality(Live') = mKeys - Cardinality(Live)
  <1>1. CASE Due(k, t)
    <2>1. Cardinality(Live') = Cardinality(Live) - 1
      BY <1>1, LiveLoses DEF EvictIfDue, Due
    <2> QED
      BY <1>1, <2>1, SetsFinite DEF EvictIfDue, Uncount, TypeOK
  <1>2. CASE ~Due(k, t)
    BY <1>2 DEF EvictIfDue, Live
  <1> QED
    BY <1>1, <1>2

\* A client that was not accounting and does not start to leaves Accounting
\* as it is.
LEMMA AccountingKept ==
    ASSUME TypeOK, NEW c \in Clients, cli[c].pc # "account",
           NEW r, r.pc # "account", cli' = [cli EXCEPT ![c] = r]
    PROVE  Accounting' = Accounting
  BY DEF Accounting, TypeOK

LEMMA ReturnKeeps ==
    ASSUME TypeOK, NEW c \in Clients, cli[c].pc # "account", Return(c)
    PROVE  Accounting' = Accounting
  BY AccountingKept DEF Return, Idle

LEMMA GotoKeeps ==
    ASSUME TypeOK, NEW c \in Clients, cli[c].pc # "account",
           NEW pc, pc # "account", NEW k, NEW n, NEW t, Goto(c, pc, k, n, t)
    PROVE  Accounting' = Accounting
  BY AccountingKept DEF Goto

\* A removal outside Update moves one key from the maps to Accounting.
LEMMA RemoveMoves ==
    ASSUME TypeOK, NEW c \in Clients, NEW k \in Keys, cli[c].pc # "account",
           RemoveThenAccount(c, k)
    PROVE  /\ Cardinality(Live') = Cardinality(Live) - 1
           /\ Cardinality(Accounting') = Cardinality(Accounting) + 1
  <1>1. Cardinality(Live') = Cardinality(Live) - 1
    BY LiveLoses DEF RemoveThenAccount
  <1>2. Accounting' = Accounting \cup {c} /\ c \notin Accounting
    BY DEF RemoveThenAccount, Goto, Accounting, TypeOK
  <1> QED
    BY <1>1, <1>2, SetsFinite, FS_AddElement

LEMMA InitKeys == Init => KeysAccounted
  <1> SUFFICES ASSUME Init PROVE KeysAccounted
    OBVIOUS
  <1>1. Live = {}
    BY DEF Init, Live
  <1>2. Accounting = {}
    BY DEF Init, Accounting, Idle
  <1> QED
    BY <1>1, <1>2, FS_EmptySet DEF Init, KeysAccounted

LEMMA NextKeys == TypeInv /\ KeysAccounted /\ [Next]_vars => KeysAccounted'
  <1> SUFFICES ASSUME TypeOK, LocalsOK, HoldsKey, KeysAccounted, [Next]_vars
               PROVE  KeysAccounted'
    BY DEF TypeInv
  <1> USE DEF env, store, expiry
  <1>0. /\ Cardinality(Live) \in Nat /\ Cardinality(Accounting) \in Nat
        /\ mKeys \in Int /\ leaked.keys \in Nat
    BY SetsFinite DEF TypeOK
  <1>1. ASSUME UNCHANGED <<m, mKeys, leaked>>, Accounting' = Accounting
        PROVE  KeysAccounted'
    BY <1>1 DEF KeysAccounted, Live
  <1>2. ASSUME UNCHANGED leaked, Accounting' = Accounting,
               mKeys' - Cardinality(Live') = mKeys - Cardinality(Live),
               mKeys' \in Int, Cardinality(Live') \in Nat
        PROVE  KeysAccounted'
    BY <1>0, <1>2 DEF KeysAccounted
  <1>3. TypeOK' /\ Cardinality(Live') \in Nat /\ mKeys' \in Int
    <2>1. TypeOK'
      BY NextTypeInv DEF TypeInv
    <2>2. Live' \in SUBSET Keys
      BY DEF Live
    <2> QED
      BY <2>1, <2>2, KeysAssumption, FS_Subset, FS_CardinalityType DEF TypeOK
  <1>4. ASSUME NEW c \in Clients,
               SetStart(c) \/ GetRead(c) \/ UpdateStart(c) \/ ExpireStart(c) \/ TTLRead(c)
        PROVE  KeysAccounted'
    <2>1. UNCHANGED <<m, mKeys, leaked>> /\ cli[c].pc # "account"
      BY <1>4 DEF SetStart, GetRead, UpdateStart, ExpireStart, TTLRead, Start
    <2>2. \E pc \in {"set", "get", "update", "expire", "ttl"} :
             \E k, n, t : Goto(c, pc, k, n, t)
      BY <1>4 DEF SetStart, GetRead, UpdateStart, ExpireStart, TTLRead
    <2>3. Accounting' = Accounting
      BY <2>1, <2>2, GotoKeeps
    <2> QED
      BY <1>1, <2>1, <2>3
  <1>5. ASSUME NEW c \in Clients, SetRejected(c) \/ UpdateFails(c) \/ TTLAnswers(c)
        PROVE  KeysAccounted'
    <2>1. UNCHANGED <<m, mKeys, leaked>> /\ cli[c].pc # "account" /\ Return(c)
      BY <1>5 DEF SetRejected, UpdateFails, TTLAnswers
    <2> QED
      BY <1>1, <2>1, ReturnKeeps
  <1>6. ASSUME NEW c \in Clients, SetLocked(c)
        PROVE  KeysAccounted'
    <2> DEFINE k == cli[c].key
               e == [len |-> cli[c].len, expireAt |-> cli[c].at]
    <2>1. k \in Keys /\ e \in Entry /\ e # None
      BY <1>6, NoneAssumption DEF SetLocked, LocalsOK, TypeOK, Local, Entry
    <2>2. /\ m' = [m EXCEPT ![k] = e] /\ mKeys' = CountSet(k)
          /\ UNCHANGED leaked /\ Return(c) /\ cli[c].pc # "account"
      BY <1>6 DEF SetLocked
    <2>3. Live' = Live \cup {k}
      BY <2>1, <2>2 DEF Live, TypeOK
    <2>4. k \in Live <=> m[k] # None
      BY <2>1 DEF Live
    <2>5. Cardinality(Live') = IF k \in Live THEN Cardinality(Live) ELSE Cardinality(Live) + 1
      BY <2>3, SetsFinite, FS_AddElement
    <2>6. mKeys' - Cardinality(Live') = mKeys - Cardinality(Live)
      BY <1>0, <2>2, <2>4, <2>5 DEF CountSet
    <2> QED
      BY <1>2, <1>3, <2>2, <2>6, ReturnKeeps
  <1>7. ASSUME NEW c \in Clients, GetCheck(c) \/ ExpireFails(c)
        PROVE  KeysAccounted'
    <2>1. /\ cli[c].key \in Keys /\ cli[c].pc # "account"
          /\ Return(c) /\ UNCHANGED leaked
      BY <1>7 DEF GetCheck, ExpireFails, LocalsOK
    <2>2. EvictIfDue(cli[c].key, now) \/ UNCHANGED <<m, mKeys>>
      BY <1>7 DEF GetCheck, ExpireFails
    <2>3. CASE EvictIfDue(cli[c].key, now)
      BY <1>2, <1>3, <2>1, <2>3, EvictCounts, ReturnKeeps
    <2>4. CASE UNCHANGED <<m, mKeys>>
      BY <1>1, <2>1, <2>4, ReturnKeeps
    <2> QED
      BY <2>2, <2>3, <2>4
  <1>8. ASSUME NEW c \in Clients, GetDel(c) \/ Delete(c) \/ TTLDeletes(c)
        PROVE  KeysAccounted'
    <2>1. PICK k \in Keys : RemoveThenAccount(c, k)
      BY <1>8 DEF GetDel, Delete, TTLDeletes, Live, LocalsOK
    <2>2. cli[c].pc # "account"
      BY <1>8 DEF GetDel, Delete, TTLDeletes, Start
    <2>3. UNCHANGED <<mKeys, leaked>>
      BY <2>1 DEF RemoveThenAccount
    <2> QED
      BY <1>0, <2>1, <2>2, <2>3, RemoveMoves DEF KeysAccounted
  <1>9. ASSUME NEW c \in Clients, Account(c)
        PROVE  KeysAccounted'
    <2>1. Accounting' = Accounting \ {c} /\ c \in Accounting
      BY <1>9 DEF Account, Return, Idle, Accounting, TypeOK
    <2>2. Cardinality(Accounting') = Cardinality(Accounting) - 1
      BY <2>1, SetsFinite, FS_RemoveElement
    <2>3. Live' = Live /\ mKeys' = mKeys - 1 /\ UNCHANGED leaked
      BY <1>9 DEF Account, Live, Uncount
    <2> QED
      BY <1>0, <2>2, <2>3 DEF KeysAccounted
  <1>10. ASSUME NEW c \in Clients, UpdateDrops(c)
         PROVE  KeysAccounted'
    <2>1. /\ cli[c].key \in Keys /\ m[cli[c].key] # None
          /\ m' = [m EXCEPT ![cli[c].key] = None]
          /\ mKeys' = mKeys /\ leaked'.keys = leaked.keys + 1
          /\ cli[c].pc # "account" /\ Return(c)
      BY <1>10 DEF UpdateDrops, Due, LocalsOK
    <2>2. Cardinality(Live') = Cardinality(Live) - 1
      BY <2>1, LiveLoses
    <2>3. Accounting' = Accounting
      BY <2>1, ReturnKeeps
    <2> QED
      BY <1>0, <2>1, <2>2, <2>3 DEF KeysAccounted
  <1>11. ASSUME NEW c \in Clients, UpdateLocked(c) \/ ExpireLocked(c)
         PROVE  KeysAccounted'
    <2>1. /\ cli[c].key \in Keys /\ m[cli[c].key] # None
          /\ cli[c].len \in Nat /\ cli[c].at \in Times
          /\ mKeys' = mKeys /\ UNCHANGED leaked
          /\ cli[c].pc # "account" /\ Return(c)
      BY <1>11 DEF UpdateLocked, ExpireLocked, LocalsOK, TypeOK, Local
    <2>2. PICK e \in Entry : m' = [m EXCEPT ![cli[c].key] = e]
      <3>1. m[cli[c].key] \in Entry
        BY <2>1 DEF TypeOK
      <3>2. /\ [m[cli[c].key] EXCEPT !.len = cli[c].len] \in Entry
            /\ [m[cli[c].key] EXCEPT !.expireAt = cli[c].at] \in Entry
        BY <2>1, <3>1 DEF Entry
      <3> QED
        BY <1>11, <3>2 DEF UpdateLocked, ExpireLocked
    <2>3. Live' = Live
      BY <2>1, <2>2, NoneAssumption DEF Live, TypeOK
    <2> QED
      BY <2>1, <2>3, ReturnKeeps DEF KeysAccounted
  <1>12. CASE ExpirerEvicts
    <2>1. /\ expirer.key \in Keys /\ EvictIfDue(expirer.key, expirer.nowN)
          /\ UNCHANGED <<leaked, cli>>
      BY <1>12 DEF ExpirerEvicts, HoldsKey
    <2>2. Accounting' = Accounting
      BY <2>1 DEF Accounting
    <2> QED
      BY <1>2, <1>3, <2>1, <2>2, EvictCounts
  <1>13. CASE \/ ExpirerTop \/ ExpirerWoken \/ ExpirerTimer \/ ExpirerReadsClock
              \/ CloseCh \/ CloseBroadcast \/ CloseJoin \/ Tick \/ UNCHANGED vars
    <2>1. UNCHANGED <<m, mKeys, leaked, cli>>
      BY <1>13 DEF ExpirerTop, ExpirerWoken, ExpirerTimer, ExpirerReadsClock,
                   CloseCh, CloseBroadcast, CloseJoin, Tick, vars
    <2> QED
      BY <1>1, <2>1 DEF Accounting
  <1> QED
    BY <1>4, <1>5, <1>6, <1>7, <1>8, <1>9, <1>10, <1>11, <1>12, <1>13
    DEF Next, Call, Finish, ExpirerStep

\* The key counter never drifts, except by what Update leaks, and never goes
\* below zero, where the unsigned counter of the code would wrap.
THEOREM KeyCounter == Spec => [](KeysAccounted /\ mKeys >= 0)
  <1>1. Init => TypeInv /\ KeysAccounted
    BY InitTypeInv, InitKeys
  <1>2. (TypeInv /\ KeysAccounted) /\ [Next]_vars => (TypeInv /\ KeysAccounted)'
    BY NextTypeInv, NextKeys
  <1>3. TypeInv /\ KeysAccounted => KeysAccounted /\ mKeys >= 0
    BY SetsFinite DEF TypeInv, TypeOK, KeysAccounted
  <1> QED
    BY <1>1, <1>2, <1>3, PTL DEF Spec

-----------------------------------------------------------------------------
(* OnlyDueEvicted: an eviction decided on an old clock reading is right.   *)

\* A clock reading kept across a lock is never ahead of the clock.
ReadingsPast ==
    /\ expirer.nowN <= now
    /\ \A c \in Clients : cli[c].pc = "update" => cli[c].at <= now

LEMMA InitReadings == Init => ReadingsPast
  BY DEF Init, ReadingsPast, Idle, ExpirerAt

\* Only UpdateStart and ExpirerReadsClock take a reading, and it is now.
LEMMA NextReadings == TypeInv /\ ReadingsPast /\ [Next]_vars => ReadingsPast'
  <1> SUFFICES ASSUME TypeOK, LocalsOK, ReadingsPast, [Next]_vars
               PROVE  ReadingsPast'
    BY DEF TypeInv
  <1> USE DEF env, store, expiry
  <1>0. now \in Int /\ expirer.nowN \in Int /\ \A c \in Clients : cli[c].at \in Int
    BY BoundsAssumption DEF TypeOK, Expirer, Local
  <1>1. ASSUME NEW c \in Clients, Call(c) \/ Finish(c)
        PROVE  ReadingsPast'
    <2>1. now' = now
      BY <1>1 DEF Call, Finish, SetStart, SetRejected, SetLocked, GetRead, GetCheck,
                  GetDel, Delete, Account, UpdateStart, UpdateFails, UpdateDrops,
                  UpdateLocked, ExpireStart, ExpireFails, ExpireLocked, TTLRead,
                  TTLAnswers, TTLDeletes
    <2>2. expirer' = expirer \/ expirer' = Broadcast
      BY <1>1 DEF Call, Finish, SetStart, SetRejected, SetLocked, GetRead, GetCheck,
                  GetDel, Delete, Account, UpdateStart, UpdateFails, UpdateDrops,
                  UpdateLocked, ExpireStart, ExpireFails, ExpireLocked, TTLRead,
                  TTLAnswers, TTLDeletes, EnqueueExpire
    <2>3. expirer'.nowN <= now
      BY <1>0, <2>2, BoundsAssumption DEF Broadcast, ExpirerAt, ReadingsPast, TypeOK
    <2>4. \E r : cli' = [cli EXCEPT ![c] = r] /\ (r.pc = "update" => r.at = now)
      <3>1. ASSUME Return(c)
            PROVE  \E r : cli' = [cli EXCEPT ![c] = r] /\ (r.pc = "update" => r.at = now)
        <4>1. cli' = [cli EXCEPT ![c] = Idle]
          BY <3>1 DEF Return
        <4>2. Idle.pc # "update"
          BY DEF Idle
        <4> QED
          BY <4>1, <4>2
      <3>2. ASSUME NEW pc, NEW k, NEW n, NEW t, Goto(c, pc, k, n, t), pc = "update" => t = now
            PROVE  \E r : cli' = [cli EXCEPT ![c] = r] /\ (r.pc = "update" => r.at = now)
        <4> DEFINE r == [pc |-> pc, key |-> k, len |-> n, at |-> t]
        <4>1. cli' = [cli EXCEPT ![c] = r]
          BY <3>2 DEF Goto
        <4>2. r.pc = "update" => r.at = now
          BY <3>2
        <4> HIDE DEF r
        <4> QED
          BY <4>1, <4>2
      <3>3. CASE \/ SetRejected(c) \/ SetLocked(c) \/ GetCheck(c) \/ Account(c)
                 \/ UpdateFails(c) \/ UpdateDrops(c) \/ UpdateLocked(c)
                 \/ ExpireFails(c) \/ ExpireLocked(c) \/ TTLAnswers(c)
        BY <3>1, <3>3 DEF SetRejected, SetLocked, GetCheck, Account, UpdateFails,
                    UpdateDrops, UpdateLocked, ExpireFails, ExpireLocked, TTLAnswers
      <3>4. CASE \/ SetStart(c) \/ GetRead(c) \/ UpdateStart(c)
                 \/ ExpireStart(c) \/ TTLRead(c)
        <4>1. \E pc, k, n, t : Goto(c, pc, k, n, t) /\ (pc = "update" => t = now)
          BY <3>4 DEF SetStart, GetRead, UpdateStart, ExpireStart, TTLRead
        <4> QED
          BY <3>2, <4>1
      <3>5. CASE GetDel(c) \/ Delete(c) \/ TTLDeletes(c)
        <4>1. \E pc, k, n, t : Goto(c, pc, k, n, t) /\ (pc = "update" => t = now)
          BY <3>5 DEF GetDel, Delete, TTLDeletes, RemoveThenAccount
        <4> QED
          BY <3>2, <4>1
      <3> QED
        BY <1>1, <3>3, <3>4, <3>5 DEF Call, Finish
    <2>5. \A d \in Clients : cli'[d].pc = "update" => cli'[d].at <= now
      BY <1>0, <2>4 DEF ReadingsPast, TypeOK
    <2> QED
      BY <2>1, <2>3, <2>5 DEF ReadingsPast
  <1>2. CASE ExpirerTop \/ ExpirerWoken \/ ExpirerTimer \/ ExpirerEvicts \/ CloseBroadcast
    <2>1. UNCHANGED <<now, cli>>
      BY <1>2 DEF ExpirerTop, ExpirerWoken, ExpirerTimer, ExpirerEvicts, CloseBroadcast
    <2>2. expirer'.nowN = 0 \/ expirer' = expirer
      BY <1>2 DEF ExpirerTop, ExpirerWoken, ExpirerTimer, ExpirerEvicts,
                  CloseBroadcast, Scan, Broadcast, ExpirerAt
    <2> QED
      BY <1>0, <2>1, <2>2, BoundsAssumption DEF ReadingsPast, TypeOK
  <1>3. CASE ExpirerReadsClock
    BY <1>0, <1>3 DEF ExpirerReadsClock, ReadingsPast, TypeOK, Expirer
  <1>4. CASE CloseCh \/ CloseJoin \/ Tick \/ UNCHANGED vars
    <2>1. UNCHANGED <<expirer, cli>> /\ (now' = now \/ now' = now + 1)
      BY <1>4 DEF CloseCh, CloseJoin, Tick, vars
    <2> QED
      BY <1>0, <2>1 DEF ReadingsPast
  <1> QED
    BY <1>1, <1>2, <1>3, <1>4 DEF Next, ExpirerStep

\* A step that removes an entry is a call of Delete, GetDel or TTL, or finds
\* the entry due.
LEMMA RemovalIsDue ==
    ASSUME TypeOK, LocalsOK, HoldsKey, ReadingsPast, Next,
           NEW k \in Keys, RemovesNow(k), ~Due(k, now)
    PROVE  \E c \in Clients : cli'[c].pc = "account" /\ cli[c].pc \in {"idle", "ttl"}
  <1> USE DEF env, store, expiry
  <1>0. /\ m[k] # None /\ m'[k] = None /\ m[k] \in Entry /\ m[k].expireAt \in Int
        /\ now \in Int /\ expirer.nowN \in Int /\ \A c \in Clients : cli[c].at \in Int
    BY BoundsAssumption DEF RemovesNow, TypeOK, Entry, Expirer, Local
  <1>1. ASSUME NEW j \in Keys, NEW t \in Int, t <= now, EvictIfDue(j, t)
        PROVE  FALSE
    BY <1>0, <1>1 DEF EvictIfDue, Due, TypeOK
  <1>2. ASSUME NEW c \in Clients, NEW j \in Keys, RemoveThenAccount(c, j)
        PROVE  cli'[c].pc = "account"
    BY <1>2 DEF RemoveThenAccount, Goto, TypeOK
  <1>3. ASSUME NEW c \in Clients, GetDel(c) \/ Delete(c) \/ TTLDeletes(c)
        PROVE  cli'[c].pc = "account" /\ cli[c].pc \in {"idle", "ttl"}
    <2>1. cli[c].pc \in {"idle", "ttl"}
      BY <1>3 DEF GetDel, Delete, TTLDeletes, Start
    <2>2. \E j \in Keys : RemoveThenAccount(c, j)
      BY <1>3 DEF GetDel, Delete, TTLDeletes, Live, LocalsOK
    <2> QED
      BY <1>2, <2>1, <2>2
  <1>4. ASSUME NEW c \in Clients, GetCheck(c) \/ ExpireFails(c)
        PROVE  FALSE
    <2>1. cli[c].key \in Keys
      BY <1>4 DEF GetCheck, ExpireFails, LocalsOK
    <2>2. EvictIfDue(cli[c].key, now)
      BY <1>0, <1>4 DEF GetCheck, ExpireFails
    <2> QED
      BY <1>0, <1>1, <2>1, <2>2
  <1>5. ASSUME NEW c \in Clients, UpdateDrops(c)
        PROVE  FALSE
    <2>1. cli[c].key \in Keys /\ Due(cli[c].key, cli[c].at) /\ cli[c].at <= now
      BY <1>5 DEF UpdateDrops, LocalsOK, ReadingsPast
    <2>2. k = cli[c].key
      BY <1>0, <1>5, <2>1 DEF UpdateDrops, TypeOK
    <2> QED
      BY <1>0, <2>1, <2>2 DEF Due
  <1>6. ASSUME NEW c \in Clients, UpdateLocked(c) \/ ExpireLocked(c) \/ SetLocked(c)
        PROVE  FALSE
    <2>1. cli[c].key \in Keys /\ cli[c].len \in Nat /\ cli[c].at \in Times
      BY <1>6 DEF UpdateLocked, ExpireLocked, SetLocked, LocalsOK, TypeOK, Local
    <2>2. \E e \in Entry : m' = [m EXCEPT ![cli[c].key] = e]
      <3>1. CASE SetLocked(c)
        <4>1. [len |-> cli[c].len, expireAt |-> cli[c].at] \in Entry
          BY <2>1 DEF Entry
        <4> QED
          BY <3>1, <4>1 DEF SetLocked
      <3>2. CASE UpdateLocked(c) \/ ExpireLocked(c)
        <4>1. m[cli[c].key] \in Entry
          BY <2>1, <3>2 DEF UpdateLocked, ExpireLocked, TypeOK
        <4>2. /\ [m[cli[c].key] EXCEPT !.len = cli[c].len] \in Entry
              /\ [m[cli[c].key] EXCEPT !.expireAt = cli[c].at] \in Entry
          BY <2>1, <4>1 DEF Entry
        <4> QED
          BY <3>2, <4>2 DEF UpdateLocked, ExpireLocked
      <3> QED
        BY <1>6, <3>1, <3>2
    <2> QED
      BY <1>0, <2>1, <2>2, NoneAssumption DEF TypeOK
  <1>7. ASSUME ExpirerEvicts
        PROVE  FALSE
    BY <1>0, <1>1, <1>7 DEF ExpirerEvicts, HoldsKey, ReadingsPast
  <1>8. ASSUME m' = m PROVE FALSE
    BY <1>0, <1>8
  <1> QED
    BY <1>3, <1>4, <1>5, <1>6, <1>7, <1>8
    DEF Next, Call, Finish, ExpirerStep, SetStart, SetRejected, GetRead, Account,
        UpdateStart, UpdateFails, ExpireStart, TTLRead, TTLAnswers, ExpirerTop,
        ExpirerWoken, ExpirerTimer, ExpirerReadsClock, CloseCh, CloseBroadcast,
        CloseJoin, Tick

\* The expirer, Get, Update and Expire, all of which decide on something they
\* read before the lock, never take away an entry that is not due.
THEOREM EvictionsAreDue == Spec => OnlyDueEvicted
  <1> DEFINE Step == \A k \in Keys :
                        RemovesNow(k) /\ ~Due(k, now) =>
                            \E c \in Clients :
                                cli'[c].pc = "account" /\ cli[c].pc \in {"idle", "ttl"}
             Inv == TypeInv /\ ReadingsPast
  <1>1. Init => Inv
    BY InitTypeInv, InitReadings
  <1>2. Inv /\ [Next]_vars => Inv'
    BY NextTypeInv, NextReadings
  <1>3. Inv /\ [Next]_vars => [Step]_vars
    BY RemovalIsDue DEF TypeInv
  <1>4. OnlyDueEvicted <=> [][Step]_vars
    BY DEF OnlyDueEvicted
  <1> HIDE DEF Step, Inv
  <1> QED
    BY <1>1, <1>2, <1>3, <1>4, PTL DEF Spec

-----------------------------------------------------------------------------
(* BytesAccounted and HardLimit: the byte counter.                         *)

\* The values of finitely many owners hold finitely many bytes.
LEMMA BytesFinite ==
    ASSUME NEW D, IsFiniteSet(D), NEW len \in [D -> Nat]
    PROVE  IsFiniteSet(Bytes(len)) /\ Volume(len) \in Nat
  <1> DEFINE blocks == {{x} \X (1 .. len[x]) : x \in D}
             block  == [x \in D |-> {x} \X (1 .. len[x])]
  <1>1. block \in Surjection(D, blocks)
    BY DEF Surjection
  <1>2. IsFiniteSet(blocks)
    BY <1>1, FS_Surjection
  <1>3. \A b \in blocks : IsFiniteSet(b)
    <2> SUFFICES ASSUME NEW x \in D PROVE IsFiniteSet({x} \X (1 .. len[x]))
      OBVIOUS
    <2>1. IsFiniteSet({x})
      BY FS_Singleton
    <2>2. IsFiniteSet(1 .. len[x])
      BY FS_Interval
    <2> QED
      BY <2>1, <2>2, FS_Product
  <1>4. Bytes(len) = UNION blocks
    BY DEF Bytes
  <1> HIDE DEF blocks
  <1>5. IsFiniteSet(Bytes(len))
    BY <1>2, <1>3, <1>4, FS_UNION
  <1> QED
    BY <1>5, FS_CardinalityType DEF Volume

\* Taking one owner away takes away its length.
LEMMA VolumeSplits ==
    ASSUME NEW D, IsFiniteSet(D), NEW len \in [D -> Nat], NEW x \in D
    PROVE  /\ Volume([y \in D \ {x} |-> len[y]]) \in Nat
           /\ Volume(len) = Volume([y \in D \ {x} |-> len[y]]) + len[x]
  <1> DEFINE rest == [y \in D \ {x} |-> len[y]]
             B == Bytes(rest)
             X == {x} \X (1 .. len[x])
  <1>1. IsFiniteSet(D \ {x}) /\ rest \in [D \ {x} -> Nat]
    BY FS_Difference
  <1>2. IsFiniteSet(B) /\ Volume(rest) \in Nat
    BY <1>1, BytesFinite
  <1>3. IsFiniteSet(X) /\ Cardinality(X) = len[x]
    <2>1. IsFiniteSet({x}) /\ Cardinality({x}) = 1
      BY FS_Singleton
    <2>2. IsFiniteSet(1 .. len[x]) /\ Cardinality(1 .. len[x]) = len[x]
      BY FS_Interval
    <2>3. IsFiniteSet(X) /\ Cardinality(X) = Cardinality({x}) * Cardinality(1 .. len[x])
      BY <2>1, <2>2, FS_Product
    <2> QED
      BY <2>1, <2>2, <2>3
  <1>4. Bytes(len) = B \cup X
    BY DEF Bytes
  <1>5. B \cap X = {}
    BY DEF Bytes
  <1> HIDE DEF B, X
  <1>6. Cardinality(B \cup X) = Cardinality(B) + Cardinality(X) - Cardinality(B \cap X)
    BY <1>2, <1>3, FS_Union
  <1>7. Cardinality(B \cap X) = 0
    BY <1>5, FS_EmptySet
  <1>8. Volume(rest) = Cardinality(B) /\ Volume(len) = Cardinality(B \cup X)
    BY <1>4 DEF Volume, B
  <1> QED
    BY <1>2, <1>3, <1>6, <1>7, <1>8

\* Two maps of lengths that differ only at x hold the same apart from x.
LengthAt(len, x) == IF x \in DOMAIN len THEN len[x] ELSE 0

LEMMA VolumeMoves ==
    ASSUME NEW D, IsFiniteSet(D), NEW f \in [D -> Nat],
           NEW E, IsFiniteSet(E), NEW g \in [E -> Nat],
           NEW x, D \ {x} = E \ {x}, \A y \in D \ {x} : f[y] = g[y]
    PROVE  /\ Volume(f) \in Nat /\ Volume(g) \in Nat
           /\ Volume(g) = Volume(f) - LengthAt(f, x) + LengthAt(g, x)
  <1> DEFINE rest == Volume([y \in D \ {x} |-> f[y]])
  <1>1. /\ Volume(f) \in Nat /\ rest \in Nat
        /\ Volume(f) = rest + LengthAt(f, x) /\ LengthAt(f, x) \in Nat
    <2>1. CASE x \in D
      BY <2>1, VolumeSplits, BytesFinite DEF LengthAt
    <2>2. CASE x \notin D
      <3>1. [y \in D \ {x} |-> f[y]] = f
        BY <2>2
      <3>2. LengthAt(f, x) = 0
        BY <2>2 DEF LengthAt
      <3>3. Volume(f) \in Nat
        BY BytesFinite
      <3> HIDE DEF rest
      <3>4. rest = Volume(f)
        BY <3>1 DEF rest
      <3> QED
        BY <3>2, <3>3, <3>4
    <2> QED
      BY <2>1, <2>2
  <1>2. /\ Volume(g) \in Nat
        /\ Volume(g) = rest + LengthAt(g, x) /\ LengthAt(g, x) \in Nat
    <2>0. [y \in D \ {x} |-> f[y]] = [y \in E \ {x} |-> g[y]]
      OBVIOUS
    <2>1. CASE x \in E
      BY <2>0, <2>1, VolumeSplits, BytesFinite DEF LengthAt
    <2>2. CASE x \notin E
      <3>1. [y \in D \ {x} |-> f[y]] = g
        BY <2>0, <2>2
      <3>2. LengthAt(g, x) = 0
        BY <2>2 DEF LengthAt
      <3>3. Volume(g) \in Nat
        BY BytesFinite
      <3> HIDE DEF rest
      <3>4. rest = Volume(g)
        BY <3>1 DEF rest
      <3> QED
        BY <3>2, <3>3, <3>4
    <2> QED
      BY <2>1, <2>2
  <1> HIDE DEF rest
  <1> QED
    BY <1>1, <1>2

\* What client c has removed and not yet accounted.
Pending(c) == IF cli[c].pc = "account" THEN cli[c].len ELSE 0

\* A step that touches the entry of k alone moves LiveBytes by the difference
\* of its lengths.
LEMMA LiveBytesMove ==
    ASSUME TypeOK, TypeOK', NEW k \in Keys, \A j \in Keys \ {k} : m'[j] = m[j]
    PROVE  /\ OldLen(k) \in Nat /\ OldLen(k)' \in Nat
           /\ LiveBytes' = LiveBytes + (OldLen(k)' - OldLen(k))
  <1> DEFINE f == [j \in Live |-> m[j].len]
             g == [j \in Live' |-> m'[j].len]
  <1>1. f \in [Live -> Nat] /\ g \in [Live' -> Nat]
    BY DEF Live, TypeOK, Entry
  <1>2. Live \in SUBSET Keys /\ Live' \in SUBSET Keys
    BY DEF Live
  <1>3. IsFiniteSet(Live) /\ IsFiniteSet(Live')
    BY <1>2, KeysAssumption, FS_Subset
  <1>4. Live \ {k} = Live' \ {k} /\ \A j \in Live \ {k} : f[j] = g[j]
    BY DEF Live
  <1>5. LengthAt(f, k) = OldLen(k) /\ LengthAt(g, k) = OldLen(k)'
    BY DEF LengthAt, OldLen, Live
  <1>6. OldLen(k) \in Nat /\ OldLen(k)' \in Nat
    BY DEF OldLen, TypeOK, Entry
  <1>7. LiveBytes = Volume(f) /\ LiveBytes' = Volume(g)
    BY DEF LiveBytes
  <1> HIDE DEF f, g
  <1>8. Volume(f) \in Nat /\ Volume(g) = Volume(f) - LengthAt(f, k) + LengthAt(g, k)
    BY <1>1, <1>3, <1>4, VolumeMoves
  <1> QED
    BY <1>5, <1>6, <1>7, <1>8

\* The same for a step of client c and AccountingBytes.
LEMMA AccountingBytesMove ==
    ASSUME TypeOK, TypeOK', NEW c \in Clients,
           \A d \in Clients \ {c} : cli'[d] = cli[d]
    PROVE  /\ Pending(c) \in Nat /\ Pending(c)' \in Nat
           /\ AccountingBytes' = AccountingBytes + (Pending(c)' - Pending(c))
  <1> DEFINE f == [d \in Accounting |-> cli[d].len]
             g == [d \in Accounting' |-> cli'[d].len]
  <1>1. f \in [Accounting -> Nat] /\ g \in [Accounting' -> Nat]
    BY DEF Accounting, TypeOK, Local
  <1>2. Accounting \in SUBSET Clients /\ Accounting' \in SUBSET Clients
    BY DEF Accounting
  <1>3. IsFiniteSet(Accounting) /\ IsFiniteSet(Accounting')
    BY <1>2, ClientsAssumption, FS_Subset
  <1>4. Accounting \ {c} = Accounting' \ {c} /\ \A d \in Accounting \ {c} : f[d] = g[d]
    BY DEF Accounting
  <1>5. LengthAt(f, c) = Pending(c) /\ LengthAt(g, c) = Pending(c)'
    BY DEF LengthAt, Pending, Accounting
  <1>6. Pending(c) \in Nat /\ Pending(c)' \in Nat
    BY DEF Pending, TypeOK, Local
  <1>7. AccountingBytes = Volume(f) /\ AccountingBytes' = Volume(g)
    BY DEF AccountingBytes
  <1> HIDE DEF f, g
  <1>8. Volume(f) \in Nat /\ Volume(g) = Volume(f) - LengthAt(f, c) + LengthAt(g, c)
    BY <1>1, <1>3, <1>4, VolumeMoves
  <1> QED
    BY <1>5, <1>6, <1>7, <1>8

LEMMA VolumesAreNat ==
    ASSUME TypeOK
    PROVE  LiveBytes \in Nat /\ AccountingBytes \in Nat
  <1>1. /\ [k \in Live |-> m[k].len] \in [Live -> Nat]
        /\ [c \in Accounting |-> cli[c].len] \in [Accounting -> Nat]
    BY DEF Live, Accounting, TypeOK, Entry, Local
  <1> QED
    BY <1>1, SetsFinite, BytesFinite DEF LiveBytes, AccountingBytes

\* The limit is kept by the counter; through the counter, by the maps.
CounterLimited == MaxBytes # 0 => mBytes <= MaxBytes

BytesInv == BytesAccounted /\ CounterLimited

\* The counter moves by what maps, pending removals and leaks move together:
\* the sum is never negative, so addBytesDelta does not saturate, and growth
\* has passed tryAddBytes.
LEMMA CounterFollows ==
    ASSUME TypeOK, TypeOK', BytesInv,
           NEW dl \in Int, NEW da \in Int, NEW dk \in Int,
           LiveBytes' = LiveBytes + dl,
           AccountingBytes' = AccountingBytes + da,
           leaked'.bytes = leaked.bytes + dk,
           mBytes' = AddBytesDelta(dl + da + dk),
           dl + da + dk > 0 => TryAddBytes(dl + da + dk)
    PROVE  BytesInv'
  <1>1. LiveBytes \in Nat /\ AccountingBytes \in Nat /\ leaked.bytes \in Nat /\ mBytes \in Nat
    BY VolumesAreNat DEF TypeOK
  <1>2. LiveBytes' \in Nat
    <2>1. [k \in Live' |-> m'[k].len] \in [Live' -> Nat] /\ Live' \in SUBSET Keys
      BY DEF Live, TypeOK, Entry
    <2> QED
      BY <2>1, KeysAssumption, FS_Subset, BytesFinite DEF LiveBytes
  <1>3. AccountingBytes' \in Nat
    <2>1. /\ [c \in Accounting' |-> cli'[c].len] \in [Accounting' -> Nat]
          /\ Accounting' \in SUBSET Clients
      BY DEF Accounting, TypeOK, Local
    <2> QED
      BY <2>1, ClientsAssumption, FS_Subset, BytesFinite DEF AccountingBytes
  <1>4. leaked'.bytes \in Nat
    BY DEF TypeOK
  <1>5. mBytes = LiveBytes + AccountingBytes + leaked.bytes
    BY DEF BytesInv, BytesAccounted
  <1>6. mBytes' = mBytes + (dl + da + dk)
    BY <1>1, <1>2, <1>3, <1>4, <1>5 DEF AddBytesDelta
  <1>7. BytesAccounted'
    BY <1>1, <1>5, <1>6 DEF BytesAccounted
  <1>8. CounterLimited'
    BY <1>1, <1>6, BoundsAssumption DEF BytesInv, CounterLimited, TryAddBytes
  <1> QED
    BY <1>7, <1>8 DEF BytesInv

LEMMA InitBytes == Init => BytesInv
  <1> SUFFICES ASSUME Init PROVE BytesInv
    OBVIOUS
  <1>1. Live = {} /\ Accounting = {}
    BY DEF Init, Live, Accounting, Idle
  <1>2. \A f : DOMAIN f = {} => Volume(f) = 0
    <2> SUFFICES ASSUME NEW f, DOMAIN f = {} PROVE Volume(f) = 0
      OBVIOUS
    <2>1. Bytes(f) = {}
      BY DEF Bytes
    <2> QED
      BY <2>1, FS_EmptySet DEF Volume
  <1>3. LiveBytes = 0 /\ AccountingBytes = 0
    BY <1>1, <1>2 DEF LiveBytes, AccountingBytes
  <1>4. mBytes = 0 /\ leaked.bytes = 0
    BY DEF Init
  <1> QED
    BY <1>3, <1>4, BoundsAssumption DEF BytesInv, BytesAccounted, CounterLimited

\* One case per kind of step: what it does to the entry of one key, to one
\* client's pending removal, to the leaks and to the counter.
LEMMA NextBytes == TypeInv /\ BytesInv /\ [Next]_vars => BytesInv'
  <1> SUFFICES ASSUME TypeInv, TypeOK, LocalsOK, HoldsKey, BytesInv, [Next]_vars
               PROVE  BytesInv'
    BY DEF TypeInv
  <1> USE DEF env, store, expiry
  <1>0. TypeOK'
    BY NextTypeInv DEF TypeInv
  <1>1. /\ mBytes \in Nat /\ leaked.bytes \in Nat
        /\ LiveBytes \in Nat /\ AccountingBytes \in Nat
    BY VolumesAreNat DEF TypeOK
  <1>2. ASSUME NEW c \in Clients, NEW r, cli' = [cli EXCEPT ![c] = r],
               cli[c].pc # "account", r.pc # "account"
        PROVE  AccountingBytes' = AccountingBytes + 0
    <2>1. \A d \in Clients \ {c} : cli'[d] = cli[d]
      BY <1>2 DEF TypeOK
    <2>2. Pending(c) = 0 /\ Pending(c)' = 0
      BY <1>2 DEF Pending, TypeOK
    <2>3. AccountingBytes' = AccountingBytes + (Pending(c)' - Pending(c))
      BY <1>0, <2>1, AccountingBytesMove
    <2> QED
      BY <1>1, <2>2, <2>3
  <1>3. ASSUME NEW c \in Clients, Return(c), cli[c].pc # "account"
        PROVE  AccountingBytes' = AccountingBytes + 0
    <2>1. cli' = [cli EXCEPT ![c] = Idle] /\ Idle.pc # "account"
      BY <1>3 DEF Return, Idle
    <2> QED
      BY <1>2, <1>3, <2>1
  <1>4. ASSUME UNCHANGED m
        PROVE  LiveBytes' = LiveBytes + 0
    <2>1. LiveBytes' = LiveBytes
      BY <1>4 DEF LiveBytes, Live
    <2> QED
      BY <1>1, <2>1
  <1>5. ASSUME UNCHANGED cli
        PROVE  AccountingBytes' = AccountingBytes + 0
    <2>1. AccountingBytes' = AccountingBytes
      BY <1>5 DEF AccountingBytes, Accounting
    <2> QED
      BY <1>1, <2>1
  <1>6. ASSUME LiveBytes' = LiveBytes + 0, AccountingBytes' = AccountingBytes + 0,
               UNCHANGED <<mBytes, leaked>>
        PROVE  BytesInv'
    BY <1>1, <1>6 DEF BytesInv, BytesAccounted, CounterLimited
  <1>7. ASSUME NEW c \in Clients,
               SetStart(c) \/ GetRead(c) \/ UpdateStart(c) \/ ExpireStart(c) \/ TTLRead(c)
        PROVE  BytesInv'
    <2>1. UNCHANGED <<m, mBytes, leaked>> /\ cli[c].pc # "account"
      BY <1>7 DEF SetStart, GetRead, UpdateStart, ExpireStart, TTLRead, Start
    <2>2. \E pc \in {"set", "get", "update", "expire", "ttl"} :
             \E k, n, t : Goto(c, pc, k, n, t)
      BY <1>7 DEF SetStart, GetRead, UpdateStart, ExpireStart, TTLRead
    <2>3. \E r : cli' = [cli EXCEPT ![c] = r] /\ r.pc # "account"
      <3>1. PICK pc \in {"set", "get", "update", "expire", "ttl"} : \E k, n, t : Goto(c, pc, k, n, t)
        BY <2>2
      <3>2. PICK k, n, t : Goto(c, pc, k, n, t)
        BY <3>1
      <3> DEFINE r == [pc |-> pc, key |-> k, len |-> n, at |-> t]
      <3>3. cli' = [cli EXCEPT ![c] = r] /\ r.pc # "account"
        BY <3>2 DEF Goto
      <3> HIDE DEF r
      <3> QED
        BY <3>3
    <2> QED
      BY <1>2, <1>4, <1>6, <2>1, <2>3
  <1>8. ASSUME NEW c \in Clients, SetRejected(c) \/ UpdateFails(c) \/ TTLAnswers(c)
        PROVE  BytesInv'
    <2>1. UNCHANGED <<m, mBytes, leaked>> /\ cli[c].pc # "account" /\ Return(c)
      BY <1>8 DEF SetRejected, UpdateFails, TTLAnswers
    <2> QED
      BY <1>3, <1>4, <1>6, <2>1
  <1>9. ASSUME NEW k \in Keys, NEW e, m' = [m EXCEPT ![k] = e],
               NEW n \in Nat, IF e = None THEN n = 0 ELSE n = e.len
        PROVE  /\ LiveBytes' = LiveBytes + (n - OldLen(k))
               /\ OldLen(k) \in Nat
    <2>1. \A j \in Keys \ {k} : m'[j] = m[j]
      BY <1>9 DEF TypeOK
    <2>2. OldLen(k)' = n
      BY <1>9 DEF OldLen, TypeOK
    <2> QED
      BY <1>0, <2>1, <2>2, LiveBytesMove
  <1>10. ASSUME NEW c \in Clients, NEW k \in Keys, NEW n \in Nat, NEW e,
                m' = [m EXCEPT ![k] = e], IF e = None THEN n = 0 ELSE n = e.len,
                Fits(k, n), mBytes' = AddBytesDelta(n - OldLen(k)),
                cli[c].pc # "account", Return(c), UNCHANGED leaked
         PROVE  BytesInv'
    <2>1. OldLen(k) \in Nat /\ LiveBytes' = LiveBytes + (n - OldLen(k))
      BY <1>9, <1>10
    <2>2. AccountingBytes' = AccountingBytes + 0
      BY <1>3, <1>10
    <2>3. PICK d \in Int : d = n - OldLen(k)
      BY <2>1
    <2>4. d + 0 + 0 = d
      OBVIOUS
    <2>5. mBytes' = AddBytesDelta(d) /\ (d > 0 => TryAddBytes(d))
      BY <1>10, <2>1, <2>3 DEF Fits
    <2>6. leaked'.bytes = leaked.bytes + 0
      BY <1>1, <1>10
    <2> QED
      BY <1>0, <2>1, <2>2, <2>3, <2>4, <2>5, <2>6, CounterFollows
  <1>11. ASSUME NEW c \in Clients, SetLocked(c)
         PROVE  BytesInv'
    <2>1. cli[c].key \in Keys /\ cli[c].len \in Nat /\ cli[c].at \in Times
      BY <1>11 DEF SetLocked, LocalsOK, TypeOK, Local
    <2> DEFINE e == [len |-> cli[c].len, expireAt |-> cli[c].at]
    <2>2. e # None /\ e.len = cli[c].len
      BY <2>1, NoneAssumption DEF Entry
    <2>3. /\ m' = [m EXCEPT ![cli[c].key] = e] /\ Fits(cli[c].key, cli[c].len)
          /\ mBytes' = AddBytesDelta(cli[c].len - OldLen(cli[c].key))
          /\ cli[c].pc # "account" /\ Return(c) /\ UNCHANGED leaked
      BY <1>11 DEF SetLocked
    <2> HIDE DEF e
    <2> QED
      BY <1>10, <2>1, <2>2, <2>3
  <1>12. ASSUME NEW c \in Clients, UpdateLocked(c)
         PROVE  BytesInv'
    <2>1. cli[c].key \in Keys /\ cli[c].len \in Nat
      BY <1>12 DEF UpdateLocked, LocalsOK, TypeOK, Local
    <2> DEFINE e == [m[cli[c].key] EXCEPT !.len = cli[c].len]
    <2>2. m[cli[c].key] \in Entry
      BY <1>12, <2>1 DEF UpdateLocked, TypeOK
    <2>3. e \in Entry /\ e.len = cli[c].len
      BY <2>1, <2>2 DEF Entry
    <2>4. /\ m' = [m EXCEPT ![cli[c].key] = e] /\ Fits(cli[c].key, cli[c].len)
          /\ mBytes' = AddBytesDelta(cli[c].len - OldLen(cli[c].key))
          /\ cli[c].pc # "account" /\ Return(c) /\ UNCHANGED leaked
      BY <1>12 DEF UpdateLocked, OldLen
    <2> HIDE DEF e
    <2>5. e # None
      BY <2>3, NoneAssumption
    <2> QED
      BY <1>10, <2>1, <2>3, <2>4, <2>5
  <1>13. ASSUME NEW c \in Clients, ExpireLocked(c)
         PROVE  BytesInv'
    <2>1. cli[c].key \in Keys /\ cli[c].at \in Times
      BY <1>13 DEF ExpireLocked, LocalsOK, TypeOK, Local
    <2> DEFINE e == [m[cli[c].key] EXCEPT !.expireAt = cli[c].at]
    <2>2. m[cli[c].key] \in Entry
      BY <1>13, <2>1 DEF ExpireLocked, TypeOK
    <2>3. e \in Entry /\ e.len = m[cli[c].key].len /\ e.len \in Nat
      BY <2>1, <2>2 DEF Entry
    <2>4. /\ m' = [m EXCEPT ![cli[c].key] = e] /\ UNCHANGED <<mBytes, leaked>>
          /\ cli[c].pc # "account" /\ Return(c)
      BY <1>13 DEF ExpireLocked
    <2>5. OldLen(cli[c].key) = e.len
      BY <2>2, <2>3, NoneAssumption DEF OldLen
    <2> HIDE DEF e
    <2>6. e # None
      BY <2>3, NoneAssumption
    <2>7. LiveBytes' = LiveBytes + 0
      <3>1. LiveBytes' = LiveBytes + (e.len - OldLen(cli[c].key))
        BY <1>9, <2>1, <2>3, <2>4, <2>6
      <3> QED
        BY <2>3, <2>5, <3>1
    <2> QED
      BY <1>3, <1>6, <2>4, <2>7
  <1>14. ASSUME NEW k \in Keys, NEW t, EvictIfDue(k, t), UNCHANGED leaked,
                AccountingBytes' = AccountingBytes + 0
         PROVE  BytesInv'
    <2>1. CASE Due(k, t)
      <3>1. /\ m' = [m EXCEPT ![k] = None] /\ m[k] # None
            /\ OldLen(k) = m[k].len /\ mBytes' = AddBytesDelta(-m[k].len)
        BY <1>14, <2>1 DEF EvictIfDue, Due, Uncount, OldLen
      <3>2. OldLen(k) \in Nat /\ LiveBytes' = LiveBytes + (0 - OldLen(k))
        BY <1>9, <3>1
      <3>3. PICK d \in Int : d = 0 - OldLen(k)
        BY <3>2
      <3>4. d + 0 + 0 = d /\ ~(d > 0) /\ d = -m[k].len
        BY <3>1, <3>2, <3>3
      <3>5. leaked'.bytes = leaked.bytes + 0
        BY <1>1, <1>14
      <3> QED
        BY <1>0, <1>14, <3>1, <3>2, <3>3, <3>4, <3>5, CounterFollows
    <2>2. CASE ~Due(k, t)
      BY <1>4, <1>6, <1>14, <2>2 DEF EvictIfDue
    <2> QED
      BY <2>1, <2>2
  <1>15. ASSUME NEW c \in Clients, GetCheck(c) \/ ExpireFails(c)
         PROVE  BytesInv'
    <2>1. /\ cli[c].key \in Keys /\ cli[c].pc # "account"
          /\ Return(c) /\ UNCHANGED leaked
      BY <1>15 DEF GetCheck, ExpireFails, LocalsOK
    <2>2. EvictIfDue(cli[c].key, now) \/ UNCHANGED <<m, mBytes>>
      BY <1>15 DEF GetCheck, ExpireFails
    <2> QED
      BY <1>3, <1>4, <1>6, <1>14, <2>1, <2>2
  <1>16. CASE ExpirerEvicts
    <2>1. /\ expirer.key \in Keys /\ EvictIfDue(expirer.key, expirer.nowN)
          /\ UNCHANGED <<leaked, cli>>
      BY <1>16 DEF ExpirerEvicts, HoldsKey
    <2> QED
      BY <1>5, <1>14, <2>1
  <1>17. ASSUME NEW c \in Clients, GetDel(c) \/ Delete(c) \/ TTLDeletes(c)
         PROVE  BytesInv'
    <2>1. PICK k \in Keys : RemoveThenAccount(c, k)
      BY <1>17 DEF GetDel, Delete, TTLDeletes, Live, LocalsOK
    <2>2. cli[c].pc # "account"
      BY <1>17 DEF GetDel, Delete, TTLDeletes, Start
    <2>3. /\ m' = [m EXCEPT ![k] = None] /\ OldLen(k) = m[k].len
          /\ UNCHANGED <<mBytes, leaked>>
      BY <2>1 DEF RemoveThenAccount, OldLen
    <2>4. OldLen(k) \in Nat /\ LiveBytes' = LiveBytes + (0 - OldLen(k))
      BY <1>9, <2>3
    <2>5. Pending(c) = 0 /\ Pending(c)' = OldLen(k)
      BY <2>1, <2>2, <2>3 DEF RemoveThenAccount, Goto, Pending, TypeOK
    <2>6. AccountingBytes' = AccountingBytes + (Pending(c)' - Pending(c))
      <3>1. \A d \in Clients \ {c} : cli'[d] = cli[d]
        BY <2>1 DEF RemoveThenAccount, Goto, TypeOK
      <3> QED
        BY <1>0, <3>1, AccountingBytesMove
    <2> QED
      BY <1>1, <2>3, <2>4, <2>5, <2>6 DEF BytesInv, BytesAccounted, CounterLimited
  <1>18. ASSUME NEW c \in Clients, Account(c)
         PROVE  BytesInv'
    <2>1. /\ UNCHANGED <<m, leaked>> /\ mBytes' = AddBytesDelta(-cli[c].len)
          /\ cli[c].len \in Nat
      BY <1>18 DEF Account, Uncount, TypeOK, Local
    <2>2. Pending(c) = cli[c].len /\ Pending(c)' = 0
      BY <1>18 DEF Account, Return, Idle, Pending, TypeOK
    <2>3. AccountingBytes' = AccountingBytes + (Pending(c)' - Pending(c))
      <3>1. \A d \in Clients \ {c} : cli'[d] = cli[d]
        BY <1>18 DEF Account, Return, TypeOK
      <3> QED
        BY <1>0, <3>1, AccountingBytesMove
    <2>4. PICK d \in Int : d = -cli[c].len
      BY <2>1
    <2>5. 0 + d + 0 = d /\ ~(d > 0) /\ AccountingBytes' = AccountingBytes + d
      BY <1>1, <2>1, <2>2, <2>3, <2>4
    <2>6. leaked'.bytes = leaked.bytes + 0
      BY <1>1, <2>1
    <2> QED
      BY <1>0, <1>4, <2>1, <2>4, <2>5, <2>6, CounterFollows
  <1>19. ASSUME NEW c \in Clients, UpdateDrops(c)
         PROVE  BytesInv'
    <2> DEFINE k == cli[c].key
    <2>1. /\ k \in Keys /\ OldLen(k) = m[k].len
          /\ m' = [m EXCEPT ![k] = None] /\ UNCHANGED mBytes
          /\ leaked'.bytes = leaked.bytes + m[k].len
          /\ cli[c].pc # "account" /\ Return(c)
      BY <1>19 DEF UpdateDrops, Due, OldLen, LocalsOK
    <2>2. OldLen(k) \in Nat /\ LiveBytes' = LiveBytes + (0 - OldLen(k))
      BY <1>9, <2>1
    <2>3. AccountingBytes' = AccountingBytes + 0
      BY <1>3, <2>1
    <2> QED
      BY <1>1, <2>1, <2>2, <2>3 DEF BytesInv, BytesAccounted, CounterLimited
  <1>20. CASE \/ ExpirerTop \/ ExpirerWoken \/ ExpirerTimer \/ ExpirerReadsClock
              \/ CloseCh \/ CloseBroadcast \/ CloseJoin \/ Tick \/ UNCHANGED vars
    <2>1. UNCHANGED <<m, mBytes, leaked, cli>>
      BY <1>20 DEF ExpirerTop, ExpirerWoken, ExpirerTimer, ExpirerReadsClock,
                   CloseCh, CloseBroadcast, CloseJoin, Tick, vars
    <2> QED
      BY <1>4, <1>5, <1>6, <2>1
  <1> QED
    BY <1>7, <1>8, <1>11, <1>12, <1>13, <1>15, <1>16, <1>17, <1>18, <1>19, <1>20
    DEF Next, Call, Finish, ExpirerStep

\* The byte counter is exact, except for what Update leaks: evictions,
\* overwrites and removals accounted late never make it saturate or drift.
THEOREM ByteCounter == Spec => []BytesAccounted
  <1>1. Init => TypeInv /\ BytesInv
    BY InitTypeInv, InitBytes
  <1>2. (TypeInv /\ BytesInv) /\ [Next]_vars => (TypeInv /\ BytesInv)'
    BY NextTypeInv, NextBytes
  <1>3. TypeInv /\ BytesInv => BytesAccounted
    BY DEF BytesInv
  <1> QED
    BY <1>1, <1>2, <1>3, PTL DEF Spec

\* MaxBytes bounds the stored bytes: the counter the limit is enforced against
\* is never below what the maps hold.
THEOREM LimitIsHard == Spec => []HardLimit
  <1>1. Init => TypeInv /\ BytesInv
    BY InitTypeInv, InitBytes
  <1>2. (TypeInv /\ BytesInv) /\ [Next]_vars => (TypeInv /\ BytesInv)'
    BY NextTypeInv, NextBytes
  <1>3. TypeInv /\ BytesInv => HardLimit
    <2> SUFFICES ASSUME TypeOK, BytesInv, MaxBytes # 0 PROVE LiveBytes <= MaxBytes
      BY DEF TypeInv, HardLimit
    <2>1. LiveBytes \in Nat /\ AccountingBytes \in Nat /\ leaked.bytes \in Nat
      BY VolumesAreNat DEF TypeOK
    <2> QED
      BY <2>1, BoundsAssumption DEF BytesInv, BytesAccounted, CounterLimited
  <1> QED
    BY <1>1, <1>2, <1>3, PTL DEF Spec
=============================================================================
