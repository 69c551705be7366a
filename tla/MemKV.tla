------------------------------- MODULE MemKV -------------------------------
(***************************************************************************)
(* The sharded in-memory store with per-key TTL (pkg/memkv/store.go).      *)
(*                                                                         *)
(* Clients call the public operations concurrently; one background         *)
(* goroutine, the expirer, removes entries whose deadline has passed; one  *)
(* goroutine may call Close.  A step is what the code does between two     *)
(* points where another goroutine can be observed: a shard's critical      *)
(* section is one step, and an operation is cut wherever it reads the      *)
(* clock or the map, or updates a counter, outside that section.           *)
(*                                                                         *)
(* Values are their lengths.  Keys of one shard exclude each other only    *)
(* inside one-step critical sections, so shards need no representation.    *)
(* The clock is monotonic and starts at 1 (expireAt = 0 is "no expiry").   *)
(* The counters that only report traffic (mSets, mGets, mHits, mMisses,    *)
(* mDels, mExpired, mUpdates) guide no branch and are left out.            *)
(***************************************************************************)
EXTENDS Integers, FiniteSets

CONSTANTS
    Keys,       \* the keys the clients use
    Clients,    \* the goroutines that call the store
    Lens,       \* lengths of the values they write
    TTLs,       \* TTL arguments; 0 stands for every ttl <= 0
    Jitter,     \* Options.ExpireJitter
    MaxBytes,   \* Options.MaxBytes; 0 is "no limit"
    MaxTime,    \* bound: the last tick of the clock, no deadline is later
    MaxOps,     \* bound: how many operations the clients start
    None        \* no entry under a key; no key in a local variable

ASSUME KeysAssumption    == IsFiniteSet(Keys) /\ None \notin Keys
ASSUME ClientsAssumption == IsFiniteSet(Clients)
ASSUME LensAssumption    == Lens \subseteq Nat
ASSUME TTLsAssumption    == TTLs \subseteq Nat
ASSUME BoundsAssumption  == /\ Jitter \in Nat
                            /\ MaxBytes \in Nat
                            /\ MaxTime \in Nat \ {0}
                            /\ MaxOps \in Nat

VARIABLES
    now,        \* the clock every nowFn() reads
    m,          \* key -> entry, or None: the maps of all shards
    mKeys,      \* the key counter
    mBytes,     \* the byte counter that MaxBytes is enforced against
    expq,       \* the expiry heap, as a bag: <<key, when>> -> occurrences
    cond,       \* expq.cond has been created
    expirer,    \* the expirer's program counter and locals
    closed,     \* closeCh is closed
    closer,     \* progress of the goroutine that calls Close
    cli,        \* client -> its program counter and locals
    ops,        \* operations started so far
    leaked      \* history: keys and bytes Update dropped without accounting

\* What the clock and Close own, what operations account for, the expiry side.
env    == <<now, closed, closer>>
store  == <<m, mKeys, mBytes, leaked>>
expiry == <<expq, cond, expirer>>
vars   == <<env, store, expiry, cli, ops>>

-----------------------------------------------------------------------------
(* State.                                                                  *)

Times == 0..MaxTime

Items == Keys \X (1..MaxTime)

\* entry: a value (its length) and expireAt, 0 when it never expires.
Entry == [len : Nat, expireAt : Times]

ASSUME NoneAssumption == None \notin Entry

Live == {k \in Keys : m[k] # None}

Queued == {it \in Items : expq[it] > 0}

\* The test every operation repeats: there is an entry under k and
\* e.expireAt != 0 && e.expireAt <= t.
Due(k, t) == m[k] # None /\ m[k].expireAt # 0 /\ m[k].expireAt <= t

\* A client's locals: the key, a length (the value to write, or the length of
\* the value it removed) and an instant (a deadline or a clock reading).
Local == [pc  : {"idle", "set", "get", "update", "expire", "ttl", "account"},
          key : Keys \cup {None},
          len : Nat,
          at  : Times]

Idle == [pc |-> "idle", key |-> None, len |-> 0, at |-> 0]

\* The expirer: key and when are the popped item, or when is the deadline its
\* timer is set to; nowN is the clock reading it tests the entry against.
Expirer == [pc   : {"top", "wait", "woken", "sleep", "popped", "check", "done"},
            key  : Keys \cup {None},
            when : Times,
            nowN : Times]

ExpirerAt(pc) == [pc |-> pc, key |-> None, when |-> 0, nowN |-> 0]

\* New: empty shards, the expirer started.
Init ==
    /\ now = 1
    /\ m = [k \in Keys |-> None]
    /\ mKeys = 0
    /\ mBytes = 0
    /\ expq = [it \in Items |-> 0]
    /\ cond = FALSE
    /\ expirer = ExpirerAt("top")
    /\ closed = FALSE
    /\ closer = "open"
    /\ cli = [c \in Clients |-> Idle]
    /\ ops = 0
    /\ leaked = [keys |-> 0, bytes |-> 0]

-----------------------------------------------------------------------------
(* Accounting.                                                             *)

\* tryAddBytes as if the limit bounded each value and not their sum.
TryAddBytesPerValue(delta) == MaxBytes = 0 \/ delta <= MaxBytes

\* tryAddBytes succeeds: the sum stays within the limit, if there is one.
TryAddBytes(delta) == MaxBytes = 0 \/ mBytes + delta <= MaxBytes

\* addBytesDelta: the counter moves by delta and saturates at zero.
AddBytesDelta(delta) == IF mBytes + delta < 0 THEN 0 ELSE mBytes + delta

\* Uncount with the byte half forgotten.
UncountKeysOnly(n) == mKeys' = mKeys - 1 /\ mBytes' = mBytes

\* One entry of length n leaves the counters: mKeys.Add(^uint64(0)) and
\* addBytesDelta(-n).
Uncount(n) == mKeys' = mKeys - 1 /\ mBytes' = AddBytesDelta(-n)

OldLen(k) == IF m[k] = None THEN 0 ELSE m[k].len

\* Growth of the value under k to n bytes is reserved before it is written.
Fits(k, n) == n > OldLen(k) => TryAddBytes(n - OldLen(k))

\* Set's `if !existed { mKeys.Add(1) }' without the test.
CountEverySet(k) == mKeys + 1

\* Set counts a key only when it was not there.
CountSet(k) == IF m[k] = None THEN mKeys + 1 ELSE mKeys

-----------------------------------------------------------------------------
(* Shared steps.                                                           *)

\* A waiting expirer is made runnable by a Broadcast; one asleep on its timer
\* is not waiting on cond.
Broadcast == IF expirer.pc = "wait" THEN ExpirerAt("woken") ELSE expirer

\* enqueueExpire without the Broadcast.
EnqueueExpireSilently(k, when) ==
    /\ expq' = [expq EXCEPT ![<<k, when>>] = @ + 1]
    /\ cond' = TRUE
    /\ UNCHANGED expirer

\* enqueueExpire: push the item, creating cond if need be, and Broadcast.
EnqueueExpire(k, when) ==
    /\ expq' = [expq EXCEPT ![<<k, when>>] = @ + 1]
    /\ cond' = TRUE
    /\ expirer' = Broadcast

\* EvictIfDue trusting a test made before the lock was taken.
EvictUnchecked(k, t) ==
    IF m[k] # None
       THEN m' = [m EXCEPT ![k] = None] /\ Uncount(m[k].len)
       ELSE UNCHANGED <<m, mKeys, mBytes>>

\* Under the lock: the entry under k, if it is there and due at t, is deleted
\* and taken off the counters before the lock is released.
EvictIfDue(k, t) ==
    IF Due(k, t)
       THEN m' = [m EXCEPT ![k] = None] /\ Uncount(m[k].len)
       ELSE UNCHANGED <<m, mKeys, mBytes>>

Goto(c, pc, k, n, t) ==
    cli' = [cli EXCEPT ![c] = [pc |-> pc, key |-> k, len |-> n, at |-> t]]

Return(c) == cli' = [cli EXCEPT ![c] = Idle]

\* Client c starts an operation: it was idle and the budget is not used up.
\* A call that finds no entry returns without changing anything and is a
\* stuttering step.
Start(c) ==
    /\ cli[c].pc = "idle"
    /\ ops < MaxOps
    /\ ops' = ops + 1

\* The entry under k leaves the map inside the lock; the counters follow
\* after the lock is released (Account).
RemoveThenAccount(c, k) ==
    /\ m[k] # None
    /\ m' = [m EXCEPT ![k] = None]
    /\ Goto(c, "account", k, m[k].len, 0)
    /\ UNCHANGED <<mKeys, mBytes, leaked>>

-----------------------------------------------------------------------------
(* Client operations.                                                      *)

\* Set's jitter adds -Jitter, 0 or Jitter to the ttl and clamps it at zero.
Jittered(ttl) ==
    {IF ttl + j < 0 THEN 0 ELSE ttl + j : j \in {-Jitter, 0, Jitter}}

\* expAt; bound: no deadline lies past the modelled clock.
Deadlines(ttl) ==
    IF ttl = 0 THEN {0} ELSE {now + t : t \in Jittered(ttl)} \cap Times

\* Set, up to the lock: the deadline comes from a clock reading that may be
\* stale by the time the entry is written.
SetStart(c) ==
    /\ Start(c)
    /\ \E k \in Keys, n \in Lens, ttl \in TTLs :
           \E t \in Deadlines(ttl) : Goto(c, "set", k, n, t)
    /\ UNCHANGED <<env, store, expiry>>

\* Set under the lock, growth over the limit: nothing is written.
SetRejected(c) ==
    /\ cli[c].pc = "set"
    /\ ~Fits(cli[c].key, cli[c].len)
    /\ Return(c)
    /\ UNCHANGED <<env, store, expiry, ops>>

\* Set under the lock: entry, counters and expiry item.
SetLocked(c) ==
    LET k == cli[c].key
        n == cli[c].len
        t == cli[c].at
    IN  /\ cli[c].pc = "set"
        /\ Fits(k, n)
        /\ m' = [m EXCEPT ![k] = [len |-> n, expireAt |-> t]]
        /\ mKeys' = CountSet(k)
        /\ mBytes' = AddBytesDelta(n - OldLen(k))
        /\ IF t = 0 THEN UNCHANGED expiry ELSE EnqueueExpire(k, t)
        /\ Return(c)
        /\ UNCHANGED <<env, leaked, ops>>

\* Get, GetNoCopy, Exists: the entry is read under the read lock ...
GetRead(c) ==
    /\ Start(c)
    /\ \E k \in Live : Goto(c, "get", k, 0, m[k].expireAt)
    /\ UNCHANGED <<env, store, expiry>>

\* ... and, if what was read is due, evicted under the write lock after a
\* second look.
GetCheck(c) ==
    /\ cli[c].pc = "get"
    /\ IF cli[c].at # 0 /\ cli[c].at <= now
          THEN EvictIfDue(cli[c].key, now)
          ELSE UNCHANGED <<m, mKeys, mBytes>>
    /\ Return(c)
    /\ UNCHANGED <<env, leaked, expiry, ops>>

\* GetDel and GetAndDelete: live or due, the entry is removed.
GetDel(c) ==
    /\ Start(c)
    /\ \E k \in Live : RemoveThenAccount(c, k)
    /\ UNCHANGED <<env, expiry>>

\* Delete, also called by Expire with ttl <= 0.
Delete(c) ==
    /\ Start(c)
    /\ \E k \in Live : RemoveThenAccount(c, k)
    /\ UNCHANGED <<env, expiry>>

\* The tail of Delete and GetDel, outside the lock.
Account(c) ==
    /\ cli[c].pc = "account"
    /\ Uncount(cli[c].len)
    /\ Return(c)
    /\ UNCHANGED <<env, m, leaked, expiry, ops>>

\* Update reads the clock before it takes the lock; n is the length of what
\* the caller's fn returns.
UpdateStart(c) ==
    /\ Start(c)
    /\ \E k \in Keys, n \in Lens : Goto(c, "update", k, n, now)
    /\ UNCHANGED <<env, store, expiry>>

\* Update finds no entry, or one whose growth is over the limit.
UpdateFails(c) ==
    LET k == cli[c].key
    IN  /\ cli[c].pc = "update"
        /\ \/ m[k] = None
           \/ ~Due(k, cli[c].at) /\ ~Fits(k, cli[c].len)
        /\ Return(c)
        /\ UNCHANGED <<env, store, expiry, ops>>

\* Update finds the entry due: it is deleted, and the counters are not told.
UpdateDrops(c) ==
    LET k == cli[c].key
    IN  /\ cli[c].pc = "update"
        /\ Due(k, cli[c].at)
        /\ m' = [m EXCEPT ![k] = None]
        /\ leaked' = [keys |-> leaked.keys + 1, bytes |-> leaked.bytes + m[k].len]
        /\ Return(c)
        /\ UNCHANGED <<env, mKeys, mBytes, expiry, ops>>

\* Update under the lock: the value is replaced, the deadline kept.
UpdateLocked(c) ==
    LET k == cli[c].key
        n == cli[c].len
    IN  /\ cli[c].pc = "update"
        /\ m[k] # None
        /\ ~Due(k, cli[c].at)
        /\ Fits(k, n)
        /\ m' = [m EXCEPT ![k].len = n]
        /\ mBytes' = AddBytesDelta(n - m[k].len)
        /\ Return(c)
        /\ UNCHANGED <<env, mKeys, leaked, expiry, ops>>

\* Expire with ttl > 0 computes the new deadline before it takes the lock.
ExpireStart(c) ==
    /\ Start(c)
    /\ \E k \in Keys, ttl \in TTLs \ {0} :
           /\ now + ttl \in Times
           /\ Goto(c, "expire", k, 0, now + ttl)
    /\ UNCHANGED <<env, store, expiry>>

\* Expire under the lock, no entry or a due one: a due one is evicted.
ExpireFails(c) ==
    LET k == cli[c].key
    IN  /\ cli[c].pc = "expire"
        /\ m[k] = None \/ Due(k, now)
        /\ EvictIfDue(k, now)
        /\ Return(c)
        /\ UNCHANGED <<env, leaked, expiry, ops>>

\* Expire moves the deadline without telling the expirer.
ExpireLockedUnqueued(c) ==
    LET k == cli[c].key
        t == cli[c].at
    IN  /\ cli[c].pc = "expire"
        /\ m[k] # None
        /\ ~Due(k, now)
        /\ m' = [m EXCEPT ![k].expireAt = t]
        /\ Return(c)
        /\ UNCHANGED <<env, mKeys, mBytes, leaked, expiry, ops>>

\* Expire under the lock: the deadline moves and a second item is queued.
ExpireLocked(c) ==
    LET k == cli[c].key
        t == cli[c].at
    IN  /\ cli[c].pc = "expire"
        /\ m[k] # None
        /\ ~Due(k, now)
        /\ m' = [m EXCEPT ![k].expireAt = t]
        /\ EnqueueExpire(k, t)
        /\ Return(c)
        /\ UNCHANGED <<env, mKeys, mBytes, leaked, ops>>

\* TTL reads the deadline under the read lock ...
TTLRead(c) ==
    /\ Start(c)
    /\ \E k \in Live : Goto(c, "ttl", k, 0, m[k].expireAt)
    /\ UNCHANGED <<env, store, expiry>>

\* ... and answers, when there is no deadline, it lies ahead, or the entry is
\* gone by the time Delete looks for it ...
TTLAnswers(c) ==
    /\ cli[c].pc = "ttl"
    /\ cli[c].at = 0 \/ cli[c].at > now \/ m[cli[c].key] = None
    /\ Return(c)
    /\ UNCHANGED <<env, store, expiry, ops>>

\* ... or calls Delete, which removes whatever is under the key by then.
TTLDeletes(c) ==
    /\ cli[c].pc = "ttl"
    /\ cli[c].at # 0
    /\ cli[c].at <= now
    /\ RemoveThenAccount(c, cli[c].key)
    /\ UNCHANGED <<env, expiry, ops>>

-----------------------------------------------------------------------------
(* The expirer goroutine.                                                  *)

\* The items heap.Pop may return: those with the least deadline.
Nearest == {it \in Queued : \A jt \in Queued : it[2] <= jt[2]}

\* One pass of the loop under expq's lock, from Len() to Wait, the timer or
\* Pop.
Scan ==
    \/ /\ Queued = {}
       /\ expirer' = ExpirerAt(IF closed THEN "done" ELSE "wait")
       /\ cond' = TRUE
       /\ UNCHANGED expq
    \/ \E it \in Nearest :
          /\ it[2] > now
          /\ expirer' = [pc |-> "sleep", key |-> None, when |-> it[2], nowN |-> 0]
          /\ UNCHANGED <<expq, cond>>
    \/ \E it \in Nearest :
          /\ it[2] <= now
          /\ expirer' = [pc |-> "popped", key |-> it[1], when |-> it[2], nowN |-> 0]
          /\ expq' = [expq EXCEPT ![it] = @ - 1]
          /\ UNCHANGED cond

ExpirerTop ==
    /\ expirer.pc = "top"
    /\ Scan
    /\ UNCHANGED <<env, store, cli, ops>>

\* Back from cond.Wait with the lock held.
ExpirerWoken ==
    /\ expirer.pc = "woken"
    /\ IF closed
          THEN expirer' = ExpirerAt("done") /\ UNCHANGED <<expq, cond>>
          ELSE Scan
    /\ UNCHANGED <<env, store, cli, ops>>

\* The select on the timer and closeCh.
ExpirerTimer ==
    /\ expirer.pc = "sleep"
    /\ \/ expirer.when <= now /\ expirer' = ExpirerAt("top")
       \/ closed /\ expirer' = ExpirerAt("done")
    /\ UNCHANGED <<env, store, expq, cond, cli, ops>>

\* nowN is read before the shard is locked.
ExpirerReadsClock ==
    /\ expirer.pc = "popped"
    /\ expirer' = [expirer EXCEPT !.pc = "check", !.nowN = now]
    /\ UNCHANGED <<env, store, expq, cond, cli, ops>>

\* The popped item's entry is evicted if it is due at nowN.
ExpirerEvicts ==
    /\ expirer.pc = "check"
    /\ EvictIfDue(expirer.key, expirer.nowN)
    /\ expirer' = ExpirerAt("top")
    /\ UNCHANGED <<env, leaked, expq, cond, cli, ops>>

-----------------------------------------------------------------------------
(* Close and the clock.                                                    *)

\* Close without the Broadcast that follows close(closeCh).
CloseChNoBroadcast ==
    /\ closer = "open"
    /\ closed' = TRUE
    /\ closer' = "joining"
    /\ UNCHANGED <<now, store, expiry, cli, ops>>

\* Close: close(closeCh) ...
CloseCh ==
    /\ closer = "open"
    /\ closed' = TRUE
    /\ closer' = "closing"
    /\ UNCHANGED <<now, store, expiry, cli, ops>>

\* ... a Broadcast under expq's lock, if there is a cond ...
CloseBroadcast ==
    /\ closer = "closing"
    /\ expirer' = IF cond THEN Broadcast ELSE expirer
    /\ closer' = "joining"
    /\ UNCHANGED <<now, closed, store, expq, cond, cli, ops>>

\* ... and wg.Wait.
CloseJoin ==
    /\ closer = "joining"
    /\ expirer.pc = "done"
    /\ closer' = "closed"
    /\ UNCHANGED <<now, closed, store, expiry, cli, ops>>

Tick ==
    /\ now < MaxTime
    /\ now' = now + 1
    /\ UNCHANGED <<closed, closer, store, expiry, cli, ops>>

-----------------------------------------------------------------------------

\* What a client decides to call, and what finishes a call it has started.
Call(c) ==
    \/ SetStart(c) \/ GetRead(c) \/ GetDel(c) \/ Delete(c)
    \/ UpdateStart(c) \/ ExpireStart(c) \/ TTLRead(c)

Finish(c) ==
    \/ SetRejected(c) \/ SetLocked(c)
    \/ GetCheck(c)
    \/ Account(c)
    \/ UpdateFails(c) \/ UpdateDrops(c) \/ UpdateLocked(c)
    \/ ExpireFails(c) \/ ExpireLocked(c)
    \/ TTLAnswers(c) \/ TTLDeletes(c)

ExpirerStep ==
    \/ ExpirerTop \/ ExpirerWoken \/ ExpirerTimer
    \/ ExpirerReadsClock \/ ExpirerEvicts

Next ==
    \/ \E c \in Clients : Call(c) \/ Finish(c)
    \/ ExpirerStep
    \/ CloseCh \/ CloseBroadcast \/ CloseJoin
    \/ Tick

Spec == Init /\ [][Next]_vars

\* Goroutines that can run are scheduled, locks are released and the clock
\* advances; nobody has to call an operation or Close.
Fairness ==
    /\ WF_vars(Tick)
    /\ WF_vars(ExpirerStep)
    /\ WF_vars(CloseBroadcast \/ CloseJoin)
    /\ \A c \in Clients : WF_vars(Finish(c))

FairSpec == Spec /\ Fairness

-----------------------------------------------------------------------------
(* Properties.                                                             *)

TypeOK ==
    /\ now \in Times
    /\ m \in [Keys -> Entry \cup {None}]
    /\ mKeys \in Int
    /\ mBytes \in Nat
    /\ expq \in [Items -> Nat]
    /\ cond \in BOOLEAN
    /\ expirer \in Expirer
    /\ closed \in BOOLEAN
    /\ closer \in {"open", "closing", "joining", "closed"}
    /\ cli \in [Clients -> Local]
    /\ ops \in Nat
    /\ leaked \in [keys : Nat, bytes : Nat]

\* No deadline is forgotten: an entry that will expire has an item with its
\* very deadline in the queue, or in the hands of the expirer, whose clock
\* reading then makes the entry due.  Set, Expire and the expirer touch map
\* and queue under different locks, in different orders.
Tracked(k) ==
    m[k] # None /\ m[k].expireAt # 0 =>
        \/ <<k, m[k].expireAt>> \in Queued
        \/ expirer.pc \in {"popped", "check"}
           /\ expirer.key = k /\ expirer.when = m[k].expireAt

HeldItemIsDue ==
    /\ expirer.pc \in {"popped", "check"} => expirer.key \in Keys /\ expirer.when <= now
    /\ expirer.pc = "check" => expirer.when <= expirer.nowN

TTLTracked == HeldItemIsDue /\ \A k \in Keys : Tracked(k)

\* Entries a client has removed and not yet taken off the counters.
Accounting == {c \in Clients : cli[c].pc = "account"}

\* The key counter is the keys in the maps, plus removals not accounted yet,
\* plus what Update has leaked: no interleaving of evictions, deletes and
\* overwrites counts a key twice or never (mKeys is unsigned: below zero it
\* would wrap).
KeysAccounted ==
    mKeys = Cardinality(Live) + Cardinality(Accounting) + leaked.keys

\* How many bytes the values of the lengths len hold together: a byte is the
\* owner of its value and an offset.
Bytes(len) == UNION {{x} \X (1 .. len[x]) : x \in DOMAIN len}

Volume(len) == Cardinality(Bytes(len))

\* Bytes held by the maps, and by removals not accounted yet.
LiveBytes == Volume([k \in Live |-> m[k].len])

AccountingBytes == Volume([c \in Accounting |-> cli[c].len])

\* The byte counter covers exactly what is stored, what is being accounted and
\* what Update leaked; in particular addBytesDelta never has to saturate.
BytesAccounted == mBytes = LiveBytes + AccountingBytes + leaked.bytes

\* Options.MaxBytes is a hard limit on the stored bytes themselves, although
\* it is enforced on a counter that lags behind the maps.
HardLimit == MaxBytes # 0 => LiveBytes <= MaxBytes

\* Nothing but a client's Delete, GetDel or TTL takes away an entry that is
\* not due: neither the expirer with its old clock reading and old item, nor
\* Get, Update or Expire, whose first look at entry or clock is stale when
\* they delete.
RemovesNow(k) == m[k] # None /\ m'[k] = None

OnlyDueEvicted ==
    [][\A k \in Keys :
          RemovesNow(k) /\ ~Due(k, now) =>
              \E c \in Clients : cli'[c].pc = "account" /\ cli[c].pc \in {"idle", "ttl"}]_vars

\* The background removal doc.go promises: as long as the store is open, an
\* entry past its deadline does not stay, whatever is enqueued while the
\* expirer sleeps, waits or evicts.
Overdue(k) == Due(k, now)

OverdueRemoved == \A k \in Keys : Overdue(k) ~> ~Overdue(k) \/ closed

\* Close returns: the expirer is never left waiting for a signal that has
\* already been given.
CloseReturns == closer # "open" ~> closer = "closed"
=============================================================================
