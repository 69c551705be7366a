------------------------------ MODULE MLQueue ------------------------------
(***************************************************************************)
(* The prioritised egress queue (pkg/core/priocq/queue.go): strict         *)
(* priority between three classes, deficit round robin (DRR) between the   *)
(* destinations of a class, and a condition variable for idle workers.     *)
(*                                                                         *)
(* Each class has a lock of its own; q.mu only guards the condition        *)
(* variable.  So a producer's append and its Broadcast are two steps, a    *)
(* worker looks at the classes one at a time, and between finding all of   *)
(* them unusable and waiting on the condition variable it holds no lock.   *)
(* Each time round its loop Dequeue starts a helper goroutine, which looks *)
(* once at the stop channel; helpers of earlier rounds may still be about. *)
(*                                                                         *)
(* An item is what Enqueue is given: its class, destination and size.      *)
(***************************************************************************)
EXTENDS Integers, Sequences, FiniteSets, FiniteSetsExt, SequencesExt

CONSTANTS
    Producers,  \* goroutines that call Enqueue
    Workers,    \* goroutines that call Dequeue in a loop
    Dests,      \* destinations: the flows of a class
    Items,      \* what the producers enqueue, each once
    ClassOf,    \* item -> class
    DestOf,     \* item -> destination
    SizeOf,     \* item -> Size, in bytes
    MaxStale,   \* bound: helpers of earlier rounds that are about at once
    NoOne,      \* q.mu is free
    NoItem      \* no item in a local variable

Classes == 0..2     \* L0Control, L1Realtime, L2Bulk

ASSUME ItemsAssumption ==
    /\ ClassOf \in [Items -> Classes]
    /\ DestOf \in [Items -> Dests]
    /\ SizeOf \in [Items -> Nat]
    /\ NoItem \notin Items
ASSUME NamesAssumption == NoOne \notin Workers /\ MaxStale \in Nat

VARIABLES
    queue,      \* class -> destination -> flow.q
    deficit,    \* class -> destination -> flow.deficit
    order,      \* class -> level.order, the destinations that have a flow
    idx,        \* class -> level.idx, where the round robin goes on
    mu,         \* who holds q.mu across steps
    prod,       \* producer -> "idle", or "signal" between append and Broadcast
    wkr,        \* worker -> its program counter and locals
    stale,      \* helpers of earlier rounds that have not run yet
    stopped,    \* the stop channel is closed
    sent,       \* history: class -> destination -> items in the order appended
    out,        \* history: class -> destination -> items in the order popped
    passed      \* history: class -> destination -> how many times other flows
                \* were served since its head became affordable

levels  == <<queue, deficit, order, idx, out, passed>>
qvars   == <<levels, mu, prod, wkr, stale, stopped, sent>>

-----------------------------------------------------------------------------
(* State.                                                                  *)

\* Where a worker is in Dequeue: looking at class li; done looking; holding
\* q.mu with its helper started; in cond.Wait; signalled; returned with an
\* item; returned without one.
Worker == [pc     : {"try", "lock", "holding", "wait", "woken", "got", "gone"},
           li     : Classes,
           item   : Items \cup {NoItem},
           done   : BOOLEAN,
           helper : {"none", "pending", "signal"}]

Dequeuing == [pc |-> "try", li |-> 0, item |-> NoItem, done |-> FALSE, helper |-> "none"]

PerFlow(x) == [c \in Classes |-> [d \in Dests |-> x]]

\* New, and the workers that call Dequeue.
QInit ==
    /\ queue = PerFlow(<<>>)
    /\ deficit = PerFlow(0)
    /\ order = [c \in Classes |-> <<>>]
    /\ idx = [c \in Classes |-> 0]
    /\ mu = NoOne
    /\ prod = [p \in Producers |-> "idle"]
    /\ wkr = [w \in Workers |-> Dequeuing]
    /\ stale = 0
    /\ stopped = FALSE
    /\ sent = PerFlow(<<>>)
    /\ out = PerFlow(<<>>)
    /\ passed = PerFlow(0)

\* chooseQuantum
Quantum(c) ==
    CASE c = 0 -> 2048
      [] c = 1 -> 8192
      [] c = 2 -> 65536

\* Everybody in cond.Wait is made runnable.
Woken(workers) ==
    [w \in Workers |-> IF workers[w].pc = "wait"
                          THEN [workers[w] EXCEPT !.pc = "woken"]
                          ELSE workers[w]]

-----------------------------------------------------------------------------
(* Deficit round robin within a class.                                     *)

\* A quantum on every visit, whatever is left.
RefilledAlways(c, d) == deficit[c][d] + Quantum(c)

\* A flow gets a quantum when tryPop reaches it with no deficit left.
Refilled(c, d) == IF deficit[c][d] <= 0 THEN deficit[c][d] + Quantum(c) ELSE deficit[c][d]

Affordable(c, d) == queue[c][d] # <<>> /\ SizeOf[Head(queue[c][d])] <= Refilled(c, d)

\* The flow tryPop looks at in its i-th turn, counting from 0 at idx.
Turn(c, i) == order[c][((idx[c] + i) % Len(order[c])) + 1]

Turns(c) == 0..(Len(order[c]) - 1)

Servable(c) == {i \in Turns(c) : Affordable(c, Turn(c, i))}

\* Flows with something queued that tryPop reaches in its first i turns; they
\* are refilled on the way.
Reached(c, i) == {d \in Dests : queue[c][d] # <<>> /\ \E j \in Turns(c) : j < i /\ Turn(c, j) = d}

RefilledUpTo(c, i) ==
    [d \in Dests |-> IF d \in Reached(c, i) THEN Refilled(c, d) ELSE deficit[c][d]]

\* What is left of a flow's deficit once its head is popped; the branch at the
\* end resets a large deficit of a flow that has become empty.
DeficitAfter(c, d) ==
    LET left == Refilled(c, d) - SizeOf[Head(queue[c][d])]
    IN  IF Tail(queue[c][d]) = <<>> /\ left >= 4 * Quantum(c) THEN 0 ELSE left

\* Every affordable flow but the served one has been passed over once more.
PassedBy(c, d) ==
    [e \in Dests |-> IF e # d /\ Affordable(c, e) THEN passed[c][e] + 1 ELSE 0]

\* The class is left with idx at the flow just served.
NextTurnStays(c, i) == (idx[c] + i) % Len(order[c])

\* lvl.idx = (j + 1) % n
NextTurn(c, i) == (idx[c] + i + 1) % Len(order[c])

-----------------------------------------------------------------------------
(* Enqueue.                                                                *)

\* A new entry in the order for every item.
AppendItemReordered(it) ==
    LET c == ClassOf[it]
        d == DestOf[it]
    IN  /\ order' = [order EXCEPT ![c] = Append(@, d)]
        /\ queue' = [queue EXCEPT ![c][d] = Append(@, it)]
        /\ sent' = [sent EXCEPT ![c][d] = Append(@, it)]
        /\ UNCHANGED <<deficit, idx, out, passed>>

\* The item at the front of its flow.
AppendItemInFront(it) ==
    LET c == ClassOf[it]
        d == DestOf[it]
    IN  /\ order' = IF d \in ToSet(order[c]) THEN order
                                             ELSE [order EXCEPT ![c] = Append(@, d)]
        /\ queue' = [queue EXCEPT ![c][d] = <<it>> \o @]
        /\ sent' = [sent EXCEPT ![c][d] = Append(@, it)]
        /\ UNCHANGED <<deficit, idx, out, passed>>

\* Under the class's lock: a flow for a new destination, and the append.
AppendItem(it) ==
    LET c == ClassOf[it]
        d == DestOf[it]
    IN  /\ order' = IF d \in ToSet(order[c]) THEN order
                                             ELSE [order EXCEPT ![c] = Append(@, d)]
        /\ queue' = [queue EXCEPT ![c][d] = Append(@, it)]
        /\ sent' = [sent EXCEPT ![c][d] = Append(@, it)]
        /\ UNCHANGED <<deficit, idx, out, passed>>

\* An item is enqueued once by the producers.
Unsent == {it \in Items : it \notin ToSet(sent[ClassOf[it]][DestOf[it]])}

EnqueueAppend(p) ==
    /\ prod[p] = "idle"
    /\ \E it \in Unsent : AppendItem(it)
    /\ prod' = [prod EXCEPT ![p] = "signal"]
    /\ UNCHANGED <<mu, wkr, stale, stopped>>

\* Under q.mu: the Broadcast.
EnqueueBroadcast(p) ==
    /\ prod[p] = "signal"
    /\ mu = NoOne
    /\ wkr' = Woken(wkr)
    /\ prod' = [prod EXCEPT ![p] = "idle"]
    /\ UNCHANGED <<levels, mu, stale, stopped, sent>>

-----------------------------------------------------------------------------
(* Dequeue.                                                                *)

\* The first turn in which tryPop finds a flow it can serve.
First(c) == {i \in Servable(c) : \A j \in Servable(c) : i <= j}

\* tryPop under the lock of class li: the first affordable flow is served.
TryPopServes(w) ==
    LET c == wkr[w].li
    IN  /\ wkr[w].pc = "try"
        /\ \E i \in First(c) :
             LET d == Turn(c, i)
             IN  /\ queue' = [queue EXCEPT ![c][d] = Tail(@)]
                 /\ deficit' = [deficit EXCEPT ![c] =
                                  [RefilledUpTo(c, i) EXCEPT ![d] = DeficitAfter(c, d)]]
                 /\ idx' = [idx EXCEPT ![c] = NextTurn(c, i)]
                 /\ out' = [out EXCEPT ![c][d] = Append(@, Head(queue[c][d]))]
                 /\ passed' = [passed EXCEPT ![c] = PassedBy(c, d)]
                 /\ wkr' = [wkr EXCEPT ![w] = [Dequeuing EXCEPT !.pc = "got",
                                                                !.item = Head(queue[c][d])]]
        /\ UNCHANGED <<order, mu, prod, stale, stopped, sent>>

\* tryPop finds nothing affordable in class li and goes to the next class.
TryPopSkips(w) ==
    LET c == wkr[w].li
    IN  /\ wkr[w].pc = "try"
        /\ Servable(c) = {}
        /\ deficit' = [deficit EXCEPT ![c] = RefilledUpTo(c, Len(order[c]))]
        /\ wkr' = [wkr EXCEPT ![w] = IF c < 2 THEN [@ EXCEPT !.li = c + 1]
                                              ELSE [Dequeuing EXCEPT !.pc = "lock"]]
        /\ UNCHANGED <<queue, order, idx, out, passed, mu, prod, stale, stopped, sent>>

\* q.mu.Lock and the helper of this round.
DequeueLocks(w) ==
    /\ wkr[w].pc = "lock"
    /\ mu = NoOne
    /\ mu' = w
    /\ wkr' = [wkr EXCEPT ![w].pc = "holding", ![w].helper = "pending"]
    /\ UNCHANGED <<levels, prod, stale, stopped, sent>>

\* cond.Wait joins the waiters and releases q.mu.
DequeueWaits(w) ==
    /\ wkr[w].pc = "holding"
    /\ mu' = NoOne
    /\ wkr' = [wkr EXCEPT ![w].pc = "wait"]
    /\ UNCHANGED <<levels, prod, stale, stopped, sent>>

\* The next round, or false, when cond.Wait has q.mu again; a helper that has
\* not finished outlives the round (bound: MaxStale of them).
DequeueWakes(w) ==
    /\ wkr[w].pc = "woken"
    /\ mu = NoOne
    /\ wkr' = [wkr EXCEPT ![w] = [Dequeuing EXCEPT !.pc = IF wkr[w].done THEN "gone" ELSE "try"]]
    /\ stale' = IF wkr[w].helper = "none" THEN stale ELSE stale + 1
    /\ stale' <= MaxStale
    /\ UNCHANGED <<levels, mu, prod, stopped, sent>>

\* The helper's select: stop is closed and done is set, or it exits.
HelperSelects(w) ==
    /\ wkr[w].helper = "pending"
    /\ wkr' = [wkr EXCEPT ![w].done = stopped,
                          ![w].helper = IF stopped THEN "signal" ELSE "none"]
    /\ UNCHANGED <<levels, mu, prod, stale, stopped, sent>>

\* The helper's Broadcast, without q.mu.
HelperBroadcasts(w) ==
    /\ wkr[w].helper = "signal"
    /\ wkr' = Woken([wkr EXCEPT ![w].helper = "none"])
    /\ UNCHANGED <<levels, mu, prod, stale, stopped, sent>>

\* A helper of an earlier round runs: its done is read by nobody.
StaleHelper ==
    /\ stale > 0
    /\ stale' = stale - 1
    /\ wkr' = IF stopped THEN Woken(wkr) ELSE wkr
    /\ UNCHANGED <<levels, mu, prod, stopped, sent>>

\* The caller takes the item and calls Dequeue again.
CallerTakes(w) ==
    /\ wkr[w].pc = "got"
    /\ wkr' = [wkr EXCEPT ![w] = Dequeuing]
    /\ UNCHANGED <<levels, mu, prod, stale, stopped, sent>>

\* The owner closes the stop channel.
Stop ==
    /\ ~stopped
    /\ stopped' = TRUE
    /\ UNCHANGED <<levels, mu, prod, wkr, stale, sent>>

-----------------------------------------------------------------------------

DequeueStep(w) ==
    \/ TryPopServes(w) \/ TryPopSkips(w)
    \/ DequeueLocks(w) \/ DequeueWaits(w) \/ DequeueWakes(w)
    \/ HelperSelects(w) \/ HelperBroadcasts(w)

QNext ==
    \/ \E p \in Producers : EnqueueAppend(p) \/ EnqueueBroadcast(p)
    \/ \E w \in Workers : DequeueStep(w) \/ CallerTakes(w)
    \/ StaleHelper
    \/ Stop

QSpec == QInit /\ [][QNext]_qvars

-----------------------------------------------------------------------------
(* Properties.                                                             *)

QTypeOK ==
    /\ queue \in [Classes -> [Dests -> Seq(Items)]]
    /\ deficit \in [Classes -> [Dests -> Nat]]
    /\ order \in [Classes -> Seq(Dests)]
    /\ idx \in [Classes -> Nat]
    /\ mu \in Workers \cup {NoOne}
    /\ prod \in [Producers -> {"idle", "signal"}]
    /\ wkr \in [Workers -> Worker]
    /\ stale \in Nat
    /\ stopped \in BOOLEAN
    /\ sent \in [Classes -> [Dests -> Seq(Items)]]
    /\ out \in [Classes -> [Dests -> Seq(Items)]]
    /\ passed \in [Classes -> [Dests -> Nat]]

\* Nothing is lost, duplicated or reordered within a flow, with any number of
\* producers and workers: what was popped, then what is queued, is what was
\* appended, in that order.
FlowFIFO ==
    \A c \in Classes, d \in Dests : sent[c][d] = out[c][d] \o queue[c][d]

\* A flow's deficit stays within one quantum.  So nothing larger than the
\* quantum of its class is ever popped, and the branch of tryPop that resets a
\* deficit of four quanta is never taken.
DeficitBounded ==
    \A c \in Classes, d \in Dests : deficit[c][d] \in 0..Quantum(c)

\* A flow with something queued is in the round robin, exactly once, and the
\* round robin goes on at a flow that exists.
FlowsScheduled ==
    \A c \in Classes :
        /\ IsInjective(order[c])
        /\ idx[c] < Len(order[c]) \/ (order[c] = <<>> /\ idx[c] = 0)
        /\ \A d \in Dests : queue[c][d] # <<>> => d \in ToSet(order[c])

\* Round robin: while the head of a flow is affordable, each other flow is
\* served at most once before it, whichever workers do the serving and
\* whichever flows join the class meanwhile.
RoundRobin ==
    \A c \in Classes, d \in Dests :
        passed[c][d] > 0 => passed[c][d] < Len(order[c])

\* To its users the queue is a FIFO for each class and destination: every
\* Enqueue puts its item at the end of one, every Dequeue that returns an item
\* takes the head of one, and nothing else changes what is queued.
Flows == INSTANCE FlowQueue WITH flows <- queue

ImplementsFlows == Flows!FSpec

-----------------------------------------------------------------------------
(* What the repository says of the queue and the code does not do.         *)

\* A pass over a class that serves nothing leaves each flow whose head fits a
\* quantum able to pay for it in the next pass.
NextLoopRefills ==
    [][\A w \in Workers, d \in Dests :
          LET c == wkr[w].li
          IN  /\ TryPopSkips(w)
              /\ queue[c][d] # <<>>
              /\ SizeOf[Head(queue[c][d])] <= Quantum(c)
              => Affordable(c, d)']_qvars

=============================================================================
