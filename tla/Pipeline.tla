------------------------------ MODULE Pipeline ------------------------------
(***************************************************************************)
(* Forwarding of envelopes: the message loop of a session's handler        *)
(* (pkg/core/peering/session.go), the status acknowledgements it answers   *)
(* with (utils.go), and the two forwarders behind it: the node's pipeline  *)
(* (pkg/pipeline/pipeline.go), with two workers and a token bucket for     *)
(* each destination (pkg/core/priocq/shaper.go), and the forwarder a       *)
(* session has of its own when there is no pipeline (forward.go).          *)
(*                                                                         *)
(* The queue of a forwarder is taken as what MLQueue is shown to implement *)
(* (FlowQueue): a FIFO for each class and destination, any of which may be *)
(* next.  Sending, which goes through router, manager and transport, may   *)
(* succeed or fail.  Time is counted in ticks, Second of them a second.    *)
(***************************************************************************)
EXTENDS Integers, Sequences, FiniteSets, SequencesExt

CONSTANTS
    Sessions,
    PeerOf,     \* session -> the peer at its other end
    Forwarders,
    Pipes,      \* the forwarders that are pipelines
    FwdOf,      \* session -> the forwarder its handler uses
    Workers,
    WorkerOf,   \* worker -> the forwarder it works for
    Dests,      \* other nodes
    Msgs,       \* what arrives, each once
    From,       \* message -> session it arrives on
    Msg,        \* message -> what it is
    Rate, Capacity, Second,  \* of a token bucket: per second, at most
    MaxInt64,   \* largest int64: 2^63 - 1
    MaxFails,   \* bound: sends that fail
    MaxTime,    \* bound on the clock
    NoDest,     \* no destination, or this node
    NoMsg, NoBucket

ASSUME TopologyAssumption ==
    /\ PeerOf \in [Sessions -> Dests]
    /\ FwdOf \in [Sessions -> Forwarders]
    /\ WorkerOf \in [Workers -> Forwarders]
    /\ Pipes \subseteq Forwarders
    /\ From \in [Msgs -> Sessions]
    /\ NoMsg \notin Msgs \X {"fwd", "ack"} /\ NoMsg \notin Msgs
    /\ NoDest \notin Dests
    /\ NoBucket \notin Nat
ASSUME BucketAssumption ==
    /\ Rate \in Nat \ {0} /\ Second \in Nat \ {0}
    /\ MaxInt64 \in Nat /\ Capacity \in Nat /\ MaxFails \in Nat /\ MaxTime \in Nat

VARIABLES
    got,        \* messages received
    hdl,        \* session -> its handler
    flows,      \* forwarder -> class -> destination -> items queued
    wkr,        \* worker -> its program counter and locals
    shaper,     \* Pipeline.shaper: forwarder -> destination -> bucket
    buckets,    \* the buckets made so far
    now,        \* the clock
    fails,      \* sends that failed so far
    closed,     \* forwarders whose stop channel is closed
    sent        \* history: how many times an item was handed to a session

pvars == <<got, hdl, flows, wkr, shaper, buckets, now, fails, closed, sent>>

-----------------------------------------------------------------------------
(* Messages and items.                                                     *)

Classes == 0..2     \* L0Control, L1Realtime, L2Bulk

Bodies == {"control", "raw", "chunk", "result", "tinyResult", "invoke", "none"}

\* proto: it can be decoded as an envelope with a header.  large: a payload of more than
\* 64 KB.  status: it is an acknowledgement itself.
Message == [proto : BOOLEAN, dest : Dests \cup {NoDest}, body : Bodies, large : BOOLEAN,
            type : {"control", "task", "other"}, status : BOOLEAN, size : Nat]

ASSUME MessageAssumption == Msg \in [Msgs -> Message]

\* What a handler enqueues for message m: the message, or an acknowledgement.
Items == Msgs \X {"fwd", "ack"}

\* An acknowledgement has a header only and goes back to the previous hop.
StatusAck(m) == [proto |-> TRUE, dest |-> PeerOf[From[m]], body |-> "none", large |-> FALSE,
                 type |-> "control", status |-> TRUE, size |-> 1]

Envelope(it) == IF it[2] = "ack" THEN StatusAck(it[1]) ELSE Msg[it[1]]

Fwd(it) == FwdOf[From[it[1]]]

\* classify: by the body, else by the type in the header.
classify(e) ==
    CASE e.body = "control"                               -> 0
      [] e.body \in {"raw", "chunk"}                      -> 2
      [] e.body \in {"result", "tinyResult", "invoke"}    -> IF e.large THEN 2 ELSE 1
      [] e.body = "none"                                  -> IF e.type = "control" THEN 0 ELSE 1

\* classifyLocal looks at the body only.
classifyLocal(e) ==
    CASE e.body = "control"           -> 0
      [] e.body \in {"raw", "chunk"}  -> 2
      [] OTHER                        -> 1

ClassOf(it) == IF Fwd(it) \in Pipes THEN classify(Envelope(it)) ELSE classifyLocal(Envelope(it))

\* The flow of an item is added to at its end.
Enqueue(it) == flows' = [flows EXCEPT ![Fwd(it)][ClassOf(it)][Envelope(it).dest] = Append(@, it)]

-----------------------------------------------------------------------------
(* State.                                                                  *)

Handler == [pc : {"recv", "ack", "ended"}, msg : Msgs \cup {NoMsg}]

\* Where a worker is: in Dequeue; at the map of shapers; about to store a new
\* one; at its bucket; asleep; sending; about to enqueue again; returned; or
\* ended with the process.
Worker == [pc    : {"dequeue", "load", "store", "allow", "sleep", "send", "retry", "gone", "dead"},
           item  : Items \cup {NoMsg},
           tb    : Nat \cup {NoBucket},
           until : Int]

Dequeuing == [pc |-> "dequeue", item |-> NoMsg, tb |-> NoBucket, until |-> 0]

\* made and spent are history: when it was made, what it allowed so far.
Bucket == [tokens : Int, last : Nat, made : Nat, spent : Nat]

PInit ==
    /\ got = {}
    /\ hdl = [s \in Sessions |-> [pc |-> "recv", msg |-> NoMsg]]
    /\ flows = [f \in Forwarders |-> [c \in Classes |-> [d \in Dests |-> <<>>]]]
    /\ wkr = [w \in Workers |-> Dequeuing]
    /\ shaper = [f \in Pipes |-> [d \in Dests |-> NoBucket]]
    /\ buckets = <<>>
    /\ now = 0
    /\ fails = 0
    /\ closed = {}
    /\ sent = [it \in Items |-> 0]

-----------------------------------------------------------------------------
(* The message loop of a handler.                                          *)

\* Whatever became of an envelope, it is answered unless it is itself such an
\* answer.
Answers(m) == Msg[m].proto /\ ~Msg[m].status

\* The next message.  It is enqueued for another node, or is for this one:
\* what a control request does is in Registry.
Receive(s) ==
    /\ hdl[s].pc = "recv"
    /\ \E m \in Msgs \ got :
          /\ From[m] = s
          /\ got' = got \cup {m}
          /\ IF Msg[m].proto /\ Msg[m].dest # NoDest THEN Enqueue(<<m, "fwd">>)
                                                     ELSE UNCHANGED flows
          /\ hdl' = [hdl EXCEPT ![s] = IF Answers(m) THEN [pc |-> "ack", msg |-> m] ELSE @]
    /\ UNCHANGED <<wkr, shaper, buckets, now, fails, closed, sent>>

\* enqueueDirectStatusAck
SendAck(s) ==
    /\ hdl[s].pc = "ack"
    /\ Enqueue(<<hdl[s].msg, "ack">>)
    /\ hdl' = [hdl EXCEPT ![s] = [pc |-> "recv", msg |-> NoMsg]]
    /\ UNCHANGED <<got, wkr, shaper, buckets, now, fails, closed, sent>>

\* The session is lost.  A forwarder of its own is closed, a pipeline is not.
HandlerEnds(s) ==
    /\ hdl[s].pc = "recv"
    /\ hdl' = [hdl EXCEPT ![s].pc = "ended"]
    /\ closed' = closed \cup ({FwdOf[s]} \ Pipes)
    /\ UNCHANGED <<got, flows, wkr, shaper, buckets, now, fails, sent>>

\* Pipeline.Close
ClosePipe(f) ==
    /\ f \in Pipes \ closed
    /\ closed' = closed \cup {f}
    /\ UNCHANGED <<got, hdl, flows, wkr, shaper, buckets, now, fails, sent>>

-----------------------------------------------------------------------------
(* The token bucket.                                                       *)

\* Arithmetic in int64.
Wrap(x) == ((x + MaxInt64 + 1) % (2 * (MaxInt64 + 1))) - (MaxInt64 + 1)

capacity == IF Capacity <= 0 THEN Rate ELSE Capacity

NewTokenBucket ==
    [tokens |-> capacity, last |-> now, made |-> now, spent |-> 0]

\* The time of the refill is not noted.
RefillForgetful(b) ==
    LET add == Wrap(Rate * (now - b.last)) \div Second
    IN  IF add > 0 THEN [b EXCEPT !.tokens = IF @ + add > capacity THEN capacity ELSE @ + add]
                   ELSE b

\* What has come in since the last refill, if it is at least one token.
Refill(b) ==
    LET add == Wrap(Rate * (now - b.last)) \div Second
    IN  IF add > 0 THEN [b EXCEPT !.tokens = IF @ + add > capacity THEN capacity ELSE @ + add,
                                  !.last = now]
                   ELSE b

-----------------------------------------------------------------------------
(* Workers.                                                                *)

\* Dequeue returns an item.
TakeItem(w) ==
    /\ wkr[w].pc = "dequeue"
    /\ \E c \in Classes, d \in Dests :
          LET f == WorkerOf[w]
          IN  /\ flows[f][c][d] # <<>>
              /\ flows' = [flows EXCEPT ![f][c][d] = Tail(@)]
              /\ wkr' = [wkr EXCEPT ![w].item = Head(flows[f][c][d]),
                                    ![w].pc = IF f \in Pipes THEN "load" ELSE "send"]
    /\ UNCHANGED <<got, hdl, shaper, buckets, now, fails, closed, sent>>

\* Dequeue returns without one, once the forwarder is closed.
Leave(w) ==
    /\ wkr[w].pc = "dequeue" /\ WorkerOf[w] \in closed
    /\ wkr' = [wkr EXCEPT ![w].pc = "gone"]
    /\ UNCHANGED <<got, hdl, flows, shaper, buckets, now, fails, closed, sent>>

ItemDest(w) == Envelope(wkr[w].item).dest

\* The map of shapers is read ...
LoadShaper(w) ==
    /\ wkr[w].pc = "load"
    /\ LET tb == shaper[WorkerOf[w]][ItemDest(w)]
       IN  wkr' = [wkr EXCEPT ![w].pc = IF tb = NoBucket THEN "store" ELSE "allow", ![w].tb = tb]
    /\ UNCHANGED <<got, hdl, flows, shaper, buckets, now, fails, closed, sent>>

\* ... and written without a lock: of two new buckets for a destination the
\* later one stays ...
StoreShaper(w) ==
    /\ wkr[w].pc = "store"
    /\ buckets' = Append(buckets, NewTokenBucket)
    /\ shaper' = [shaper EXCEPT ![WorkerOf[w]][ItemDest(w)] = Len(buckets')]
    /\ wkr' = [wkr EXCEPT ![w].pc = "allow", ![w].tb = Len(buckets')]
    /\ UNCHANGED <<got, hdl, flows, now, fails, closed, sent>>

\* ... or the runtime notices that the map is used by two and ends the process.
MapFault ==
    /\ \E v, w \in Workers : /\ v # w /\ WorkerOf[v] = WorkerOf[w]
                             /\ wkr[v].pc = "store" /\ wkr[w].pc \in {"load", "store"}
    /\ wkr' = [w \in Workers |-> [Dequeuing EXCEPT !.pc = "dead", !.item = wkr[w].item]]
    /\ hdl' = [s \in Sessions |-> [hdl[s] EXCEPT !.pc = "ended"]]
    /\ closed' = Forwarders
    /\ UNCHANGED <<got, flows, shaper, buckets, now, fails, sent>>

\* Allow: what is there is taken, or the time until it would be there answered.
\* Either way the worker sends, at once or after a sleep.  (The product in the
\* answer would overflow for messages of gigabytes only.)
Allow(w) ==
    LET b == Refill(buckets[wkr[w].tb])
        n == Envelope(wkr[w].item).size
    IN  /\ wkr[w].pc = "allow"
        /\ IF b.tokens >= n
             THEN /\ buckets' = [buckets EXCEPT ![wkr[w].tb] =
                                   [b EXCEPT !.tokens = @ - n, !.spent = @ + n]]
                  /\ wkr' = [wkr EXCEPT ![w].pc = "send"]
             ELSE /\ buckets' = [buckets EXCEPT ![wkr[w].tb] = b]
                  /\ wkr' = [wkr EXCEPT ![w].pc = "sleep",
                                        ![w].until = now + ((n - b.tokens) * Second) \div Rate]
        /\ UNCHANGED <<got, hdl, flows, shaper, now, fails, closed, sent>>

\* time.Sleep returns.
WakeUp(w) ==
    /\ wkr[w].pc = "sleep" /\ now >= wkr[w].until
    /\ wkr' = [wkr EXCEPT ![w].pc = "send"]
    /\ UNCHANGED <<got, hdl, flows, shaper, buckets, now, fails, closed, sent>>

\* SendBytesToPeer returns no error; the traffic counters of the peer's record
\* are not modelled.
SendOk(w) ==
    /\ wkr[w].pc = "send"
    /\ sent' = [sent EXCEPT ![wkr[w].item] = @ + 1]
    /\ wkr' = [wkr EXCEPT ![w] = Dequeuing]
    /\ UNCHANGED <<got, hdl, flows, shaper, buckets, now, fails, closed>>

\* It returns one: no route, no session, no stream, or the stream failed.
SendFails(w) ==
    /\ wkr[w].pc = "send"
    /\ fails < MaxFails
    /\ fails' = fails + 1
    /\ wkr' = [wkr EXCEPT ![w].pc = "retry"]
    /\ UNCHANGED <<got, hdl, flows, shaper, buckets, now, closed, sent>>

\* The item is given up.
RetryDrops(w) ==
    /\ wkr[w].pc = "retry"
    /\ wkr' = [wkr EXCEPT ![w] = Dequeuing]
    /\ UNCHANGED <<got, hdl, flows, shaper, buckets, now, fails, closed, sent>>

\* After a pause the item is enqueued again, at the end of its flow.
Retry(w) ==
    /\ wkr[w].pc = "retry"
    /\ Enqueue(wkr[w].item)
    /\ wkr' = [wkr EXCEPT ![w] = Dequeuing]
    /\ UNCHANGED <<got, hdl, shaper, buckets, now, fails, closed, sent>>

Tick ==
    /\ now < MaxTime
    /\ now' = now + 1
    /\ UNCHANGED <<got, hdl, flows, wkr, shaper, buckets, fails, closed, sent>>

-----------------------------------------------------------------------------

PNext ==
    \/ \E s \in Sessions : Receive(s) \/ SendAck(s) \/ HandlerEnds(s)
    \/ \E f \in Forwarders : ClosePipe(f)
    \/ \E w \in Workers :
          \/ TakeItem(w) \/ Leave(w) \/ LoadShaper(w) \/ StoreShaper(w) \/ Allow(w)
          \/ WakeUp(w) \/ SendOk(w) \/ SendFails(w) \/ Retry(w)
    \/ MapFault
    \/ Tick

PSpec == PInit /\ [][PNext]_pvars

-----------------------------------------------------------------------------
(* Properties.                                                             *)

PTypeOK ==
    /\ got \in SUBSET Msgs
    /\ hdl \in [Sessions -> Handler]
    /\ flows \in [Forwarders -> [Classes -> [Dests -> Seq(Items)]]]
    /\ wkr \in [Workers -> Worker]
    /\ shaper \in [Pipes -> [Dests -> 1..Len(buckets) \cup {NoBucket}]]
    /\ buckets \in Seq(Bucket)
    /\ now \in Nat
    /\ fails \in Nat
    /\ closed \in SUBSET Forwarders
    /\ sent \in [Items -> Nat]

\* What a handler has accepted so far: the envelopes for other nodes, and the
\* answers it has got to.
Accepted(it) ==
    /\ it[1] \in got /\ Msg[it[1]].proto
    /\ \/ it[2] = "fwd" /\ Msg[it[1]].dest # NoDest
       \/ it[2] = "ack" /\ ~Msg[it[1]].status /\ \A s \in Sessions : hdl[s].msg # it[1]

\* Where an item is: its places in the queues, in the workers' hands and among
\* what was sent.
Queued(it) ==
    UNION {{<<f, c, d, i>> : i \in {j \in DOMAIN flows[f][c][d] : flows[f][c][d][j] = it}} :
              f \in Forwarders, c \in Classes, d \in Dests}

Held(it) == {w \in Workers : wkr[w].item = it}

\* Nothing is lost and nothing is sent twice, however often sends fail, workers
\* sleep, sessions end and forwarders are closed: an item that was accepted is
\* in one place, and nothing else is anywhere.  In particular each envelope is
\* answered once, and no answer is answered.
Conserved ==
    \A it \in Items :
        Cardinality(Queued(it)) + Cardinality(Held(it)) + sent[it]
            = IF Accepted(it) THEN 1 ELSE 0

\* What a bucket allows conforms to its rate: since it was made no more than
\* the capacity and what has come in meanwhile, although refills are rounded,
\* happen only on use, and the product of rate and time may overflow.
Conforms ==
    \A i \in DOMAIN buckets :
        buckets[i].spent * Second <= capacity * Second + Rate * (now - buckets[i].made)
=============================================================================
