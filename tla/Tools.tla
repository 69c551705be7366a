-------------------------------- MODULE Tools --------------------------------
(***************************************************************************)
(* The command line tools (cmd/ttmesh-worker, ttmesh-client, ttmesh-ctl)   *)
(* and the session handler of a node (pkg/core/peering) as they talk to    *)
(* each other: the Hello and its check (pkg/handshake), requests, replies, *)
(* messages that are forwarded and the status acks that every hop sends.   *)
(*                                                                         *)
(* A tool "t" has a session with node "a", which has one with a second     *)
(* node "b".  A session is a stream, in order and with an end that both    *)
(* sides see, or carries datagrams, which may be lost, repeated and        *)
(* reordered and whose reader never learns that the session was closed.    *)
(* A QUIC session is a stream whose Close has no effect: its connection    *)
(* has none of the four Close methods that are tried.                      *)
(* Messages are known by kind, destination and whether they carry a        *)
(* DirectStatus.  How the forwarder's queue orders them is in MLQueue; here*)
(* it may send any of them next.                                           *)
(***************************************************************************)
EXTENDS Integers, Sequences, SequencesExt, Bags

CONSTANTS
    ToolKinds,  \* tools to look at
    Nets,       \* sessions to look at
    Skews,      \* how far the tool's clock may be from the node's
    MaxSkew,    \* largest difference VerifyHello accepts: 5 minutes
    MaxReads,   \* messages waitIdentity reads at most: 5
    MaxFaults   \* bound: datagrams lost or repeated

ASSUME ToolsAssumption ==
    /\ ToolKinds \subseteq {"worker", "client", "ctl"}
    /\ Nets \subseteq {"stream", "quic", "datagram"}
    /\ Skews \subseteq Int
    /\ {MaxSkew, MaxReads, MaxFaults} \subseteq Nat

VARIABLES
    tool,       \* which tool runs
    net,        \* what its session is
    skew,       \* the difference of the clocks
    own,        \* does the node have a record of itself, and with it routes
    pc,         \* where the tool is
    ctxDone,    \* has the tool's context timed out
    link,       \* is the tool's session open
    readers,    \* calls of RecvBytes of the tool that have not returned
    result,     \* what they returned
    reads,      \* messages read since the last request of ctl
    got,        \* replies the tool has read from a stream (history)
    handler,    \* where the node's handler of the tool's session is
    bound,      \* the id by which the node knows the session
    chan,       \* link -> messages in transit
    fwd,        \* node -> messages in its forwarder
    sends,      \* messages b may still send to the tool
    faults      \* faults the network may still commit

choices == <<tool, net, skew, own>>
toolVars == <<pc, ctxDone, readers, result, reads, got>>
nodeVars == <<handler, bound, fwd, sends>>
tovars == <<choices, toolVars, link, nodeVars, chan, faults>>

Links == {<<"t", "a">>, <<"a", "t">>, <<"a", "b">>, <<"b", "a">>}

Rank == [Hello |-> 1, HelloAck |-> 2, GetIdentity |-> 3, IdentityReply |-> 4, GetRoutes |-> 5,
         RoutesReply |-> 6, TaskRegister |-> 7, TaskRegisterAck |-> 8, TaskListWorkers |-> 9,
         TaskListWorkersReply |-> 10, raw |-> 11, none |-> 12]

Msg(k, d, s) == [kind |-> k, dest |-> d, status |-> s]

\* Control messages between a tool and its node, which name no destination.
Control(k) == Msg(k, "", FALSE)

PeerHello            == Control("Hello")
PeerHelloAck         == Control("HelloAck")
GetIdentity          == Control("GetIdentity")
IdentityReply        == Control("IdentityReply")
GetRoutes            == Control("GetRoutes")
RoutesReply          == Control("RoutesReply")
TaskRegister         == Control("TaskRegister")
TaskRegisterAck      == Control("TaskRegisterAck")
TaskListWorkers      == Control("TaskListWorkers")
TaskListWorkersReply == Control("TaskListWorkersReply")

\* The client's text, and the ack of a hop: a header without a body.
TestMessage(d) == Msg("raw", d, FALSE)
StatusAck(d)   == Msg("none", d, TRUE)

IsControl(m) == m.kind \notin {"raw", "none"}

Stream == net # "datagram"

\* A node has a record of itself, without which there are no routes, only after
\* it had a session with itself.
ToInit ==
    /\ tool \in ToolKinds /\ net \in Nets /\ skew \in Skews /\ own \in BOOLEAN
    /\ pc = "hello"
    /\ ctxDone = FALSE
    /\ link = "open"
    /\ readers = {}
    /\ result = [r \in {1, 2} |-> "none"]
    /\ reads = 0
    /\ got = <<>>
    /\ handler = "first"
    /\ bound = "temp"
    /\ chan = [l \in Links |-> <<>>]
    /\ fwd = [n \in {"a", "b"} |-> EmptyBag]
    /\ sends = 1
    /\ faults = MaxFaults

-----------------------------------------------------------------------------
(* The network.                                                            *)

\* Messages are put into a channel.  Datagrams have no order: theirs is fixed, so
\* that no two states differ in it.
Before(m1, m2) == Rank[m1.kind] < Rank[m2.kind]

With(l, ms) == IF net = "datagram" THEN SortSeq(chan[l] \o ms, Before) ELSE chan[l] \o ms

\* Places in a channel from which the next message may be taken.
Takable(l) == IF net = "datagram" THEN DOMAIN chan[l] ELSE DOMAIN chan[l] \cap {1}

Lose(l) ==
    /\ net = "datagram" /\ faults > 0
    /\ \E i \in Takable(l) : chan' = [chan EXCEPT ![l] = RemoveAt(@, i)]
    /\ faults' = faults - 1
    /\ UNCHANGED <<choices, toolVars, link, nodeVars>>

Repeat(l) ==
    /\ net = "datagram" /\ faults > 0
    /\ \E i \in Takable(l) : chan' = [chan EXCEPT ![l] = With(l, <<@[i]>>)]
    /\ faults' = faults - 1
    /\ UNCHANGED <<choices, toolVars, link, nodeVars>>

\* The connection breaks, or the node drops it.
Break ==
    /\ Stream /\ link = "open"
    /\ link' = "closed"
    /\ chan' = [chan EXCEPT ![<<"t", "a">>] = <<>>, ![<<"a", "t">>] = <<>>]
    /\ UNCHANGED <<choices, toolVars, nodeVars, faults>>

\* The tool's context: its timeout, and the goroutine of Dial that then closes.
Timeout ==
    /\ ~ctxDone
    /\ ctxDone' = TRUE
    /\ UNCHANGED <<choices, pc, readers, result, reads, got, link, nodeVars, chan, faults>>

CtxCloses ==
    /\ ctxDone /\ link = "open" /\ net # "quic"
    /\ link' = "closed"
    /\ UNCHANGED <<choices, toolVars, nodeVars, chan, faults>>

-----------------------------------------------------------------------------
(* The tools.                                                              *)

ToNode(m) == chan' = [chan EXCEPT ![<<"t", "a">>] = IF link = "open" THEN With(<<"t", "a">>, <<m>>) ELSE @]

\* Return, or os.Exit: the session ends with the process, but for QUIC, where
\* the node finds out later.
Exit == pc' = "exited" /\ link' = IF net = "quic" THEN link ELSE "closed"

\* The Hello.  A send that fails ends worker and client; the fatalf of ctl does
\* not end anything.
SendHello ==
    /\ pc = "hello"
    /\ ToNode(PeerHello)
    /\ IF link = "closed" /\ tool # "ctl"
       THEN Exit /\ UNCHANGED readers
       ELSE /\ pc' = IF tool = "ctl" THEN "ask" ELSE "await"
            /\ readers' = IF tool = "ctl" THEN {} ELSE {1}
            /\ UNCHANGED link
    /\ UNCHANGED <<choices, ctxDone, result, reads, got, nodeVars, faults>>

\* Two calls of RecvBytes at once share a bufio.Reader without a lock; what it
\* holds afterwards is anything.
Torn == Stream /\ (readers = {1, 2} \/ \E r \in {1, 2} : result[r] = "garbled")

\* RecvBytes of reader r returns a message ...
ReaderTakes(r) ==
    /\ r \in readers /\ pc # "exited" /\ ~Torn
    /\ \E i \in Takable(<<"a", "t">>) :
          LET m == chan[<<"a", "t">>][i] IN
          /\ chan' = [chan EXCEPT ![<<"a", "t">>] = RemoveAt(@, i)]
          /\ result' = [result EXCEPT ![r] = m.kind]
          /\ got' = IF Stream /\ IsControl(m) THEN Append(got, m) ELSE got
    /\ Stream => link = "open"
    /\ readers' = readers \ {r}
    /\ UNCHANGED <<choices, pc, ctxDone, reads, link, nodeVars, faults>>

\* ... or, having raced with another, any message, whole or not, or an error,
\* whatever it has taken from the stream; or the process panics ...
ReaderRaces(r) ==
    /\ r \in readers /\ pc # "exited" /\ Torn
    /\ result' = [result EXCEPT ![r] = "garbled"]
    /\ readers' = readers \ {r}
    /\ \E n \in 0..Len(chan[<<"a", "t">>]) :
          chan' = [chan EXCEPT ![<<"a", "t">>] = SubSeq(@, n + 1, Len(@))]
    /\ Exit \/ UNCHANGED <<pc, link>>
    /\ UNCHANGED <<choices, ctxDone, reads, got, nodeVars, faults>>

\* ... or an error, which it never does on a session of datagrams.
ReaderFails(r) ==
    /\ r \in readers /\ pc # "exited" /\ ~Torn /\ Stream /\ link = "closed"
    /\ result' = [result EXCEPT ![r] = "error"]
    /\ readers' = readers \ {r}
    /\ UNCHANGED <<choices, pc, ctxDone, reads, got, link, nodeVars, chan, faults>>

\* The wait of reader r is over: there is a result, or time.After fires, later
\* than the context, which was given the same time and started first.
WaitsForever(r) == result[r] # "none"

WaitOver(r) == result[r] # "none" \/ ctxDone

\* ttmesh-worker goes on to register, acknowledged or not.
Register ==
    /\ tool = "worker" /\ pc = "await" /\ WaitOver(1)
    /\ ToNode(TaskRegister)
    /\ IF link = "closed"
       THEN Exit /\ UNCHANGED readers
       ELSE pc' = "registered" /\ readers' = readers \cup {2} /\ UNCHANGED link
    /\ UNCHANGED <<choices, ctxDone, result, reads, got, nodeVars, faults>>

\* ttmesh-client sends its message if the first that it reads is a HelloAck.
SendTest(d) ==
    /\ tool = "client" /\ pc = "await" /\ WaitOver(1) /\ result[1] = "HelloAck"
    /\ ToNode(TestMessage(d))
    /\ IF link = "closed" THEN Exit ELSE pc' = "sent" /\ UNCHANGED link
    /\ UNCHANGED <<choices, ctxDone, readers, result, reads, got, nodeVars, faults>>

NotAccepted ==
    /\ tool = "client" /\ pc = "await" /\ WaitOver(1) /\ result[1] # "HelloAck"
    /\ Exit
    /\ UNCHANGED <<choices, ctxDone, readers, result, reads, got, nodeVars, chan, faults>>

\* The worker's second wait is over, or the client's sleep.
Done ==
    /\ pc = "sent" \/ (pc = "registered" /\ WaitOver(2))
    /\ Exit
    /\ UNCHANGED <<choices, ctxDone, readers, result, reads, got, nodeVars, chan, faults>>

\* ttmesh-ctl: sendCtl ignores errors.
Ask(m) ==
    /\ \/ pc = "ask" /\ m = GetIdentity
       \/ pc = "askMore" /\ m \in {GetRoutes, TaskListWorkers}
    /\ ToNode(m)
    /\ pc' = m.kind
    /\ reads' = 0
    /\ UNCHANGED <<choices, ctxDone, readers, result, got, link, nodeVars, faults>>

Awaited == [GetIdentity |-> "IdentityReply", GetRoutes |-> "RoutesReply",
            TaskListWorkers |-> "TaskListWorkersReply"]

GoesOn == IF pc = "GetIdentity" THEN pc' = "askMore" /\ UNCHANGED link ELSE Exit

\* The head of a waiting loop: give up, or call RecvBytes.  The deadline is
\* looked at here and nowhere else; only waitIdentity counts.
WaitLooks ==
    /\ pc \in DOMAIN Awaited /\ readers = {} /\ result[1] = "none"
    /\ \/ /\ reads > 0 \/ ctxDone
          /\ GoesOn
          /\ UNCHANGED readers
       \/ /\ pc = "GetIdentity" => reads < MaxReads
          /\ readers' = {1}
          /\ UNCHANGED <<pc, link>>
    /\ UNCHANGED <<choices, ctxDone, result, reads, got, nodeVars, chan, faults>>

\* Its body: the reply that is waited for, or an error, ends it.
WaitReads ==
    /\ pc \in DOMAIN Awaited /\ result[1] # "none"
    /\ IF result[1] \in {Awaited[pc], "error"} THEN GoesOn ELSE UNCHANGED <<pc, link>>
    /\ reads' = IF reads < MaxReads THEN reads + 1 ELSE reads
    /\ result' = [result EXCEPT ![1] = "none"]
    /\ UNCHANGED <<choices, ctxDone, readers, got, nodeVars, chan, faults>>

ToolStep ==
    \/ SendHello \/ Register \/ NotAccepted \/ Done \/ WaitLooks \/ WaitReads
    \/ \E d \in {"", "a", "b", "nowhere"} : SendTest(d)
    \/ \E m \in {GetIdentity, GetRoutes, TaskListWorkers} : Ask(m)
    \/ \E r \in {1, 2} : ReaderTakes(r) \/ ReaderRaces(r) \/ ReaderFails(r)

-----------------------------------------------------------------------------
(* The node's handler of the tool's session.                               *)

ToTool(ms) == [chan EXCEPT ![<<"a", "t">>] = IF link = "open" THEN With(<<"a", "t">>, ms) ELSE @]

\* The tool's Hello names the algorithm, has a key and a signature of the right
\* lengths, and is signed with the key it shows; what can go wrong is its time.
VerifyHello == skew <= MaxSkew /\ -skew <= MaxSkew

\* The first message: a Hello that can be verified gives the session its id ...
HandleFirst(m) ==
    IF m.kind = "Hello" /\ VerifyHello
    THEN handler' = "hello" /\ bound' = "tool"
    ELSE handler' = "loop" /\ UNCHANGED bound

RecvFirst ==
    /\ handler = "first"
    /\ \E i \in Takable(<<"t", "a">>) :
          /\ HandleFirst(chan[<<"t", "a">>][i])
          /\ chan' = [chan EXCEPT ![<<"t", "a">>] = RemoveAt(@, i)]
    /\ UNCHANGED <<choices, toolVars, link, fwd, sends, faults>>

\* ... and is answered, when messages for that id may have gone out before.
SendHelloAck ==
    /\ handler = "hello"
    /\ chan' = ToTool(<<PeerHelloAck>>)
    /\ handler' = "loop"
    /\ UNCHANGED <<choices, toolVars, link, bound, fwd, sends, faults>>

\* handleControlRequest: what a message is answered with, if anything.  Other
\* control messages are logged, like everything else.
ReplyTo(m) ==
    CASE m = GetRoutes       -> <<RoutesReply>>
      [] m = GetIdentity     -> <<IdentityReply>>
      [] m = TaskRegister    -> <<TaskRegisterAck>>
      [] m = TaskListWorkers -> <<TaskListWorkersReply>>
      [] OTHER               -> <<>>

Forwarded(n, m) == m.dest \notin {"", n}

\* Every message is acknowledged.
AckAll(m, prevHop) == {StatusAck(prevHop)}

\* enqueueDirectStatusAck, but for a message that is such an ack.
Ack(m, prevHop) == IF m.status THEN {} ELSE {StatusAck(prevHop)}

\* Into the forwarder of n: the message, if it is for someone else, and the ack.
Enqueued(n, m, prevHop) ==
    [fwd EXCEPT ![n] = @ (+) SetToBag({x \in {m} : Forwarded(n, m)} \cup Ack(m, prevHop))]

\* The reply goes the way of the ack.
RecvRepliesQueued ==
    /\ handler = "loop"
    /\ \E i \in Takable(<<"t", "a">>) :
          LET m == chan[<<"t", "a">>][i] IN
          /\ chan' = [chan EXCEPT ![<<"t", "a">>] = RemoveAt(@, i)]
          /\ fwd' = [fwd EXCEPT !["a"] = @ (+) SetToBag({[x EXCEPT !.dest = bound] : x \in ToSet(ReplyTo(m))})]
    /\ UNCHANGED <<choices, toolVars, link, handler, bound, sends, faults>>

\* One round of the handler's loop.
Recv ==
    /\ handler = "loop"
    /\ \E i \in Takable(<<"t", "a">>) :
          LET m == chan[<<"t", "a">>][i] IN
          /\ chan' = [ToTool(IF Forwarded("a", m) THEN <<>> ELSE ReplyTo(m))
                         EXCEPT ![<<"t", "a">>] = RemoveAt(@, i)]
          /\ fwd' = Enqueued("a", m, bound)
    /\ UNCHANGED <<choices, toolVars, link, handler, bound, sends, faults>>

\* A stream that was closed, and everything was read; nothing tells a handler
\* of datagrams.
HandlerEnds ==
    /\ handler \in {"first", "loop"} /\ Stream
    /\ link = "closed" /\ chan[<<"t", "a">>] = <<>>
    /\ handler' = "ended"
    /\ bound' = "none"
    /\ UNCHANGED <<choices, toolVars, link, chan, fwd, sends, faults>>

-----------------------------------------------------------------------------
(* Between the nodes, and the forwarders.                                  *)

Other(n) == IF n = "a" THEN "b" ELSE "a"

\* The handlers of the session between a and b, after the handshake.
RecvPeer(n) ==
    LET l == <<Other(n), n>> IN
    /\ chan[l] # <<>>
    /\ chan' = [chan EXCEPT ![l] = Tail(@)]
    /\ fwd' = Enqueued(n, Head(chan[l]), Other(n))
    /\ UNCHANGED <<choices, toolVars, link, handler, bound, sends, faults>>

\* Where a message for d leaves n.  Without a route, or on a session that was
\* closed, sending fails and the message is queued again.
Hop(n, d) ==
    IF ~own THEN {}
    ELSE IF n = "a" /\ d = bound THEN {l \in {<<"a", "t">>} : link = "open" \/ net = "datagram"}
    ELSE IF d = Other(n) THEN {<<n, d>>}
    ELSE {}

Forward(n) ==
    /\ \E m \in DOMAIN fwd[n] : \E l \in Hop(n, m.dest) :
          /\ fwd' = [fwd EXCEPT ![n] = @ (-) SetToBag({m})]
          /\ chan' = IF l = <<"a", "t">> THEN ToTool(<<m>>) ELSE [chan EXCEPT ![l] = Append(@, m)]
    /\ UNCHANGED <<choices, toolVars, link, handler, bound, sends, faults>>

\* Someone behind b has a message for the tool, under the id it will have.
OtherSends ==
    /\ sends > 0
    /\ sends' = sends - 1
    /\ chan' = [chan EXCEPT ![<<"b", "a">>] = Append(@, TestMessage("tool"))]
    /\ UNCHANGED <<choices, toolVars, link, handler, bound, fwd, faults>>

NodeStep ==
    \/ RecvFirst \/ SendHelloAck \/ Recv \/ HandlerEnds
    \/ \E n \in {"a", "b"} : RecvPeer(n) \/ Forward(n)

ToNext ==
    \/ ToolStep \/ NodeStep \/ OtherSends
    \/ Break \/ Timeout \/ CtxCloses
    \/ \E l \in {<<"t", "a">>, <<"a", "t">>} : Lose(l) \/ Repeat(l)

ToSpec == ToInit /\ [][ToNext]_tovars

\* Timers fire, and processes go on when they can.
ToFairSpec ==
    /\ ToSpec
    /\ WF_tovars(ToolStep) /\ WF_tovars(Timeout) /\ WF_tovars(CtxCloses)
    /\ WF_tovars(RecvFirst \/ SendHelloAck \/ Recv)
    /\ \A n \in {"a", "b"} : WF_tovars(RecvPeer(n)) /\ WF_tovars(Forward(n))

-----------------------------------------------------------------------------
(* Properties.                                                             *)

\* A tool ends, whatever becomes of the node, of the messages and of the readers
\* it leaves behind.  Not ttmesh-ctl over datagrams or QUIC: its deadlines are
\* only looked at between calls of RecvBytes, and nothing ends one that waits.
ToolEnds == tool # "ctl" \/ net = "stream" => <>(pc = "exited")

\* The acks that each hop sends for each message do not breed: there comes a
\* time after which none travels.
AcksDieOut ==
    <>[](\A l \in {<<"a", "b">>, <<"b", "a">>} : \A i \in DOMAIN chan[l] : ~chan[l][i].status)

\* On a stream, replies come in the order of the requests, each at most once,
\* though acks and forwarded messages are sent by other goroutines meanwhile.
\* Not when two calls of RecvBytes have met, which happens to a worker only, and
\* after its timeout.
RepliesInOrder ==
    LET first == IF VerifyHello THEN <<PeerHelloAck>> ELSE <<>> IN
    Stream =>
        IF Torn THEN tool = "worker" /\ ctxDone
        ELSE \E r \in {RoutesReply, TaskListWorkersReply} :
            IsPrefix(got, first \o (CASE tool = "worker" -> <<TaskRegisterAck>>
                                      [] tool = "client" -> <<>>
                                      [] tool = "ctl"    -> <<IdentityReply, r>>))
=============================================================================
