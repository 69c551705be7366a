# ttmesh in TLA+

A verification development for the node of `ttmesh` (the Go module under
`src/ttmesh`): TLA+ models of its concurrent core, TLC runs on small instances
of them, and TLAPS proofs for every instance. Paths below are relative to
`src/ttmesh/pkg`, those of the tools to `src/ttmesh`. `PROJECT.json` maps every definition to the lines it models.

## 1. The system

A node keeps sessions to other nodes over several kinds of transport, learns
who is at the other end by a signed Hello, elects one session per peer, records
what it knows of its peers in an in-memory store, and forwards envelopes through
a prioritised queue. There is no consensus, no persistence and no replication:
the packages of those names are stubs. Everything interesting happens between
the goroutines of one node and between two nodes that meet.

| component | state | operations | interacts with |
|---|---|---|---|
| `memkv/store.go` | sharded maps, key and byte counters, expiry heap, condition variable | Set, Get, GetNoCopy, GetDel, Update, Delete, Expire, TTL, Close; expirer goroutine | backs peer store and registry |
| `core/priocq/queue.go` | three classes of flows, deficits, round-robin order and index, condition variable | Enqueue, Dequeue (with a helper goroutine per round) | pipeline workers, session handlers |
| `core/priocq/shaper.go` | tokens, time of last refill | Allow | pipeline workers |
| `pipeline/pipeline.go` | queue, map of shapers, stop channel | EnqueueProto, two workers (shape, send, retry), Close | queue, router, peer store |
| `transport/manager.go` | per peer id: canonical session, candidates | AddSession, RebindPeer, GetSession, ClosePeer | accept and dial loops, handlers, router |
| `core/netstack` | back-off, counters of active loops | acceptLoop, dialLoop, sendHello | transports, manager, peer store, handlers |
| `core/peering` | current id of the session, forwarder | HandleSession, handleHello, handleHelloAck, handleRawHello, control requests | manager, peer store, registry, forwarder |
| `peers/store.go` | peer records, peer index, route candidates, route index | Upsert, Touch, Add/RemoveConnectedDirect, DeletePeer, LearnPath, UpsertRouteCandidate ... | memkv; read by the router |
| `router/router.go` | none of its own | NextHopForPeer, SendBytesToPeer, Dijkstra | peer store, manager |
| `registry/store.go` | worker records, index of workers | Register, Update, Deregister, ListWorkers | memkv; called by handlers |
| `transport/{udp,tcp,mem,quic,winpipe}` | sockets, bounded accept channels, UDP demultiplexer, buffers and cached streams of a session | Dial, Listen, Accept, OpenStream, SendBytes, RecvBytes, Close | loops, handlers, workers |
| `handshake`, `crypto`, `identity` | none | sign and verify Hello | loops, handlers, tools |
| `protocol`, `protocol/stream`, codecs | none but a connection's buffers | encode, decode, fragment, reassemble, Send, Recv | gateway |
| `gateway/grpc` | streams of gRPC peers | ToProtoEnvelope, FromProtoEnvelope, stream Send and Recv | envelopes |
| `cmd/ttmesh-{worker,client,ctl}` | a session, goroutines that wait for a reply | Hello, register, send a message, ask for identity, routes, workers | a node's session handler |

What is hard here, and what would make each part correct:

* **memkv.** Every operation works on readings (clock, deadline, entry) that may
  be stale when the lock is taken; map, counters and expiry heap have separate
  locks. Correct means: no deadline is forgotten, nothing is evicted before it
  is due, the counters account for every entry, the byte limit is hard, overdue
  entries go away, Close returns.
* **Queue.** Appending and signalling are separate steps under separate locks,
  workers look at the classes one by one, helpers of earlier rounds linger.
  Correct means: each flow is a FIFO whatever the workers do, deficits are
  bounded, every flow is in the round robin and gets its turn, nobody sleeps on
  an available item.
* **Session manager.** Three kinds of goroutine (loops, handlers, closers) and
  the network interleave; an id changes under a session; links fail at any
  moment. Correct means: an id leads to a session that came by it
  in its own handshake, no open session is lost sight of, of two sessions to a peer one goes, and two nodes
  that elect independently agree.
* **Pipeline.** Handlers, two workers and the retry of failed sends meet in one
  queue, the map of shapers has no lock, and a bucket computes with nanoseconds
  in 64 bits. Correct means: what was accepted is in one place until it is sent,
  no bucket allows more than its rate, answers are not answered.
* **Registry.** Record and index change under different locks while clients page
  through a listing. Correct means: a registered worker is listed, a page walk
  gets each worker that has a record, a record names a task once.
* **Router.** A call reads the graph record by record while it changes, and its
  heap keeps outdated entries. Correct means: the path is shortest in what was
  read, every link of it was there during the call, and the call returns.
* **Routes.** Candidates run out by the clock, callers read it before they have
  the lock, and the router asks for the best of them. Correct means: a source has
  one candidate, and the best that is still valid is chosen.
* **Transports.** Sessions go through a bounded channel between two loops that two
  parties close; UDP shares one socket through bounded queues, over a network that
  loses, repeats and reorders; on a stream several senders share a buffer, whose
  contents arrive in any pieces. Correct means: a handler gets what arrived, from
  the first message on, whole and in order; an address has one session, waiting
  sessions are accepted, nobody holds a session that nobody serves, Close ends the
  loops.
* **Envelopes.** A payload is cut into pieces with narrow numbers, which travel by
  two ways and are read into the same variables. Correct means: what is joined is
  what was split.
* **Tools.** A tool waits for replies with a timeout, on a session that also carries
  acks and forwarded messages, and leaves readers behind; hops acknowledge. Correct
  means: replies come in order as long as one reader reads, the tool ends, acks are not acknowledged for ever.
* **Node.** The peer store follows the manager with a delay and without a common
  lock. Correct means: records live as long as a handler that will delete them,
  and a peer with a live direct session can be routed to.

`PROJECT.json` lists the hazards line by line.

## 2. The modules

| module | models | extends |
|---|---|---|
| `MemKV` | `memkv/store.go` | |
| `MLQueue` | `core/priocq/queue.go`, the worker loop of `pipeline.go` | |
| `FlowQueue` | what the queue promises: a FIFO per class and destination; implemented by `MLQueue` | |
| `Pipeline` | `pipeline/pipeline.go`, `core/priocq/shaper.go`, the message loop and local forwarder of `core/peering` | |
| `SessionManager` | `transport/manager.go` and its callers in `core/netstack`, `core/peering` | |
| `LinkPair` | two nodes with a manager each, Hello and HelloAck between them | `SessionManager` |
| `NodeLinks` | manager, loops, handlers and `peers/store.go` of one node together | `SessionManager` |
| `Registry` | `registry/store.go`, `core/peering/control.go` | |
| `Router` | `router/router.go` over peer store and manager | |
| `Routes` | paths and candidates of `peers/store.go`, the router's question for the best, the reply to GetRoutes | |
| `Listener` | what the five listeners have in common, the accept loop, the two who close | |
| `UDPLinks` | `transport/udp/udp.go` | `Listener` |
| `StreamLinks` | connections of `transport/{tcp,quic,mem,winpipe}` | `Listener` |
| `Frames` | what travels on such a connection: OpenStream, SendBytes, RecvBytes | |
| `Envelope` | `protocol/envelope.go`, `protocol/stream/conn.go`, `gateway/grpc/grpc.go` | |
| `Tools` | `cmd/ttmesh-{worker,client,ctl}` with the session handlers of two nodes | |
| `MCMemKV`, `MCMLQueue`, `MCPipeline`, `MCLinkPair`, `MCNodeLinks` | instances for TLC | the module of that name |
| `MCRouter` | instance of `Router`, and of `Routes` | both |
| `MCTransports` | instance of the transports; composes their next-state relations | `UDPLinks`, `StreamLinks` |
| `MCParts` | instance of `Registry`, of `Frames`, and of `Envelope` | all three |
| `MemKV_proofs`, `MLQueue_proofs`, `Pipeline_proofs`, `Tools_proofs` | theorems | the module of that name |
| `NodeLinks_proofs` | theorems about the session manager and the node | `NodeLinks` |
| `Router_proofs` | theorems about the router and the routes | `Router`, `Routes` |
| `Parts_proofs` | theorems about the registry and the envelopes | `Registry`, `Envelope` |
| `Transports_proofs` | theorems about all five transports, and about what travels on a stream | `MCTransports`, `Frames` |

A definition whose comment describes a defect (`UncountKeysOnly`,
`RebindLosesQuietly` ...) stands before the definition it varies. It is not used
by the specification: putting it in the place of the original makes the property
listed with it in `PROJECT.json` fail, which shows that the property depends on
that part of the code.

`MCRouter` and `MCParts` put components side by side that have no state in
common: a behaviour is one of one of them, chosen in the initial state, and the
others stand still. That is one run instead of several, with the same states.

### MemKV

A step is what the code does between two points where another goroutine can be
observed. A shard's critical section is one step; an operation is cut where it
reads clock or map, or updates a counter, outside of it: `SetStart` (deadline
from the clock) and `SetLocked`, `GetRead` and `GetCheck`, `Delete` and
`Account`, `TTLRead` and `TTLDeletes`. The expirer's loop is `ExpirerTop`,
`ExpirerWoken`, `ExpirerTimer`, `ExpirerReadsClock`, `ExpirerEvicts`; Close is
`CloseCh`, `CloseBroadcast`, `CloseJoin`. Values are lengths, the heap is a bag
of items. Shards need no representation, as their critical sections are single
steps. The clock is monotonic: a wall clock set back between two readings is
outside the model. `leaked` is a history variable for what `Update` drops
without accounting (line 355), so that the counters can be stated exactly.

### MLQueue

`AppendItem` is the part of Enqueue under the lock of the class,
`EnqueueBroadcast` the rest; `TryPopServes` and `TryPopSkips` are one class of
tryPop; `DequeueLocks`, `DequeueWaits` and `DequeueWakes` are the three moments
at which Dequeue changes hands with q.mu; `HelperSelects`, `HelperBroadcasts`
and `StaleHelper` are its helper goroutine, in its own round and after it. An
item is its class, destination and size. The quanta are those of the code.
`sent`, `out` and `passed` are history variables.

### SessionManager

AddSession, RebindPeer and ClosePeer are one step each (they hold the manager's
lock throughout). `stage[s]` is how far the goroutines of a session have come;
`oldID[s]` is the id a handler has read before it calls RebindPeer, during which
anything may happen; `closing` are the sessions some goroutine is about to
close. The grace period of a displaced session has no effect in the code (the
loop that called AddSession closes it at once), so a due close may happen at any
moment. Whether the temporary ids of live sessions may coincide is a parameter:
`Shared` is empty for TCP, QUIC and UDP, whose temporary id is the remote
address, and not for pipes and in-process listeners. A handshake gives a session
an id (`newID`): `Hello` the one made from the key that signs it (`Key`),
`HelloAck` whatever its Meta.Id says (`Acks`), on a dialled or an accepted session,
as the code verifies nothing of it.

### LinkPair and NodeLinks

`LinkPair` runs both ends of several links: the ids of the two nodes are
disjoint, so one table of `SessionManager` holds the tables of both managers. A
dialler sends Hello after AddSession, the other end rebinds and answers, then
the dialler rebinds; neither network nor node fails except that closing one end
ends the other.

`NodeLinks` adds the peer store: `known` and `direct` are the records and their
`ConnectedDirectIDs`, `index` is peerIndex. Each goroutine's steps on the store
(`Linked`, `Upsert`, `Adjacent`, `DeletePeer`, `Unindex`) are cut where memkv and
the index have different locks. memkv's Update does nothing for a key that is
not there, and so do `WithAdjacency` and `WithoutAdjacency`. `OpenFails` is the
early return of HandleSession, and a rejected session that was dialled is
entered into the store all the same.

### Pipeline

`Sessions` have handlers that read messages and hand them to the forwarder
`FwdOf` names: the node's pipeline, or one of the session's own. The queue in
between is taken as `FlowQueue`, which `MLQueue` is proved to implement: a worker
takes the head of any flow. A worker looks its shaper up, makes and stores one
(three steps, as the map has no lock; `MapFault` is the end of the process when
the runtime notices), refills and takes tokens, waits, sends, and enqueues again
what could not be sent. Integers wrap beyond `MaxInt64`, as int64 does for
rate * nanoseconds. Router, manager and transport are a send that succeeds or
fails.

### Registry

Register, Update and Deregister are a step on the record and a step on the index.
Any handler may have requests about any worker, as the worker's id is what the
message says. `torn` is a history variable: the workers registered between the two
steps of a Deregister, until something enters them into the index again. A listing
reads the index once, then the records, and returns a page and a token; the client
walks the pages with `NextPage` until it has had enough (`Rest`). Workers are numbers because a listing sorts by id.

### Router

A call lists the peers, reads each record and the weight of each link of this
node (`ReadRecord`, `Weigh`), and runs Dijkstra with a heap that may hold several entries
for a peer (`Nearest`, `Skip`, `Visit`), follows `prev` back and sends; between
any two steps store and sessions may change. Costs are halves, as the code's
base costs are multiples of 0.5.

### Routes

An operation is two steps: `BeginUpsert` and the like read the clock, the second
step changes the entry in memkv under its lock. No code of the repository calls
LearnPath, UpsertRouteCandidate or ConfirmRoute so far, and if some did, memkv's
Update would do nothing for a key that is absent; so the module takes callers as
arbitrary and lets `seeded` be the targets whose key someone else has written.
Without it (`seeded` empty, which the run includes) nothing is ever learned. Scores
are times 60; the freshness term of routeScore is smaller than any difference of
the others and becomes a comparison of times.

### Listener, UDPLinks and StreamLinks

`Accept`, `AcceptFails`, `LoopFails`, `CloseLooks`, `CloseCloseCh` and `CloseConn`
are common to all transports. Close is cut at the select that looks at closeCh, so
that its two callers (the goroutine that waits for the context, and the node's
closer) can both find it open; closing it twice panics (`panicked`). Any error of
Accept, or of the read of UDP, ends the transport's loop for good while the listener
stays open (`LoopFails`); `LoopMustFail` is when there will be one. mem has no loop
of its own, and its name stays in the table until the context is done.

In `UDPLinks` a datagram is a number given by its sender; any that was sent may
arrive at any time and any number of times. `Dispatch` is what readLoop does under
the listener's lock. An accepted session that the manager turns away is closed,
which does nothing to an inbound session. `ReadRefused` is the error that ends
recvLoop of a dialled session.

In `StreamLinks` a connection waits in the backlog (or, for mem, goes into newCh as
it is dialled), is accepted into newCh or closed when that is full, and is taken
or closed by the node. `hasClose` is FALSE for a QUIC connection on which the session
finds none of the Close methods it looks for; its Close then has no effect.

### Frames

Two goroutines send on one session and the handler at the other end reads; another
goroutine there may open the stream as well. A byte is known by its frame and its
place, so a reader that takes the wrong bytes for a length is seen (`lost`). Writes
go through bufio's buffer as `Write` says: an overflow is written at once, the rest
at Flush. On mem's pipe a read gets bytes of one write and a write returns when all
is read; otherwise a read gets any part of what has arrived. mem and winpipe read the
prefix with a single Read. `reopened` records that buffers were made twice.

### Envelope

Payloads are sequences of units, slices the buffers they share (`heap`), numbers
have the widths of the fields. The receiver, which is not in the repository, reads
each channel into one variable and keeps copies, which is where a shared buffer
would show. What it keeps is a set, from which `Deliver` takes the pieces of a message
in the order of their numbers. Envelopes of a gRPC peer with bodies of other kinds mix
in, under correlation ids of its own.

### Tools

A tool has a session with node `a`, which has one with `b`; the session is a stream,
a stream whose Close has no effect (QUIC), or carries datagrams. Reader goroutines of the tool (`readers`) outlive the wait
that started them. Where two of them are in RecvBytes of a stream at once (`Torn`)
they share a bufio.Reader without a lock, and from then on `ReaderRaces` lets them
return anything, take any part of what has arrived, or end the process. `Timeout` is the context's deadline, and `CtxCloses` the goroutine
of Dial that then closes the session. The handler is that of `core/peering`:
first message, HelloAck, then a loop that forwards, replies and acknowledges.
`VerifyHello` compares clocks that may disagree (`skew`). `own` says whether the node
has a record of itself, without which it has no routes and every send fails.

## 3. The runs

Runs that pass:

| run | instance | what it shows |
|---|---|---|
| `memkv_safety` | 2 keys, 2 clients, lengths 1 and 2, limit 3 bytes, TTL none, 1 or 2, 4 operations, clock to 3, expirer, Close | `TTLTracked`, `KeysAccounted`, `BytesAccounted`, `HardLimit`, `OnlyDueEvicted` |
| `memkv_live` | 1 key, 2 clients, jitter 1, 3 operations, clock to 4, no limit, fair | `OverdueRemoved`, `CloseReturns` |
| `queue` | 2 producers, 2 workers, 2 flows of one class and one of another, 1 stale helper | `FlowFIFO`, `DeficitBounded`, `FlowsScheduled`, `RoundRobin`, `ImplementsFlows` (refinement of `FlowQueue`) |
| `pipeline` | 2 sessions, a pipeline with 2 workers and a local forwarder, 3 messages and their answers, 1 failing send, integers up to a `MaxInt64` of 7 | `Conserved`, `Conforms` |
| `links` | 3 sessions of 2 kinds (two dialled in turn at one address, one accepted, one to the node itself), 4 ids, HelloAcks that name ids of others, link failures, expiry, ClosePeer, fair closers | `CanonicalOwnsId`, `NoOrphans`, `OwnBinding`, `OneLinkPerPeer`, `RecordHasHandler` |
| `router` | Router: this node, two peers and a stranger, two costs, 4 changes during or between calls, fair. Routes: one target, 2 neighbours, 2 callers, 3 operations, clock to 1 | `ShortestRoute`, `FreshRoute`, `VisitedIsFinal`, `CallReturns`; `OneCandidatePerSource`, `BestIsBest` |
| `transports` | each of five transports, 2 addresses, accept channel of 1, queues of 2 and 1, 2 datagrams sent, 3 arrivals, errors that end the loop, fair | `NoneAltered`, `FirstKept`, `OneSession`, `WaitingIsAccepted`, `CloseEndsLoops`, `DialledIsServed` |
| `parts` | Registry: 3 workers, 2 sessions with requests about any of them, 2 task names under one key, 3 requests, pages of 1 and 100. Frames: each of four transports, 2 writers, 2 frames of sizes 0, 2, 5, buffers of 3. Envelope: 2 messages of 2, 3 or 5 units in chunks of 2 or 8, one foreign body | `UniqueTasks`, `RecordIndexed`, `WalkComplete`; `FramesIntact`; `MessagesIntact`, `AllDelivered` |
| `tools` | each of three tools on a stream, QUIC or datagrams, clocks within and beyond what is accepted, 1 datagram lost or repeated, 1 message from elsewhere, fair | `RepliesInOrder`, `ToolEnds`, `AcksDieOut` |

Type invariants (`TypeOK`, `QTypeOK`, ...) stay in the modules, as the proofs use them
where there are some; no run repeats them.

Runs that violate what the repository says of the code (the findings of
`PROJECT.json` quote the lines):

| run | property | what happens |
|---|---|---|
| `queue_refill` | `NextLoopRefills` | two 1500-byte control messages to one peer block the flow for good |
| `pair_split` | `DedupLeavesOneLink` | two nodes dial each other over TCP, each closes what the other keeps |
| `links_route` | `DirectPeersRoutable` | no route to a peer with a live direct session |

**Bounds.** Two clients and the expirer are enough for each race in memkv, since
an operation has two or three steps and touches one key; the second key is there
for the limit and the order of the heap; a clock that ends at 3 lets a deadline
of TTL 1 pass, be renewed and pass again. In the queue, two 1024-byte messages
use up the quantum of 2048 exactly, the third flow has a message larger than two
quanta, which is never served, and two workers race on idx while the second flow
joins. Three sessions are enough for a session to be displaced, by one that is
then displaced or rebound itself; a clock of two readings tells which of two came
first or that they came at once. HelloAcks name the address of another session and an
id that is another key's. In the pipeline, rate * time exceeds `MaxInt64`
within the clock's bound, one message is larger than a bucket, and two workers
meet at a destination without a shaper. In the registry, three workers are the
fewest for a page walk with a middle, and three requests are enough for a
Register to come between the two steps of a Deregister, or for an Update to leave
an id in the index that makes a listing repeat a worker. The router's graph has a direct link and a
detour to a peer, either of which may be the cheaper, and a peer that cannot be
reached. For routes, two callers and three operations are enough for one to
prune with a time that the other's candidate has outlived; health and TTL may be
given or not. For the transports, two addresses overflow the accept channel, and three
arrivals, one of them repeated, overflow a queue. A frame of 5 overflows a buffer of 3
twice and exceeds the limit of 4, which stands for 2^24; a
frame of 0 has no payload to read. Envelopes: `FragWidth` 3, `LenWidth` 5 and `LenLimit` 2
shrink 2^16, 2^32 and 2^31, so that numbers wrap and a whole payload is refused; a
payload of 5 in chunks of 2 has a remainder. Tools: `MaxReads` 2 instead of 5, a clock
difference that is accepted and one that is not.
`MaxOps`, `MaxTime`, `MaxClock`, `MaxStale`, `MaxFails`, `MaxPages`, `MaxChanges`,
`MaxSends`, `MaxArrivals`, `MaxFrames`, `MaxBodies` and `MaxFaults` are the only
bounds on behaviour; the sets of sessions, items and keys bound the rest.

**Deadlock.** A store nobody calls, a queue nobody fills and a node whose
sessions have all ended do stop, so no run checks for deadlock; what must not
stop is stated as a property.

**Fairness.** `FairSpec` of MemKV: the clock advances, the expirer and the
closer are scheduled, and an operation that was begun goes on (Go schedules
runnable goroutines, and critical sections are short); no client has to call
anything. `LFairSpec`: a closing goroutine that was started runs (it waits for a
timer at most); nothing is assumed of the network, the peers or the handlers.
`RtSpec` and `MCSpec`: the goroutine that calls SendBytesToPeer keeps running.
`FairSpec` of `MCTransports`: the two loops of a listener run when they can (AddSession
does not block), a read from a closed socket returns its error (`LoopMustFail`), and a
Close that has begun goes on; other errors may come or not; nothing is assumed of the network,
the handlers or those who might cancel or close. `ToFairSpec`: the tool's process goes
on, its timer fires and the session is closed then, the handlers and each node's
forwarder keep working; nothing is assumed of the network, which may break the
session at any moment. The other runs use no fairness.

## 4. The proofs

All theorems are for any values of the constants that satisfy the named ASSUMEs
(finite key, client, writer and peer sets, sizes and bounds that are naturals, `NoSession` not
a session, and the like), which the runs evaluate for their instances.

* `MemKV_proofs`: `TypeCorrect`; `DeadlinesTracked` (`TTLTracked`);
  `KeyCounter` (`KeysAccounted`), by counting with the cardinality theorems how
  each action moves live keys, removals in progress and the leak; and
  `EvictionsAreDue` (`OnlyDueEvicted`), an action property. `TTLTracked` is
  inductive only together with the types and with `HeldItemIsDue`: the item in
  the expirer's hands was due when it was popped, and the clock only advances.
  Otherwise the entry could lose its item and not be evicted by the check that
  follows. `ByteCounter` (`BytesAccounted`) and `LimitIsHard` (`HardLimit`) rest on
  `BytesInv`: the counter accounts for stored bytes, removals in progress and the
  leak, and is itself within the limit. Only the second is what Set checks; that it
  bounds the stored bytes follows from the first. Bytes are counted as the
  cardinality of `Volume`, the set of (key, byte) pairs, so that a sum over all keys
  moves with one entry as the cardinality theorems say.
* `MLQueue_proofs`: `FlowsAreFIFO` (`FlowFIFO`) and `DeficitsBounded`
  (`DeficitBounded`), for any number of producers, workers, flows and items of
  any size. For the second, a refill happens only at zero, so a deficit never
  exceeds a quantum, and a pop takes no more than there is.
  `QueueImplementsFlows` (`ImplementsFlows`): every step of the queue is a step of
  `FlowQueue` or a stutter, which is what `Pipeline` builds on.
  `FlowsStayScheduled` (`FlowsScheduled`) and `RoundRobinHolds` (`RoundRobin`) rest on
  `RoundInv`: the order names no flow twice, the index lies inside it, and the times
  a flow was passed over plus the flows still ahead of it in the round are fewer
  than all flows. The bound of `RoundRobin` alone is not inductive: it says nothing
  of how far the index is from the flow. A flow that joins appends to the order,
  which lengthens the way by one and the bound by one.
* `Pipeline_proofs`: `NothingLost` (`Conserved`): what a forwarder accepted is in one
  queue, in the hands of one worker, or sent, once. `PInv` says so item by item
  (`PlacesOK`: queued once and unheld and unsent, or ...), for items that are not yet
  accepted as well, which are nowhere; with it, what a handler is about to answer
  came in on its session (`HandlersOK`) and a worker has an item from Dequeue on
  (`WorkersOK`). `BucketsConformAlways` (`Conforms`): for any rate, capacity, clock and
  integer range. An overflow of rate * time never makes the product larger
  (`WrapBound`), and a negative one leaves the tokens alone, so the bound holds in
  spite of it.
* `NodeLinks_proofs`, the manager: `ManagerTypes`, `CanonicalIds`, `NoLinkLeftBehind` and
  `BindingIsOwn` (`OwnBinding`), which assumes nothing of the ids that a HelloAck
  names or that sessions are connected under: the property itself excepts what
  follows once a handshake leaves an id that is not the session's own
  (`NoneLeavesTaken`), see below. It needs `BindInv`: until its handshake a session
  has the id it was connected under (`NewIsFirst`), of those under one address at most
  one is connected (`OneAtATime`), and, unless excepted, a session has its first id or
  its handshake's (`IdIsOwn`), the id its handler read before RebindPeer is the first
  one (`OldIsFirst`), and an entry under a first id belongs to the current session of
  it (`EntryIsCurrent`). Without the last a handler could find the session of another
  under its old id.
* `NodeLinks_proofs`, the node: `LinksRefineManager` (`LSpec => SSpec`): every step of the
  node is a step of the manager or leaves it alone, so the theorems above hold
  of the whole node. `RecordsAreCleanedUp` (`RecordHasHandler`): the statement
  alone is not inductive, because the id a handler cleans up changes when its
  handshake ends; `RecInv` ties each record to a handler that has written it and
  whose id does not change any more.
* `Parts_proofs`, the registry: `TasksAreUnique` (`UniqueTasks`), from what dedup and upsert
  return for any list of tasks; `RegisteredIsIndexed` (`RecordIndexed`), for any
  interleaving of requests about one worker over several sessions. `IndexInv` adds that
  nobody is about to take a worker with a record out of the index, unless it was
  registered in the middle of that (`torn`), and that the worker is there or somebody
  is about to enter it (`Found`). `WalkIsComplete` (`WalkComplete`), for any number of
  workers and any page size, has two parts. Every worker of the index that has a
  record is listed: by `CoverInv` and `CoveredInv` the client and the page together have
  what has a record among the ids looked at, since matched workers lag behind ids, so
  that a page starts too early rather than too late. And once each, in order, if every
  id of the index has a record: `WalkInv` says that, while nobody changes the
  registry, the pages a client has are an initial segment of the sorted index
  (`PageInv`), its token is the length of that segment, and the reply in the making
  continues it (`ReplyInv`). It is inductive only with `QuietInv`, which says that no
  request is between record and index, and with the index being finite.
* `Router_proofs`, the router: `VisitedFinal` (`VisitedIsFinal`), an action property,
  from `SearchIsSound`. Its invariant has two parts. `BuildInv`: what the call has read
  so far is a graph with weights that are naturals. `SearchInv`: no entry of the
  heap is nearer than its peer's distance or than any visited peer, and a reached
  peer that is not visited has an entry with its distance. So an outdated entry is
  taken only after the current one, and skipped; without the second half a peer
  could be visited at a distance that is still improved. `RouteIsShortest`
  (`ShortestRoute`) and `RouteIsFresh` (`FreshRoute`) follow from `AnswerIsSound`, with
  `AnswerInv`: the weights read are those of the graph (`WeightInv`), what was read was
  there during the call (`SeenInv`), the predecessors form a tree of links of the
  graph whose distances add up (`TreeInv`), no link from a visited peer improves its
  other end (`EdgeInv`), what the search has left aside lies beyond the target
  (`CutInv`), and the path walked back so far is one of the tree (`PathInv`). That no
  path is cheaper is then shown along the other path: were there one, its first peer
  that is cheaper than its distance, a least index, would contradict `EdgeInv`.
* `Router_proofs`, the routes: `OneCandidate` (`OneCandidatePerSource`) and
  `BestChosen` (`BestIsBest`), an action property, for any callers, sources, times to
  live and clocks. `RouteInv` adds what callers are about to write to what the table
  holds. The loops that drop expired candidates, replace the one of the same source
  and pick the best are recursive functions over indices (`Live`, `Merged`, `Pick`),
  as they are in the code; that such a function exists and what it computes is proved
  by looking at the least index at which it would be wrong.
* `Transports_proofs`: `OneSessionHolds` (`OneSession`) for all transports. `THandedOK`
  says why an address is not handed out twice: its entry in the table of the UDP
  listener, or a connection that is no longer in the backlog. `NoneAlteredHolds`
  (`NoneAltered`) and `FirstKeptHolds` (`FirstKept`), for queues of any length: a
  receiver's queue together with what its handler has read is a subsequence of what
  arrived, and the same as it up to the length of the queue (`IsKept`).
* `Transports_proofs`, the frames: `FramesType` (`FTypeOK`) and `FramesHold`
  (`FramesIntact`), for any number of writers, streams and frames, any lengths of
  prefix and payloads and any buffer that holds more than a prefix. All that is sent
  on the stream that is read is seen as one line of bytes, with the place where each
  frame starts in it (`Layout`). `StreamInv` says that such a line exists and that what the
  reader has, its buffer, the writes on the wire and the write buffer are pieces of it, one
  behind the other from where the reader is (`Underway`), up to the end of the line
  but for what the holder of the lock has still to write (`Sending`); `Locked` says
  that only the holder is within SendBytes. mem's reader takes a prefix by one Read, so
  for it `Undivided` adds that no write, buffer or rest of one begins with a part of a prefix:
  the buffer is written out at the end of each frame and is longer than a prefix.
  Once an end is closed a frame may stay unfinished, and nothing is claimed of the
  end of the line; what was returned before stays a part of it.
  FlattenSeq is a recursive function in the library; what it returns for the writes on
  the wire is found, as above, at the least index at which it would be wrong.
* `Parts_proofs`, the envelopes: `EnvelopeType` (`ETypeOK`), `MessagesHold`
  (`MessagesIntact`) and `DeliveredHold` (`AllDelivered`), for any messages, sizes, chunk
  sizes and widths of the fields. `EInv` says of each message (`MInv`) that it is not
  sent and nothing of it is anywhere, or that it is what was sent and, if it fits
  (`FitsIn`), its fragments are where `Flow` says: whatever of it waits to be sent, is in
  the bytes between two Conns, in the gRPC stream or held is one of its fragments,
  unaltered; each number is in one place, once (`Uniq`, `Apart`); and unless the
  connection has failed, the message is delivered or every number is somewhere
  (`Covers`). `Planned` is what the cut gives: fragment k has the number k - 1 and, of
  more than one, the number of all, and `Reassemble` of all is the envelope again
  (`Joined`). So a set of pieces that is as large as their headers say holds every
  number once, and in ascending order it is the list of the fragments (`PutTogether`).
  Without `Apart` a piece could be held twice and the count be reached without one
  of them. `ConnShape` says that in the bytes each header is followed by the units it
  announces, so that what is read begins with a header again.
* `Tools_proofs`: `RepliesStayInOrder` (`RepliesInOrder`), for every tool, clock
  difference and number of faults, on streams and QUIC; until two calls of RecvBytes
  meet, and that takes a worker that has timed out (`ReadersInv`). Every request and reply of a session has a turn (Hello and
  HelloAck the first, and so on), everything else has none. `ToolsInv` says that on an
  open stream of a tool that runs, with one reader (`Live`), the requests under way are those between what the handler has taken and
  what the tool has made, the replies under way those between what the tool has read
  and what the handler has sent, both in order (`OpenOK`); that the forwarders, which
  send on the same stream, hold no control messages, and that a tool's control
  messages name no other node (`ForwardInv`), since one that did would be forwarded and
  its reply would come out of turn; and that what was read are the first turns
  (`GotInv`). The second is needed after the session has closed as well, when the handler
  still reads what has arrived.

`TypeCorrect`, `ManagerTypes`, `FramesType`, `EnvelopeType` and `LinksRefineManager` are what the others build on; no
run lists them.

Only model-checked: the liveness properties (`OverdueRemoved`, `CloseReturns`,
`OneLinkPerPeer`, `CallReturns`, `WaitingIsAccepted`, `CloseEndsLoops`,
`DialledIsServed`, `ToolEnds`, `AcksDieOut`), as fairness is out of the prover's reach.
Every safety property that a passing run lists is also a theorem's.

## 5. Not modelled

`PROJECT.json` gives the status of every component. Known behaviour of modelled
code that no run states:

* Update leaks the counters of an expired entry (`UpdateDrops`); the counters are
  stated modulo that leak.
* A worker in cond.Wait is not woken when the stop channel is closed
  (`HelperSelects` looks once).
* TTL, a query, deletes a value that was written after it had read the old
  deadline (`TTLRead`, `TTLDeletes`).
* A Broadcast between a failed tryPop and cond.Wait is lost; the item waits for
  the next Enqueue (`TryPopSkips`, `DequeueWaits`).
* Two workers may make a bucket each for one destination, which together allow
  more than the rate; a retry puts a message behind later ones of its flow.
* A session that has ended stays canonical, and a new session of lower rank loses
  against it.
* With a filter, a page token counts workers that do not match, so pages repeat or
  skip workers. An Update of a worker that is not registered leaves its id in the index
  for good, and listings without a filter then repeat workers (`WalkComplete` says when
  they do not).
* A Register from another session in the middle of a Deregister leaves the worker
  registered and unlisted until it registers or updates again (`torn`, which
  `RecordIndexed` excepts).
* A message to a peer that is gone, such as an ack to a tool that has ended, is
  retried for good (`Hop` is empty, and the message stays in the forwarder).
* winpipe takes a short read for a whole prefix; mem and winpipe may make buffers
  twice and lose what the first ones held; two senders may open two QUIC streams, of
  which the other end reads one. `FramesIntact` says what it excepts.
* A QUIC session that finds no Close method stays open after Close
  (`DialledIsServed` excepts it).
* Any error of Accept ends a listener's loop for good, with the listener still open:
  connections in its backlog, and those that come later, stay open and unserved
  (`Stranded`, which `DialledIsServed` excepts).
* ctl over UDP or QUIC may wait for ever, as its deadlines are looked at between calls of
  RecvBytes (`ToolEnds` excepts it); a reader left behind by the worker's first wait
  may take the reply to its registration, and on a stream, if it is still in RecvBytes
  when the second wait calls it, the two may tear frames apart (`RepliesInOrder` excepts
  what is read from then on); a client that reads a forwarded message
  before the HelloAck gives up.
* No key of a route is ever created by the node, so nothing is learned; LearnPath
  keeps the best path it was ever told, however old; a candidate that is down
  outranks one that is up if its metric is small enough.
* A payload of 2^16 fragments or more cannot be told to be complete, and one
  longer than 2^31 is refused by the reader, not by the sender.
* A UDP address whose session found the accept channel full keeps a queue that
  nobody reads; RecvBytes does not return when a session is closed; a dialled
  session may go deaf; two concurrent calls of the listener's Close may panic.
* Candidates of a peer are not dropped when they are closed.
* The id in a HelloAck is taken as it is, on accepted sessions as well: nothing
  compares it with a key, so that a session may be bound to an id that is another
  node's (`HelloAck`). `OwnBinding` is about whose handshake an id came from, not
  whether it is true.
* RebindPeer moves whatever session the old id is bound to. When two live sessions
  carry one temporary id (`Shared` not empty), or a HelloAck has named the address of a
  session, a later handshake that leaves this id takes the other session along
  (`NoneLeavesTaken`, without which `OwnBinding` says nothing).
* Peer records and index can disagree (`DeletePeer` and `Unindex` are two steps).

Left out, and why: cryptography and encodings (functions of their input; taken as
they are used); sockets, pipes and quic-go (external); the back-off of the dial loop
and the counters of active loops (they delay and count, nothing depends on them);
configuration, logging and the node's start-up (`app.go`); the generators of sample
messages; the registration code that the protobuf compiler generates; the stubs.
SetViaPathForPeer and AdvertiseRoutes have no caller and no reader.

## 6. Plan

1. *Done*: MemKV, MLQueue with FlowQueue, SessionManager, LinkPair, NodeLinks,
   Pipeline, Registry and Router with their runs; first proofs for MemKV,
   MLQueue, SessionManager, NodeLinks, Registry and Router.
2. *Done*: Routes; Envelope; Listener with UDPLinks and StreamLinks, and Frames; Tools.
3. *Done*: proofs for Pipeline, Routes, the transports, Tools, and what was left of
   MemKV, MLQueue, Registry and Router.
4. *Done*: proofs for Frames and Envelope.
5. Abstract specifications: a map with deadlines that `MemKV` implements while no
   client is in progress, one link per peer for `SessionManager`.
