------------------------------ MODULE Envelope ------------------------------
(***************************************************************************)
(* Envelopes of pkg/protocol: a payload is split by Fragments, the pieces  *)
(* travel over a stream.Conn (pkg/protocol/stream) or, converted to and    *)
(* from protobuf, over a gRPC stream (pkg/gateway/grpc), and the receiver  *)
(* joins them by Reassemble.  On the gRPC stream there are also envelopes  *)
(* of a gRPC peer with bodies of other kinds.                              *)
(*                                                                         *)
(* A payload is a sequence of units; its length and the numbers of its     *)
(* fragments have the widths of the header's fields.  Slices are modelled  *)
(* by the buffers they share: heap holds the contents, an envelope the     *)
(* number of its buffer.  The receiver, which reads every envelope of a    *)
(* channel into one variable and keeps copies of that, and the gRPC peer,  *)
(* which uses correlation ids of its own, are not part of the repository.  *)
(***************************************************************************)
EXTENDS Integers, Sequences, FiniteSets, SequencesExt

CONSTANTS
    Msgs,       \* correlation ids of what is sent
    Sizes,      \* lengths of payloads
    Chunks,     \* chunk sizes
    Priorities, \* of the gRPC peer's envelopes: uint32 there, uint8 in the header
    FragWidth,  \* 2^16
    ByteWidth,  \* 2^8
    LenWidth,   \* 2^32
    LenLimit,   \* 2^31
    BodyKinds,  \* bodies a gRPC peer may send
    MaxBodies   \* bound on their number

ASSUME EnvelopeAssumption ==
    /\ {FragWidth, ByteWidth, LenWidth} \subseteq Nat \ {0}
    /\ LenLimit \in 1..(LenWidth - 1)
    /\ Sizes \subseteq Nat /\ Chunks \subseteq Nat \ {0} /\ Priorities \subseteq Nat
    /\ MaxBodies \in Nat
    /\ BodyKinds \subseteq {"raw", "none", "invoke", "chunk", "result", "tinyresult", "ack", "control",
                           "leasereq", "leaserep", "sessioninit", "sessionclose"}
    /\ Msgs \cap BodyKinds = {}

VARIABLES
    origin,   \* message -> what it was when it was sent, or NotSent
    out,      \* fragments still to be sent
    conn,     \* the bytes between two stream.Conns: headers and units
    connUp,
    grpc,     \* protobuf envelopes under way
    bodies,   \* how many of them came from the gRPC peer
    heap,     \* buffers of the receiver
    held,     \* the envelopes it keeps
    delivered \* history: what was put together

evars == <<origin, out, conn, connUp, grpc, bodies, heap, held, delivered>>

NotSent == [size |-> -1]

EInit ==
    /\ origin = [m \in Msgs |-> NotSent]
    /\ out = <<>> /\ conn = <<>> /\ connUp = TRUE /\ grpc = <<>> /\ bodies = 0
    /\ heap = <<>> /\ held = {} /\ delivered = {}

-----------------------------------------------------------------------------
(* Fragments and Reassemble.                                               *)

Content(m, size) == [i \in 1..size |-> <<m, i>>]

Header(m, len) ==
    [corr |-> m, type |-> "task", flags |-> {}, prio |-> 0, len |-> len % LenWidth,
     index |-> 0, total |-> 0]

\* Only whole chunks are counted.
FragmentCountWhole(size, chunk) == size \div chunk

FragmentCount(size, chunk) == (size + chunk - 1) \div chunk

\* The fragments of e; the length in their headers is that of e.
Fragments(e, chunk) ==
    LET n == FragmentCount(Len(e.data), chunk) IN
    IF n <= 1 THEN <<e>>
    ELSE [i \in 1..n |->
            [hdr |-> [e.hdr EXCEPT !.index = (i - 1) % FragWidth, !.total = n % FragWidth,
                                   !.flags = @ \cup {"fragment"} \cup (IF i = n THEN {"last"} ELSE {})],
             data |-> SubSeq(e.data, (i - 1) * chunk + 1,
                             IF i * chunk < Len(e.data) THEN i * chunk ELSE Len(e.data))]]

\* The flags stay as they were in the first fragment.
ReassembleKeepsFlags(frags) ==
    LET data == FlattenSeq([i \in DOMAIN frags |-> frags[i].data])
    IN  [hdr  |-> [frags[1].hdr EXCEPT !.index = 0, !.total = 0, !.len = Len(data) % LenWidth],
         data |-> data]

\* The first header without its marks, and all payloads in the order given.
Reassemble(frags) ==
    LET data == FlattenSeq([i \in DOMAIN frags |-> frags[i].data])
    IN  [hdr  |-> [frags[1].hdr EXCEPT !.flags = @ \ {"fragment", "last"}, !.index = 0, !.total = 0,
                                       !.len = Len(data) % LenWidth],
         data |-> data]

-----------------------------------------------------------------------------
(* Sending.                                                                *)

\* Somebody makes an envelope and splits it.
NewEnvelope(m) ==
    /\ origin[m] = NotSent
    /\ \E n \in Sizes, c \in Chunks :
          LET e == [hdr |-> Header(m, n), data |-> Content(m, n)]
          IN  /\ origin' = [origin EXCEPT ![m] = [size |-> n, chunk |-> c, env |-> e]]
              /\ out' = out \o Fragments(e, c)
    /\ UNCHANGED <<conn, connUp, grpc, bodies, heap, held, delivered>>

\* The header as it goes out, with the length of the payload.
MarshalBinary(h, len) == [hdr |-> [h EXCEPT !.len = len % LenWidth]]

\* WriteTo and Flush: header and payload are written.
ConnSend ==
    /\ out # <<>> /\ connUp
    /\ LET e == Head(out)
       IN  conn' = Append(conn, MarshalBinary(e.hdr, Len(e.data)))
                   \o [i \in DOMAIN e.data |-> [unit |-> e.data[i]]]
    /\ out' = Tail(out)
    /\ UNCHANGED <<origin, connUp, grpc, bodies, heap, held, delivered>>

\* A protobuf envelope: its header, and its body and the kind of that.
ProtoEnvelope(corr, type, flags, prio, index, total, kind, data) ==
    [corr |-> corr, type |-> type, flags |-> flags, prio |-> prio,
     index |-> index, total |-> total, kind |-> kind, data |-> data]

\* ToProtoEnvelope: the numbers get wider, the payload becomes the raw body.
ToProtoEnvelope(e) ==
    LET h == e.hdr
    IN  ProtoEnvelope(h.corr, h.type, h.flags, h.prio, h.index, h.total, "raw", e.data)

StreamSend ==
    /\ out # <<>>
    /\ grpc' = Append(grpc, ToProtoEnvelope(Head(out)))
    /\ out' = Tail(out)
    /\ UNCHANGED <<origin, conn, connUp, bodies, heap, held, delivered>>

\* The gRPC peer sends a body of its own; its header need not match the body.
PeerSend(k) ==
    /\ bodies < MaxBodies
    /\ \E p \in Priorities :
          grpc' = Append(grpc, ProtoEnvelope(k, "unknown", {}, p, 0, 0, k, <<<<k, 1>>>>))
    /\ bodies' = bodies + 1
    /\ UNCHANGED <<origin, out, conn, connUp, heap, held, delivered>>

-----------------------------------------------------------------------------
(* Receiving.                                                              *)

\* The message type that goes with a body.
TypeOf(kind) ==
    CASE kind = "invoke"                  -> "task"
      [] kind = "chunk"                   -> "dag"
      [] kind \in {"result", "tinyresult"} -> "result"
      [] kind \in {"ack", "control", "leasereq", "leaserep", "sessioninit", "sessionclose"} -> "control"

\* EncodeBody: a format byte and what the codec makes of the body.
EncodeBody(data) == <<<<"proto", 0>>>> \o data

\* A raw body is taken as it is, a body of another known kind is encoded and
\* says which type the envelope has, no body is no payload.
FromProtoEnvelope(p) ==
    LET data == CASE p.kind = "raw"  -> p.data
                  [] p.kind = "none" -> <<>>
                  [] OTHER           -> EncodeBody(p.data)
    IN  [hdr  |-> [corr |-> p.corr,
                   type |-> IF p.kind \in {"raw", "none"} THEN p.type ELSE TypeOf(p.kind),
                   flags |-> p.flags, prio |-> p.prio % ByteWidth, len |-> Len(data) % LenWidth,
                   index |-> p.index % FragWidth, total |-> p.total % FragWidth],
         data |-> data]

\* What the receiver keeps of an envelope: the header, and the buffer of its
\* payload, which is a new one.
Keep(e, ch) ==
    /\ heap' = Append(heap, e.data)
    /\ held' = held \cup {[ch |-> ch, hdr |-> e.hdr, buf |-> Len(heap) + 1]}

Units(bytes) == [i \in DOMAIN bytes |-> bytes[i].unit]

\* The payload is read into the buffer of the envelope before.
ReadFromReuse ==
    LET h    == Head(conn).hdr
        old  == {x.buf : x \in {y \in held : y.ch = "conn"}}
        data == Units(SubSeq(conn, 2, 1 + h.len))
    IN  IF old = {} THEN Keep([hdr |-> h, data |-> data], "conn")
        ELSE \E b \in old :
                /\ heap' = [heap EXCEPT ![b] = data]
                /\ held' = held \cup {[ch |-> "conn", hdr |-> h, buf |-> b]}

\* ReadFrom: header and payload are read, the payload into a new buffer.
ReadFrom ==
    LET h == Head(conn).hdr
    IN  Keep([hdr |-> h, data |-> Units(SubSeq(conn, 2, 1 + h.len))], "conn")

\* UnmarshalBinary finds the magic word, and the length is within the limit.
Readable(b) == "hdr" \in DOMAIN b /\ b.hdr.len <= LenLimit

ConnRecv ==
    /\ conn # <<>> /\ connUp
    /\ Readable(Head(conn))
    /\ ReadFrom
    /\ conn' = SubSeq(conn, 2 + Head(conn).hdr.len, Len(conn))
    /\ UNCHANGED <<origin, out, connUp, grpc, bodies, delivered>>

\* A bad magic word or a length beyond the limit: Recv fails, and the receiver
\* gives the connection up.
ConnRecvFails ==
    /\ conn # <<>> /\ connUp
    /\ ~Readable(Head(conn))
    /\ connUp' = FALSE /\ conn' = <<>>
    /\ UNCHANGED <<origin, out, grpc, bodies, heap, held, delivered>>

StreamRecv ==
    /\ grpc # <<>>
    /\ Keep(FromProtoEnvelope(Head(grpc)), "grpc")
    /\ grpc' = Tail(grpc)
    /\ UNCHANGED <<origin, out, conn, connUp, bodies, delivered>>

\* What is held of message m.
Pieces(m) == {x \in held : x.hdr.corr = m}

IsFragment(e) == "fragment" \in e.hdr.flags

\* There are as many fragments as their headers say.
Complete(pieces) ==
    pieces # {} /\ \A x \in pieces : IsFragment(x) => Cardinality(pieces) = x.hdr.total

\* An envelope that is no fragment is delivered as it is, fragments are joined in
\* the order of their index, with the contents that their buffers have now.
Deliver(m) ==
    /\ Complete(Pieces(m))
    /\ \E s \in SetToSeqs(Pieces(m)) :
          LET frags == [i \in DOMAIN s |-> [hdr |-> s[i].hdr, data |-> heap[s[i].buf]]] IN
          /\ \A i, j \in DOMAIN s : i < j => s[i].hdr.index <= s[j].hdr.index
          /\ delivered' = delivered \cup {IF IsFragment(s[1]) THEN Reassemble(frags) ELSE frags[1]}
    /\ held' = held \ Pieces(m)
    /\ heap' = IF held' = {} THEN <<>> ELSE heap
    /\ UNCHANGED <<origin, out, conn, connUp, grpc, bodies>>

-----------------------------------------------------------------------------

ENext ==
    \/ \E m \in Msgs : NewEnvelope(m)
    \/ ConnSend \/ StreamSend \/ ConnRecv \/ ConnRecvFails \/ StreamRecv
    \/ \E k \in BodyKinds : PeerSend(k)
    \/ \E m \in Msgs \cup BodyKinds : Deliver(m)

ESpec == EInit /\ [][ENext]_evars

-----------------------------------------------------------------------------
(* Properties.                                                             *)

Unit == (Msgs \cup BodyKinds \cup {"proto"}) \X Nat
MsgType == {"unknown", "task", "dag", "result", "control"}

EnvelopeHeader ==
    [corr : Msgs \cup BodyKinds, type : MsgType, flags : SUBSET {"fragment", "last"},
     prio : 0..(ByteWidth - 1), len : 0..(LenWidth - 1),
     index : 0..(FragWidth - 1), total : 0..(FragWidth - 1)]

Env == [hdr : EnvelopeHeader, data : Seq(Unit)]

ProtoMsg ==
    [corr : Msgs \cup BodyKinds, type : MsgType, flags : SUBSET {"fragment", "last"}, prio : Nat,
     index : 0..(FragWidth - 1), total : 0..(FragWidth - 1), kind : BodyKinds \cup {"raw"},
     data : Seq(Unit)]

ETypeOK ==
    /\ origin \in [Msgs -> {NotSent} \cup [size : Sizes, chunk : Chunks, env : Env]]
    /\ out \in Seq(Env) /\ grpc \in Seq(ProtoMsg) /\ bodies \in 0..MaxBodies
    /\ conn \in Seq([hdr : EnvelopeHeader] \cup [unit : Unit]) /\ connUp \in BOOLEAN
    /\ heap \in Seq(Seq(Unit)) /\ IsFiniteSet(held)
    /\ held \subseteq [ch : {"conn", "grpc"}, hdr : EnvelopeHeader, buf : 1..Len(heap)]
    /\ delivered \subseteq Env

\* The fragments of m can be told apart by their numbers, and each is of a
\* length that a Conn reads.
Fits(m) ==
    LET o == origin[m] IN
    /\ FragmentCount(o.size, o.chunk) < FragWidth
    /\ (IF o.size < o.chunk THEN o.size ELSE o.chunk) <= LenLimit

\* Whatever ways the fragments of a message have taken, and whatever was read
\* into the same variables in between, it is put together as it was.
MessagesIntact ==
    \A d \in delivered : d.hdr.corr \in Msgs /\ Fits(d.hdr.corr) => d = origin[d.hdr.corr].env

\* When nothing is under way any more and the connection has not failed, each
\* message that was sent has been delivered.
AllDelivered ==
    /\ out = <<>> /\ conn = <<>> /\ grpc = <<>> /\ connUp
    /\ \A m \in Msgs : ~Complete(Pieces(m))
    =>  \A m \in Msgs : origin[m] # NotSent /\ Fits(m) => origin[m].env \in delivered
=============================================================================
