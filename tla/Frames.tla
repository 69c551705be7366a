------------------------------- MODULE Frames -------------------------------
(***************************************************************************)
(* What travels on one session of a stream transport                       *)
(* (pkg/transport/{tcp,quic,mem,winpipe}): OpenStream, and frames with a   *)
(* length prefix that several goroutines write and one reads, through      *)
(* buffers, while either end may close.                                    *)
(*                                                                         *)
(* The two directions are alike; frames are followed from the end that     *)
(* dialled to the end that accepted.  A byte is known by its frame and its *)
(* place in it, so that a reader who takes the wrong bytes for a length is *)
(* caught.  Sizes are scaled: a prefix of PrefixLen bytes instead of 4, a  *)
(* buffer of BufLen instead of 4096.                                       *)
(***************************************************************************)
EXTENDS Integers, Sequences, FiniteSets, FiniteSetsExt, SequencesExt

CONSTANTS
    FrameKinds, \* transports to look at
    Writers,    \* goroutines that send on the session: dialLoop, workers
    PrefixLen,  \* bytes of the length prefix: 4
    BufLen,     \* size of bufio's buffers: 4096
    FrameSizes, \* payload sizes that are sent
    FrameLimit, \* largest size a reader accepts: 1 << 24
    MaxFrames   \* bound: frames sent

ASSUME FramesAssumption ==
    /\ FrameKinds \subseteq {"tcp", "quic", "mem", "winpipe"}
    /\ {PrefixLen, MaxFrames} \subseteq Nat \ {0}
    /\ BufLen \in Nat /\ BufLen > PrefixLen
    /\ FrameSizes \subseteq Nat /\ FrameLimit \in Nat
    /\ IsFiniteSet(Writers) /\ Writers # {} /\ "free" \notin Writers

VARIABLES
    over,       \* the transport
    ends,       \* is each end open
    opened,     \* number of streams opened
    ctrl,       \* the stream the dialled session has cached, or 0
    writer,     \* what each writer is doing
    mu,         \* stream -> who holds the lock of SendBytes
    wbuf,       \* stream -> bytes in the write buffer
    wire,       \* stream -> writes that were not read yet
    reader,     \* the handler that reads at the other end
    other,      \* another goroutine there that opens the stream
    reopened,   \* the session's buffers were made again while in use (history)
    frames      \* stream -> frames whose sending began (history)

fvars == <<over, ends, opened, ctrl, writer, mu, wbuf, wire, reader, other, reopened, frames>>

Streams == 1..Cardinality(Writers)

\* Sessions of mem and winpipe make their buffers when the stream is opened.
Lazy == over \in {"mem", "winpipe"}

AtRest == [at |-> "idle"]

\* A TCP session has its buffers from the start.
FInit ==
    /\ over \in FrameKinds
    /\ ends = [dialled |-> "open", accepted |-> "open"]
    /\ opened = IF over = "tcp" THEN 1 ELSE 0
    /\ ctrl = IF over = "tcp" THEN 1 ELSE 0
    /\ writer = [w \in Writers |-> AtRest]
    /\ mu = [s \in Streams |-> "free"]
    /\ wbuf = [s \in Streams |-> <<>>]
    /\ wire = [s \in Streams |-> <<>>]
    /\ reader = [at |-> "open", buf |-> <<>>, have |-> <<>>, need |-> 0, got |-> <<>>]
    /\ other = "idle"
    /\ reopened = FALSE
    /\ frames = [s \in Streams |-> <<>>]

Broken == ends # [dialled |-> "open", accepted |-> "open"]

\* Either end closes: a context is done, or its node drops the session.
CloseEnd(e) ==
    /\ ends[e] = "open"
    /\ ends' = [ends EXCEPT ![e] = "closed"]
    /\ UNCHANGED <<over, opened, ctrl, writer, mu, wbuf, wire, reader, other, reopened, frames>>

-----------------------------------------------------------------------------
(* OpenStream at the end that dialled.                                     *)

Begun == MapThenSumSet(LAMBDA s : Len(frames[s]), Streams)

\* The cached stream, if there is one.
OpenLooks(w) ==
    /\ writer[w].at = "idle" /\ ends["dialled"] = "open"
    /\ Begun < MaxFrames
    /\ writer' = [writer EXCEPT ![w] =
           IF ctrl = 0 THEN [at |-> "none"] ELSE [at |-> "ready", stream |-> ctrl]]
    /\ UNCHANGED <<over, ends, opened, ctrl, mu, wbuf, wire, reader, other, reopened, frames>>

\* QUIC: a stream is opened, without the session's lock ...
OpenStreamSync(w) ==
    /\ over = "quic" /\ writer[w].at = "none" /\ ~Broken
    /\ opened < Cardinality(Streams)
    /\ opened' = opened + 1
    /\ writer' = [writer EXCEPT ![w] = [at |-> "opened", stream |-> opened + 1]]
    /\ UNCHANGED <<over, ends, ctrl, mu, wbuf, wire, reader, other, reopened, frames>>

\* ... wrapped, and cached in place of one that someone else has cached meanwhile.
CacheStream(w) ==
    /\ writer[w].at = "opened"
    /\ ctrl' = writer[w].stream
    /\ writer' = [writer EXCEPT ![w].at = "ready"]
    /\ UNCHANGED <<over, ends, opened, mu, wbuf, wire, reader, other, reopened, frames>>

\* wrapStream finds no reader, writer or Close in what the library returned; the
\* stream stays open.
WrapFails(w) ==
    /\ writer[w].at = "opened"
    /\ writer' = [writer EXCEPT ![w] = AtRest]
    /\ UNCHANGED <<over, ends, opened, ctrl, mu, wbuf, wire, reader, other, reopened, frames>>

\* mem and winpipe: the session gets new buffers; what the old ones held is gone.
SetBuffers(w) ==
    /\ Lazy /\ writer[w].at = "none"
    /\ opened' = 1
    /\ ctrl' = 1
    /\ wbuf' = [wbuf EXCEPT ![1] = <<>>]
    /\ reopened' = (reopened \/ ctrl # 0)
    /\ writer' = [writer EXCEPT ![w] = [at |-> "ready", stream |-> 1]]
    /\ UNCHANGED <<over, ends, mu, wire, reader, other, frames>>

-----------------------------------------------------------------------------
(* SendBytes: under the lock, the prefix and the payload go into the write *)
(* buffer, which is written when it overflows and at the end.              *)

Bytes(f) == [i \in 1..(PrefixLen + f.size) |-> [frame |-> f, at |-> i]]
Prefix(f) == SubSeq(Bytes(f), 1, PrefixLen)
Payload(f) == SubSeq(Bytes(f), PrefixLen + 1, PrefixLen + f.size)

\* A write to mem's pipe returns when everything was read.
WriteReturned(s) == over = "mem" => wire[s] = <<>>

\* bufio.Writer.Write: a buffer that overflows is filled up and written, and
\* what still does not fit is written directly.
Write(s, bytes) ==
    LET all  == wbuf[s] \o bytes
        rest == SubSeq(all, BufLen + 1, Len(all))
    IN  IF Len(all) <= BufLen
        THEN wbuf' = [wbuf EXCEPT ![s] = all] /\ UNCHANGED wire
        ELSE /\ wire' = [wire EXCEPT ![s] = @ \o <<SubSeq(all, 1, BufLen)>>
                                             \o (IF Len(rest) > BufLen THEN <<rest>> ELSE <<>>)]
             /\ wbuf' = [wbuf EXCEPT ![s] = IF Len(rest) > BufLen THEN <<>> ELSE rest]

\* The prefix is written before the lock is taken.
SendPrefixUnlocked(w, n) ==
    /\ writer[w].at = "ready" /\ ~Broken
    /\ LET s == writer[w].stream
           f == [stream |-> s, no |-> Len(frames[s]) + 1, size |-> n]
       IN  /\ Write(s, Prefix(f))
           /\ frames' = [frames EXCEPT ![s] = Append(@, f)]
           /\ writer' = [writer EXCEPT ![w] = [at |-> "prefix", stream |-> s, frame |-> f]]
    /\ UNCHANGED <<over, ends, opened, ctrl, mu, reader, other, reopened>>

\* The lock and the prefix.
SendPrefix(w, n) ==
    /\ writer[w].at = "ready" /\ ~Broken
    /\ LET s == writer[w].stream
           f == [stream |-> s, no |-> Len(frames[s]) + 1, size |-> n]
       IN  /\ mu[s] = "free"
           /\ mu' = [mu EXCEPT ![s] = w]
           /\ Write(s, Prefix(f))
           /\ frames' = [frames EXCEPT ![s] = Append(@, f)]
           /\ writer' = [writer EXCEPT ![w] = [at |-> "prefix", stream |-> s, frame |-> f]]
    /\ UNCHANGED <<over, ends, opened, ctrl, reader, other, reopened>>

SendPayload(w) ==
    /\ writer[w].at = "prefix" /\ WriteReturned(writer[w].stream) /\ ~Broken
    /\ Write(writer[w].stream, Payload(writer[w].frame))
    /\ writer' = [writer EXCEPT ![w].at = "payload"]
    /\ UNCHANGED <<over, ends, opened, ctrl, mu, reader, other, reopened, frames>>

Flush(w) ==
    /\ writer[w].at = "payload" /\ WriteReturned(writer[w].stream) /\ ~Broken
    /\ LET s == writer[w].stream IN
       /\ wire' = [wire EXCEPT ![s] = IF wbuf[s] = <<>> THEN @ ELSE Append(@, wbuf[s])]
       /\ wbuf' = [wbuf EXCEPT ![s] = <<>>]
    /\ writer' = [writer EXCEPT ![w].at = "flushed"]
    /\ UNCHANGED <<over, ends, opened, ctrl, mu, reader, other, reopened, frames>>

\* SendBytes returns and unlocks; an error may end it, or OpenStream, anywhere.
SendReturns(w) ==
    /\ writer[w].at # "idle"
    /\ Broken \/ (writer[w].at = "flushed" /\ WriteReturned(writer[w].stream))
    /\ mu' = [s \in Streams |-> IF mu[s] = w THEN "free" ELSE mu[s]]
    /\ writer' = [writer EXCEPT ![w] = AtRest]
    /\ UNCHANGED <<over, ends, opened, ctrl, wbuf, wire, reader, other, reopened, frames>>

-----------------------------------------------------------------------------
(* RecvBytes at the other end.  QUIC's AcceptStream returns the first      *)
(* stream, and not before something was sent; the others have one.         *)

Reading == ends["accepted"] = "open" /\ reader.at \in {"prefix", "payload"}

\* OpenStream of HandleSession.
OpenReader ==
    /\ ends["accepted"] = "open" /\ reader.at = "open"
    /\ over = "quic" => \E s \in Streams : wire[s] # <<>>
    /\ reader' = [reader EXCEPT !.at = "prefix", !.need = PrefixLen]
    /\ UNCHANGED <<over, ends, opened, ctrl, writer, mu, wbuf, wire, other, reopened, frames>>

\* A worker that sends the other way has seen that there are no buffers ...
OtherLooks ==
    /\ Lazy /\ ends["accepted"] = "open" /\ reader.at = "open" /\ other = "idle"
    /\ other' = "none"
    /\ UNCHANGED <<over, ends, opened, ctrl, writer, mu, wbuf, wire, reader, reopened, frames>>

\* ... and makes them, though the handler may have made some and be reading.
OtherSets ==
    /\ other = "none"
    /\ other' = "done"
    /\ reader' = [reader EXCEPT !.buf = <<>>]
    /\ reopened' = (reopened \/ reader.at # "open")
    /\ UNCHANGED <<over, ends, opened, ctrl, writer, mu, wbuf, wire, frames>>

\* bufio.Reader: an empty buffer is filled by one read.  mem's pipe hands over
\* bytes of one write; the others any part of what has arrived.
Fill ==
    /\ Reading /\ reader.need > 0 /\ reader.buf = <<>> /\ wire[1] # <<>>
    /\ LET here  == IF over = "mem" THEN Head(wire[1]) ELSE FlattenSeq(wire[1])
           later == IF over = "mem" THEN Tail(wire[1]) ELSE <<>>
           most  == Min({BufLen, Len(here)})
       IN  \E n \in (IF over = "mem" THEN {most} ELSE 1..most) :
             /\ reader' = [reader EXCEPT !.buf = SubSeq(here, 1, n)]
             /\ wire' = [wire EXCEPT ![1] =
                    (IF n < Len(here) THEN <<SubSeq(here, n + 1, Len(here))>> ELSE <<>>) \o later]
    /\ UNCHANGED <<over, ends, opened, ctrl, writer, mu, wbuf, other, reopened, frames>>

\* What is in the buffer, up to what is needed.
Taken(r) ==
    LET n == Min({r.need, Len(r.buf)})
    IN  [r EXCEPT !.buf = SubSeq(@, n + 1, Len(@)), !.have = @ \o SubSeq(r.buf, 1, n), !.need = @ - n]

\* The length.  Bytes that are no prefix leave the reader with a length out of
\* nowhere; one that is too large ends the handler.
Length(r) ==
    LET f == r.have[1].frame IN
    IF r.have # Prefix(f) THEN [r EXCEPT !.at = "lost"]
    ELSE IF f.size > FrameLimit THEN [r EXCEPT !.at = "ended"]
    ELSE [r EXCEPT !.at = "payload", !.have = <<>>, !.need = f.size]

\* One Read everywhere.
RecvPrefixOnce ==
    /\ Reading /\ reader.at = "prefix" /\ reader.buf # <<>>
    /\ reader' = Length(Taken(reader))
    /\ UNCHANGED <<over, ends, opened, ctrl, writer, mu, wbuf, wire, other, reopened, frames>>

\* The prefix: io.ReadFull, but a single Read of mem and winpipe.
RecvPrefix ==
    /\ Reading /\ reader.at = "prefix" /\ reader.buf # <<>>
    /\ reader' = LET r == Taken(reader) IN IF r.need = 0 \/ Lazy THEN Length(r) ELSE r
    /\ UNCHANGED <<over, ends, opened, ctrl, writer, mu, wbuf, wire, other, reopened, frames>>

\* The payload: io.ReadFull.  Its bytes are what RecvBytes returns.
RecvPayload ==
    /\ Reading /\ reader.at = "payload" /\ (reader.need > 0 => reader.buf # <<>>)
    /\ reader' = LET r == Taken(reader) IN
                 IF r.need > 0 THEN r
                 ELSE [r EXCEPT !.at = "prefix", !.need = PrefixLen, !.have = <<>>,
                                !.got = Append(@, r.have)]
    /\ UNCHANGED <<over, ends, opened, ctrl, writer, mu, wbuf, wire, other, reopened, frames>>

\* This end has closed, or the other has and everything was read.
RecvFails ==
    /\ reader.at \in {"open", "prefix", "payload"}
    /\ \/ ends["accepted"] = "closed"
       \/ ends["dialled"] = "closed" /\ wire[1] = <<>> /\ reader.buf = <<>>
    /\ reader' = [reader EXCEPT !.at = "ended"]
    /\ UNCHANGED <<over, ends, opened, ctrl, writer, mu, wbuf, wire, other, reopened, frames>>

-----------------------------------------------------------------------------

FNext ==
    \/ \E e \in {"dialled", "accepted"} : CloseEnd(e)
    \/ \E w \in Writers :
          \/ OpenLooks(w) \/ OpenStreamSync(w) \/ CacheStream(w) \/ WrapFails(w)
          \/ SetBuffers(w)
          \/ \E n \in FrameSizes : SendPrefix(w, n)
          \/ SendPayload(w) \/ Flush(w) \/ SendReturns(w)
    \/ OpenReader \/ OtherLooks \/ OtherSets
    \/ Fill \/ RecvPrefix \/ RecvPayload \/ RecvFails

FSpec == FInit /\ [][FNext]_fvars

-----------------------------------------------------------------------------
(* Properties.                                                             *)

Frame == [stream : Streams, no : Nat, size : FrameSizes]
Byte == [frame : Frame, at : Nat \ {0}]

\* A writer has a stream once it was opened, and a frame while it sends it.
WriterState ==
    [at : {"idle", "none"}] \cup [at : {"opened", "ready"}, stream : Streams]
        \cup [at : {"prefix", "payload", "flushed"}, stream : Streams, frame : Frame]

ReaderState ==
    [at : {"open", "prefix", "payload", "ended", "lost"},
     buf : Seq(Byte), have : Seq(Byte), need : Nat, got : Seq(Seq(Byte))]

FTypeOK ==
    /\ over \in FrameKinds
    /\ ends \in [{"dialled", "accepted"} -> {"open", "closed"}]
    /\ opened \in 0..Cardinality(Writers) /\ ctrl \in 0..Cardinality(Writers)
    /\ writer \in [Writers -> WriterState]
    /\ mu \in [Streams -> {"free"} \cup Writers]
    /\ wbuf \in [Streams -> Seq(Byte)] /\ \A s \in Streams : Len(wbuf[s]) <= BufLen
    /\ wire \in [Streams -> Seq(Seq(Byte))]
    /\ reader \in ReaderState /\ Len(reader.buf) <= BufLen
    /\ other \in {"idle", "none", "done"} /\ reopened \in BOOLEAN
    /\ frames \in [Streams -> Seq(Frame)]

\* However writers, buffers, short reads and an end that closes half-way
\* interleave, RecvBytes returns what was sent on the stream it reads, whole and
\* in the order in which SendBytes took the lock, and never takes other bytes
\* for a length.  Not so for winpipe, whose reader takes a short read for a
\* prefix, nor where the buffers of mem were made twice.
FramesIntact ==
    over # "winpipe" /\ ~reopened =>
        /\ reader.at # "lost"
        /\ Len(reader.got) <= Len(frames[1])
        /\ \A i \in DOMAIN reader.got : reader.got[i] = Payload(frames[1][i])
=============================================================================
