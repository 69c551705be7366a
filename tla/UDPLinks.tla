------------------------------ MODULE UDPLinks ------------------------------
(***************************************************************************)
(* The UDP transport (pkg/transport/udp/udp.go): a listener that shares    *)
(* one socket among the sessions of all remote addresses, the accept loop  *)
(* and the handlers that use it, and the sessions that other nodes dial.   *)
(*                                                                         *)
(* Datagrams are numbered by their sender.  The network may lose, repeat,  *)
(* delay and reorder them: what was sent may arrive at any time, any       *)
(* number of times, or never.  Channels are bounded, and a full one drops  *)
(* what is put into it.  A channel of datagrams is never closed, so that a *)
(* handler which waits for one waits for good.                             *)
(***************************************************************************)
EXTENDS Listener

CONSTANTS
    InCap,      \* rxCh of an inbound session: 32
    OutCap,     \* rxCh of a dialled session: 16
    MaxSends,   \* bound: datagrams sent, by all
    MaxArrivals \* bound: datagrams that arrive, at all ends together

ASSUME CapsAssumption == {InCap, OutCap, MaxSends, MaxArrivals} \subseteq Nat \ {0}

VARIABLES
    sessions,   \* addresses in the listener's table
    in,         \* address -> receiving side of its inbound session
    dialled,    \* address -> the session at the other end
    out,        \* address -> receiving side of that session
    sent,       \* address -> datagrams sent to the listener
    replies     \* address -> datagrams sent by the inbound session

uvars  == <<sessions, in, dialled, out, sent, replies>>

-----------------------------------------------------------------------------
(* State.                                                                  *)

\* rx is the channel, got what RecvBytes has returned; arrived, the datagrams
\* read from the socket so far, is history.
Receiver == [rx : Seq(Nat), got : Seq(Nat), arrived : Seq(Nat)]

Fresh == [rx |-> <<>>, got |-> <<>>, arrived |-> <<>>]

UInit ==
    /\ sessions = {}
    /\ in = [a \in Addrs |-> Fresh]
    /\ dialled = [a \in Addrs |-> "no"]
    /\ out = [a \in Addrs |-> Fresh]
    /\ sent = [a \in Addrs |-> 0]
    /\ replies = [a \in Addrs |-> 0]

Sends    == MapThenSumSet(LAMBDA a : sent[a] + replies[a], Addrs)
Arrivals == MapThenSumSet(LAMBDA a : Len(in[a].arrived) + Len(out[a].arrived), Addrs)

-----------------------------------------------------------------------------
(* Channels.                                                               *)

\* The payload is queued without a copy: what is queued lies in the buffer that
\* the next datagram is read into.
QueuedInPlace(r, n, cap) ==
    [r EXCEPT !.rx = [i \in DOMAIN Put(@, n, cap) |-> n], !.arrived = Append(@, n)]

\* A copy of the payload is queued.
Queued(r, n, cap) == [r EXCEPT !.rx = Put(@, n, cap), !.arrived = Append(@, n)]

Received(r) == [r EXCEPT !.rx = Tail(@), !.got = Append(@, Head(r.rx))]

-----------------------------------------------------------------------------
(* The listener.                                                           *)

\* The table is not written.
DispatchUnlisted(a, n) ==
    /\ newCh' = IF a \in sessions THEN newCh ELSE Put(newCh, a, AcceptCap)
    /\ in' = [in EXCEPT ![a] = Queued(@, n, InCap)]
    /\ UNCHANGED sessions

\* Under the listener's lock: an address that is new gets an entry, and a
\* session for Accept unless newCh is full; the datagram is queued either way.
Dispatch(a, n) ==
    /\ sessions' = sessions \cup {a}
    /\ newCh' = IF a \in sessions THEN newCh ELSE Put(newCh, a, AcceptCap)
    /\ in' = [in EXCEPT ![a] = Queued(@, n, InCap)]

\* readLoop reads a datagram, one of those sent so far.
ReadFromUDP(a) ==
    /\ LoopRunning /\ sock = "open"
    /\ Arrivals < MaxArrivals
    /\ \E n \in 1..sent[a] : Dispatch(a, n)
    /\ UNCHANGED <<kind, sock, closeCh, cancelled, closer, loops, accepted, served, panicked,
                   dialled, out, sent, replies>>

\* RecvBytes of a handler.
RecvBytes(a) ==
    /\ ~panicked /\ a \in served /\ in[a].rx # <<>>
    /\ in' = [in EXCEPT ![a] = Received(@)]
    /\ UNCHANGED <<lvars, sessions, dialled, out, sent, replies>>

\* SendBytes of the inbound session of a, by way of the listener's socket.
WriteToUDP(a) ==
    /\ ~panicked /\ a \in served /\ sock = "open"
    /\ Sends < MaxSends
    /\ replies' = [replies EXCEPT ![a] = @ + 1]
    /\ UNCHANGED <<lvars, sessions, in, dialled, out, sent>>

\* What the listener does as every listener does: closing an inbound session
\* that the manager does not take has no effect.
UAccepts == (AcceptFails \/ \E a \in Addrs, taken \in BOOLEAN : Accept(a, taken)) /\ UNCHANGED uvars
ULoopFails == LoopFails /\ UNCHANGED uvars
UCloses(c) == (CloseCloseCh(c) \/ CloseConn(c)) /\ UNCHANGED uvars
UShutdown == (Cancel \/ \E c \in Closers : CloseLooks(c)) /\ UNCHANGED uvars

-----------------------------------------------------------------------------
(* The sessions at the other end.                                          *)

Dial(a) ==
    /\ dialled[a] = "no"
    /\ dialled' = [dialled EXCEPT ![a] = "open"]
    /\ UNCHANGED <<lvars, sessions, in, out, sent, replies>>

SendBytes(a) ==
    /\ dialled[a] \in {"open", "deaf"}
    /\ Sends < MaxSends
    /\ sent' = [sent EXCEPT ![a] = @ + 1]
    /\ UNCHANGED <<lvars, sessions, in, dialled, out, replies>>

\* recvLoop
Read(a) ==
    /\ dialled[a] = "open"
    /\ Arrivals < MaxArrivals
    /\ \E n \in 1..replies[a] : out' = [out EXCEPT ![a] = Queued(@, n, OutCap)]
    /\ UNCHANGED <<lvars, sessions, in, dialled, sent, replies>>

\* The other end of a connected socket is gone: recvLoop ends with the error,
\* and the session stays as it is, able to send and deaf.
ReadRefused(a) ==
    /\ dialled[a] = "open" /\ sock = "closed" /\ sent[a] > 0
    /\ dialled' = [dialled EXCEPT ![a] = "deaf"]
    /\ UNCHANGED <<lvars, sessions, in, out, sent, replies>>

\* RecvBytes of the handler there, which still gets what is queued when the
\* session is closed.
RecvReply(a) ==
    /\ out[a].rx # <<>>
    /\ out' = [out EXCEPT ![a] = Received(@)]
    /\ UNCHANGED <<lvars, sessions, in, dialled, sent, replies>>

\* Close closes the socket, once, and with it recvLoop ends.
CloseDialled(a) ==
    /\ dialled[a] \in {"open", "deaf"}
    /\ dialled' = [dialled EXCEPT ![a] = "closed"]
    /\ UNCHANGED <<lvars, sessions, in, out, sent, replies>>

-----------------------------------------------------------------------------

UNext ==
    \/ \E a \in Addrs :
          \/ ReadFromUDP(a) \/ RecvBytes(a) \/ WriteToUDP(a)
          \/ Dial(a) \/ SendBytes(a) \/ Read(a) \/ ReadRefused(a)
          \/ RecvReply(a) \/ CloseDialled(a)
    \/ UAccepts \/ ULoopFails \/ UShutdown
    \/ \E c \in Closers : UCloses(c)

-----------------------------------------------------------------------------
(* Properties.                                                             *)

UTypeOK ==
    /\ sessions \in SUBSET Addrs
    /\ in \in [Addrs -> Receiver] /\ out \in [Addrs -> Receiver]
    /\ \A a \in Addrs : Len(in[a].rx) <= InCap /\ Len(out[a].rx) <= OutCap
    /\ dialled \in [Addrs -> {"no", "open", "deaf", "closed"}]
    /\ sent \in [Addrs -> Nat] /\ replies \in [Addrs -> Nat]

IsThinned(s, t) ==
    \E at \in [DOMAIN s -> DOMAIN t] :
        \A i, j \in DOMAIN s : s[i] = t[at[i]] /\ (i < j => at[i] < at[j])

\* What one receives is what arrived for it, some of it left out: the node adds
\* no reordering, no repetition and no mixing of addresses or payloads of its own.
NoneAltered ==
    \A a \in Addrs : \A r \in {in[a], out[a]} : IsThinned(r.got \o r.rx, r.arrived)

\* What arrives before anyone reads is not lost up to the length of the queue:
\* in particular the handler's first message is the first that arrived, which
\* HandleSession relies on for the Hello.
FirstKept ==
    \A a \in Addrs :
        LET r == in[a]
            n == IF Len(r.arrived) < InCap THEN Len(r.arrived) ELSE InCap
        IN  IsPrefix(SubSeq(r.arrived, 1, n), r.got \o r.rx)
=============================================================================
