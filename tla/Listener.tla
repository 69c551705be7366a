------------------------------ MODULE Listener ------------------------------
(***************************************************************************)
(* The part that the listeners of all transports have in common            *)
(* (pkg/transport/{udp,tcp,quic,mem,winpipe}): a goroutine of the          *)
(* transport that finds new sessions and puts them into newCh, the node's  *)
(* acceptLoop that takes them out, and Close with its two callers.         *)
(*                                                                         *)
(* UDPLinks and StreamLinks extend this module with what is their own.     *)
(***************************************************************************)
EXTENDS Integers, Sequences, FiniteSets, FiniteSetsExt, SequencesExt

CONSTANTS
    Addrs,      \* remote addresses, each with a session that is dialled
    Kinds,      \* transports to look at, of those NewByKind knows
    AcceptCap   \* newCh: 8

ASSUME ListenerAssumption ==
    /\ AcceptCap \in Nat \ {0}
    /\ Kinds \subseteq {"udp", "tcp", "quic", "mem", "winpipe"}

\* Who closes the listener: the goroutine that waits for the context, and the
\* function that StartFromConfig returns.
Closers == {"ctx", "stop"}

VARIABLES
    kind,       \* the transport
    sock,       \* what is listened on: a socket, or a name in mem's table
    closeCh,    \* is closeCh closed
    cancelled,  \* is the context done
    closer,     \* closer -> how far its Close has come
    loops,      \* the transport's loop and the node's acceptLoop
    newCh,      \* sessions not accepted yet, by address
    accepted,   \* sessions Accept has returned
    served,     \* those that the manager took and a handler reads
    panicked    \* the process has ended

lvars == <<kind, sock, closeCh, cancelled, closer, loops, newCh, accepted, served, panicked>>

\* Dialling mem puts the session into newCh by itself: there is no loop.
LInit ==
    /\ kind \in Kinds
    /\ sock = "open"
    /\ closeCh = FALSE
    /\ cancelled = FALSE
    /\ closer = [c \in Closers |-> "idle"]
    /\ loops = [l \in {"read", "accept"} |-> IF l = "read" /\ kind = "mem" THEN "ended" ELSE "running"]
    /\ newCh = <<>>
    /\ accepted = <<>>
    /\ served = {}
    /\ panicked = FALSE

-----------------------------------------------------------------------------
(* Channels.                                                               *)

\* A full channel makes room.
PutDropsOldest(ch, x, cap) == IF Len(ch) < cap THEN Append(ch, x) ELSE Append(Tail(ch), x)

\* select { case ch <- x: default: }
Put(ch, x, cap) == IF Len(ch) < cap THEN Append(ch, x) ELSE ch

-----------------------------------------------------------------------------
(* Accepting.                                                              *)

LoopRunning == ~panicked /\ loops["read"] = "running"

\* Accept, or for UDP the read, returns an error, whatever the error is: the
\* transport's loop ends for good, and the listener stays as it is.
LoopFails ==
    /\ LoopRunning
    /\ loops' = [loops EXCEPT !["read"] = "ended"]
    /\ UNCHANGED <<kind, sock, closeCh, cancelled, closer, newCh, accepted, served, panicked>>

\* It does so when the socket is closed, or for QUIC the context done.
LoopMustFail == sock = "closed" \/ (kind = "quic" /\ cancelled)

\* The loop ends with the first session that is not taken.
AcceptReturnsOnReject(a, taken) ==
    /\ ~panicked /\ loops["accept"] = "running"
    /\ newCh # <<>> /\ a = Head(newCh)
    /\ newCh' = Tail(newCh)
    /\ accepted' = Append(accepted, a)
    /\ served' = IF taken THEN served \cup {a} ELSE served
    /\ loops' = IF taken THEN loops ELSE [loops EXCEPT !["accept"] = "ended"]
    /\ UNCHANGED <<kind, sock, closeCh, cancelled, closer, panicked>>

\* Accept returns the session of a.  The manager takes it, and a handler is
\* started, or it is closed.
Accept(a, taken) ==
    /\ ~panicked /\ loops["accept"] = "running"
    /\ newCh # <<>> /\ a = Head(newCh)
    /\ newCh' = Tail(newCh)
    /\ accepted' = Append(accepted, a)
    /\ served' = IF taken THEN served \cup {a} ELSE served
    /\ UNCHANGED <<kind, sock, closeCh, cancelled, closer, loops, panicked>>

\* Accept returns an error, though newCh may hold sessions; acceptLoop returns.
AcceptFails ==
    /\ ~panicked /\ loops["accept"] = "running" /\ (cancelled \/ closeCh)
    /\ loops' = [loops EXCEPT !["accept"] = "ended"]
    /\ UNCHANGED <<kind, sock, closeCh, cancelled, closer, newCh, accepted, served, panicked>>

-----------------------------------------------------------------------------
(* Closing.                                                                *)

Cancel ==
    /\ ~cancelled
    /\ cancelled' = TRUE
    /\ UNCHANGED <<kind, sock, closeCh, closer, loops, newCh, accepted, served, panicked>>

\* Close looks whether closeCh is closed ...
CloseLooks(c) ==
    /\ ~panicked /\ closer[c] = "idle" /\ (c = "ctx" => cancelled)
    /\ closer' = [closer EXCEPT ![c] = IF closeCh THEN "conn" ELSE "close"]
    /\ UNCHANGED <<kind, sock, closeCh, cancelled, loops, newCh, accepted, served, panicked>>

\* ... closes it, which panics if someone was faster ...
CloseCloseCh(c) ==
    /\ ~panicked /\ closer[c] = "close"
    /\ panicked' = closeCh
    /\ closeCh' = TRUE
    /\ closer' = [closer EXCEPT ![c] = "conn"]
    /\ UNCHANGED <<kind, sock, cancelled, loops, newCh, accepted, served>>

\* The socket is left open.
CloseConnNot(c) ==
    /\ ~panicked /\ closer[c] = "conn"
    /\ closer' = [closer EXCEPT ![c] = "done"]
    /\ UNCHANGED <<kind, sock, closeCh, cancelled, loops, newCh, accepted, served, panicked>>

\* ... and closes the socket.  The name of a mem listener is taken out of the
\* table when the context is done, not by Close.
CloseConn(c) ==
    /\ ~panicked /\ closer[c] = "conn"
    /\ sock' = IF kind = "mem" /\ c = "stop" THEN sock ELSE "closed"
    /\ closer' = [closer EXCEPT ![c] = "done"]
    /\ UNCHANGED <<kind, closeCh, cancelled, loops, newCh, accepted, served, panicked>>

-----------------------------------------------------------------------------
(* Properties.                                                             *)

LsTypeOK ==
    /\ kind \in Kinds
    /\ sock \in {"open", "closed"}
    /\ closeCh \in BOOLEAN /\ cancelled \in BOOLEAN /\ panicked \in BOOLEAN
    /\ closer \in [Closers -> {"idle", "close", "conn", "done"}]
    /\ loops \in [{"read", "accept"} -> {"running", "ended"}]
    /\ newCh \in Seq(Addrs) /\ Len(newCh) <= AcceptCap
    /\ accepted \in Seq(Addrs)
    /\ served \in SUBSET Addrs

\* An address gets one session at most, so no two handlers read one queue or
\* one stream.
OneSession == IsInjective(accepted \o newCh)

\* A session that waits in newCh is accepted, whatever becomes of those before
\* it, unless the listener is shut down.
WaitingIsAccepted ==
    \A a \in Addrs : a \in ToSet(newCh) ~> a \in ToSet(accepted) \/ cancelled \/ closeCh

\* Close ends both loops, whichever of its two callers comes first or second
\* and whatever is still arriving.
CloseEndsLoops ==
    closeCh ~> panicked \/ \A l \in DOMAIN loops : loops[l] = "ended"
=============================================================================
