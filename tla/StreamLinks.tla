----------------------------- MODULE StreamLinks -----------------------------
(***************************************************************************)
(* The connections of the stream transports                                *)
(* (pkg/transport/{tcp,quic,mem,winpipe}): dialling, the loop that accepts *)
(* connections, the queue between it and the node's acceptLoop, and what   *)
(* becomes of connections when the queue is full or the listener is shut   *)
(* down.  What travels on a connection is in Frames.                       *)
(***************************************************************************)
EXTENDS Listener

VARIABLES
    near,       \* address -> the end that dialled
    far,        \* address -> the end at the listener
    hasClose    \* does a session know how to close its connection

svars == <<near, far, hasClose>>

\* A QUIC session tries four Close methods on its connection; with none of them
\* its own Close has no effect.
SInit ==
    /\ hasClose \in IF kind = "quic" THEN BOOLEAN ELSE {TRUE}
    /\ near = [a \in Addrs |-> "no"]
    /\ far = [a \in Addrs |-> "no"]

\* What the Close of a session leaves of its end.
ClosedEnd == IF hasClose THEN "closed" ELSE "open"

-----------------------------------------------------------------------------
(* Actions.                                                                *)

\* net.Dial: the connection waits for the transport's loop.
Connect(a) ==
    /\ kind # "mem" /\ near[a] = "no" /\ sock = "open"
    /\ near' = [near EXCEPT ![a] = "open"]
    /\ far' = [far EXCEPT ![a] = "backlog"]
    /\ UNCHANGED <<lvars, hasClose>>

\* Dialling mem makes both ends of the pipe and puts one into newCh, or closes
\* it; the name may be that of a listener which was closed.
MemDial(a) ==
    /\ kind = "mem" /\ near[a] = "no" /\ sock = "open"
    /\ near' = [near EXCEPT ![a] = "open"]
    /\ far' = [far EXCEPT ![a] = IF Len(newCh) < AcceptCap THEN "open" ELSE ClosedEnd]
    /\ newCh' = Put(newCh, a, AcceptCap)
    /\ UNCHANGED <<kind, sock, closeCh, cancelled, closer, loops, accepted, served, panicked, hasClose>>

\* A session that finds newCh full is dropped, not closed.
AcceptConnDrops(a) ==
    /\ LoopRunning /\ sock = "open" /\ far[a] = "backlog"
    /\ newCh' = Put(newCh, a, AcceptCap)
    /\ far' = [far EXCEPT ![a] = "open"]
    /\ UNCHANGED <<kind, sock, closeCh, cancelled, closer, loops, accepted, served, panicked,
                   near, hasClose>>

\* The transport's acceptLoop: into newCh, or closed if that is full.
AcceptConn(a) ==
    /\ LoopRunning /\ sock = "open" /\ far[a] = "backlog"
    /\ newCh' = Put(newCh, a, AcceptCap)
    /\ far' = [far EXCEPT ![a] = IF Len(newCh) < AcceptCap THEN "open" ELSE ClosedEnd]
    /\ UNCHANGED <<kind, sock, closeCh, cancelled, closer, loops, accepted, served, panicked,
                   near, hasClose>>

\* What this listener does as every listener does.  A session that the manager
\* does not take is closed; a connection still waiting goes with the socket.
SAccepts ==
    /\ \/ AcceptFails /\ UNCHANGED far
       \/ \E a \in Addrs, taken \in BOOLEAN :
             /\ Accept(a, taken)
             /\ far' = IF taken THEN far ELSE [far EXCEPT ![a] = ClosedEnd]
    /\ UNCHANGED <<near, hasClose>>

SLoopFails == LoopFails /\ UNCHANGED svars

SCloses(c) ==
    /\ \/ CloseCloseCh(c) /\ UNCHANGED far
       \/ /\ CloseConn(c)
          /\ far' = [a \in Addrs |-> IF far[a] = "backlog" /\ sock' = "closed" THEN "closed" ELSE far[a]]
    /\ UNCHANGED <<near, hasClose>>

SShutdown == (Cancel \/ \E c \in Closers : CloseLooks(c)) /\ UNCHANGED svars

\* The end that dialled closes: its context is done, or its node drops it.
Hangup(a) ==
    /\ near[a] = "open"
    /\ near' = [near EXCEPT ![a] = ClosedEnd]
    /\ UNCHANGED <<lvars, far, hasClose>>

SNext ==
    \/ \E a \in Addrs : Connect(a) \/ MemDial(a) \/ AcceptConn(a) \/ Hangup(a)
    \/ SAccepts \/ SLoopFails \/ SShutdown
    \/ \E c \in Closers : SCloses(c)

-----------------------------------------------------------------------------
(* Properties.                                                             *)

STypeOK ==
    /\ near \in [Addrs -> {"no", "open", "closed"}]
    /\ far \in [Addrs -> {"no", "backlog", "open", "closed"}]
    /\ hasClose \in BOOLEAN

\* The loop has ended, with an error or the listener, before it came to the
\* connection of a: nobody will accept it.
Stranded(a) == far[a] = "backlog" /\ loops["read"] = "ended"

\* A session that was dialled is served in the end, or its dialler can tell that
\* it is not: it does not stay open with nobody at the other end, unless the
\* listener is shut down, sessions cannot close, or an error of Accept ended the
\* loop for good while the listener stays open.
DialledIsServed ==
    hasClose => \A a \in Addrs :
        near[a] = "open" ~> a \in served \/ far[a] = "closed" \/ near[a] = "closed"
                            \/ Stranded(a) \/ cancelled \/ closeCh
=============================================================================
