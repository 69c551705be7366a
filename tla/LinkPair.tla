------------------------------ MODULE LinkPair ------------------------------
(***************************************************************************)
(* Two nodes that connect to each other over several links at once, each   *)
(* with its own transport manager (pkg/transport/manager.go), and neither  *)
(* the network nor a node fails.                                           *)
(*                                                                         *)
(* The sessions are the two ends of the links.  The ids of the nodes are   *)
(* disjoint, so the one table of SessionManager holds the tables of both.  *)
(* A dialler sends Hello, the other end rebinds and answers HelloAck, and  *)
(* then the dialler rebinds.  An end that is closed takes the other along. *)
(***************************************************************************)
EXTENDS SessionManager

CONSTANTS
    Other,      \* end -> the other end of its link, whose other end it is
    Diallers    \* the ends whose node has dialled, one of each link

\* The dialler has got past AddSession, and so has sent its Hello.
HelloSent(s) == stage[s] \notin {"none", "new"}

\* The other end has rebound, and then answers.
AckSent(s) == id[s] = Key[s]

\* An end learns that the other one was closed.
Reset(s) ==
    /\ stage[Other[s]] # "none" /\ ~open[Other[s]]
    /\ HangUp(s)

\* The first message has arrived.  The other end gives its own id.
FirstMessage(s) ==
    \/ s \in Diallers /\ AckSent(Other[s]) /\ HelloAck(s, Key[s])
    \/ s \notin Diallers /\ HelloSent(Other[s]) /\ Hello(s)

PNext == \E s \in Sessions :
    \/ Connect(s) \/ AddSession(s) \/ FirstMessage(s) \/ Rebind(s)
    \/ CloseDue(s) \/ Reset(s) \/ SessionEnds(s)

PSpec == SInit /\ [][PNext]_svars

-----------------------------------------------------------------------------
(* Properties.                                                             *)

\* Every handshake is over and every close has been done and noticed.
Settled ==
    /\ \A s \in Sessions : stage[s] \in {"serving", "ended"}
    /\ \A s \in Sessions : open[s] = open[Other[s]]
    /\ closing = {}

\* The two managers choose independently, but the same link: when all is done
\* one link is open and is what both nodes find for each other.  Were their
\* choices to differ, each would close the link the other one keeps.
DedupLeavesOneLink ==
    Settled => \E s \in Sessions : open[s] /\ IsCanonical(s) /\ IsCanonical(Other[s])
=============================================================================
