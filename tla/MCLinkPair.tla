----------------------------- MODULE MCLinkPair -----------------------------
(***************************************************************************)
(* Instances of LinkPair for TLC: nodes A and B, link n dialled by A when  *)
(* n is odd and by B when it is even.  Ends are pairs of node and link.    *)
(***************************************************************************)
EXTENDS LinkPair

CONSTANT Links

Nodes   == {"A", "B"}
Ends    == Nodes \X Links
Far(n)  == IF n = "A" THEN "B" ELSE "A"
\* An id of a node's table: the address of a link, or the node itself (0).
EndIds  == {<<n, l>> : n \in Nodes, l \in Links \cup {0}}
OwnAddr == [s \in Ends |-> s]
FarKey  == [s \in Ends |-> <<s[1], 0>>]
FarIds  == [s \in Ends |-> {FarKey[s]}]
FarEnd  == [s \in Ends |-> <<Far(s[1]), s[2]>>]
Dialled == {s \in Ends : (s[1] = "A") = (s[2] % 2 = 1)}
AllTCP  == [s \in Ends |-> "tcpDirect"]
Mixed   == [s \in Ends |-> CASE s[2] = 1 -> "tcpDirect"
                             [] s[2] = 2 -> "quicDirect"
                             [] OTHER    -> "udp"]
=============================================================================
