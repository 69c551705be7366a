---------------------------- MODULE MCNodeLinks ----------------------------
(***************************************************************************)
(* Instances of NodeLinks for TLC: a dial loop with two connections one    *)
(* after the other, and a connection that was accepted.                    *)
(***************************************************************************)
EXTENDS NodeLinks

CONSTANTS s1, s2, s3, addr1, addr2, keyA, keySelf

AllIds    == {addr1, addr2, keyA, keySelf}
TwoKinds  == [s \in Sessions |-> IF s = s3 THEN "quicDirect" ELSE "tcpDirect"]
Addresses == [s \in Sessions |-> IF s = s3 THEN addr2 ELSE addr1]
\* The first node dialled is this node itself; the second one has also dialled.
SelfFirst == [s \in Sessions |-> IF s = s1 THEN keySelf ELSE keyA]
OnePeer   == [s \in Sessions |-> keyA]
\* What a HelloAck names need not be true: the address at which another session
\* is, or an id that is not the one a Hello would show.
OthersIds == [s \in Sessions |-> CASE s = s1 -> {addr2} [] s = s2 -> {} [] s = s3 -> {keySelf}]
NoAcks    == [s \in Sessions |-> {}]
=============================================================================
