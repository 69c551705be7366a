----------------------------- MODULE MCMLQueue -----------------------------
(***************************************************************************)
(* Instances of MLQueue for TLC: items whose sizes meet the real quanta.   *)
(***************************************************************************)
EXTENDS MLQueue

CONSTANTS peerA, peerB

\* Two flows of control messages, in one of which two messages use up the
\* quantum of 2048 exactly, and a realtime message larger than two quanta.
MixItems == 1..4
MixClass == <<0, 0, 0, 1>>
MixDest  == <<peerA, peerA, peerB, peerA>>
MixSize  == <<1024, 1024, 512, 17000>>

\* Two messages of one flow that fit a quantum each but not together.
PairItems == 1..2
PairClass == [i \in PairItems |-> 0]
PairDest  == [i \in PairItems |-> peerA]
PairSize  == [i \in PairItems |-> 1500]

Symmetry == Permutations(Workers) \cup Permutations(Producers)
=============================================================================
