---------------------------- MODULE MCTransports ----------------------------
(***************************************************************************)
(* The transports for TLC.  A behaviour is about one thing, which Init     *)
(* chooses: datagrams (UDPLinks) or the connections of a stream transport  *)
(* (StreamLinks).                                                          *)
(***************************************************************************)
EXTENDS UDPLinks, StreamLinks

tvars == <<lvars, uvars, svars>>

TInit == LInit /\ UInit /\ SInit

TNext ==
    \/ kind = "udp" /\ UNext /\ UNCHANGED svars
    \/ kind # "udp" /\ SNext /\ UNCHANGED uvars

Spec == TInit /\ [][TNext]_tvars

\* The loops of the node and a Close that has begun go on when they can, and a
\* read from a closed socket fails; of other errors, the network, the other
\* nodes and those who might cancel or close, nothing is assumed.
Fairness ==
    /\ WF_tvars(kind = "udp" /\ UAccepts /\ UNCHANGED svars)
    /\ WF_tvars(kind = "udp" /\ LoopMustFail /\ ULoopFails /\ UNCHANGED svars)
    /\ WF_tvars(kind # "udp" /\ SAccepts /\ UNCHANGED uvars)
    /\ WF_tvars(kind # "udp" /\ LoopMustFail /\ SLoopFails /\ UNCHANGED uvars)
    /\ WF_tvars(kind # "udp" /\ (\E a \in Addrs : AcceptConn(a)) /\ UNCHANGED uvars)
    /\ \A c \in Closers :
          /\ WF_tvars(kind = "udp" /\ UCloses(c) /\ UNCHANGED svars)
          /\ WF_tvars(kind # "udp" /\ SCloses(c) /\ UNCHANGED uvars)

FairSpec == Spec /\ Fairness

TransportsTypeOK == LsTypeOK /\ UTypeOK /\ STypeOK
=============================================================================
