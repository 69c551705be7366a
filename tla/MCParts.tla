------------------------------ MODULE MCParts -------------------------------
(***************************************************************************)
(* Instances of Registry, Frames and Envelope for TLC: a behaviour is one  *)
(* of one of them, which part says.                                        *)
(***************************************************************************)
EXTENDS Registry, Frames, Envelope

VARIABLE part

PInit ==
    /\ RInit /\ FInit /\ EInit
    /\ part \in {"registry", "frames", "envelope"}
    /\ part # "frames" => over = "tcp"

PNext ==
    /\ UNCHANGED part
    /\ \/ part = "registry" /\ RNext /\ UNCHANGED <<fvars, evars>>
       \/ part = "frames"   /\ FNext /\ UNCHANGED <<rvars, evars>>
       \/ part = "envelope" /\ ENext /\ UNCHANGED <<rvars, fvars>>

PSpec == PInit /\ [][PNext]_<<rvars, fvars, evars, part>>
=============================================================================
