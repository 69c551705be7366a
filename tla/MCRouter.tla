------------------------------ MODULE MCRouter ------------------------------
(***************************************************************************)
(* An instance of Router, and one of Routes, for TLC: a behaviour is one   *)
(* of the one or of the other, which part says.                            *)
(***************************************************************************)
EXTENDS Router, Routes

CONSTANTS me, x, y, z

VARIABLE part

\* This node and two peers may all be connected; z is a stranger.
Graph == me :> {x, y} @@ x :> {y} @@ y :> {x} @@ z :> {}

MCInit ==
    /\ RtInit /\ RsInit
    /\ part \in {"router", "routes"}
    /\ part = "router" => seeded = {}

MCNext ==
    /\ UNCHANGED part
    /\ \/ part = "router" /\ RtNext /\ UNCHANGED routeVars
       \/ part = "routes" /\ RsNext /\ UNCHANGED rtvars

MCSpec == MCInit /\ [][MCNext]_<<rtvars, routeVars, part>> /\ WF_rtvars(RouterStep)
=============================================================================
