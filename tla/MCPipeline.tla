----------------------------- MODULE MCPipeline -----------------------------
(***************************************************************************)
(* An instance of Pipeline for TLC.                                        *)
(***************************************************************************)
EXTENDS Pipeline

CONSTANTS s1, s2, pipe, local, w1, w2, w3, destA, destB

\* The session with destA uses the pipeline and its two workers, the session with
\* destB a forwarder of its own.
Peers   == s1 :> destA @@ s2 :> destB
Uses    == s1 :> pipe @@ s2 :> local
WorksAt == w1 :> pipe @@ w2 :> pipe @@ w3 :> local

Env(dest, body, type, status, size) ==
    [proto |-> TRUE, dest |-> dest, body |-> body, large |-> FALSE, type |-> type,
     status |-> status, size |-> size]

\* To destB two messages, of which the second is larger than a bucket; from destB a
\* control request for this node, which is answered.
Mail == <<Env(destB, "invoke", "task", TRUE, 2), Env(destB, "raw", "other", TRUE, 4),
          Env(NoDest, "control", "control", FALSE, 1)>>
Arrives == <<s1, s1, s2>>

Symmetry == Permutations({w1, w2})
=============================================================================
