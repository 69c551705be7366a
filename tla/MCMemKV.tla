------------------------------ MODULE MCMemKV ------------------------------
(***************************************************************************)
(* Instances of MemKV for TLC.  Keys and clients are interchangeable, so   *)
(* the safety runs use their symmetry.                                     *)
(***************************************************************************)
EXTENDS MemKV, TLC

Symmetry == Permutations(Keys) \cup Permutations(Clients)
=============================================================================
