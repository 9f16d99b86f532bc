----------------------------- MODULE MCNetGroup -----------------------------
(***************************************************************************)
(* NetGroup for TLC: the members of a group are interchangeable, no choice *)
(* the model makes depends on which one it is.                             *)
(***************************************************************************)
EXTENDS NetGroup, TLC

PeerSymmetry == Permutations(Peers)
=============================================================================
