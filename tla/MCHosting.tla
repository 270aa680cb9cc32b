----------------------------- MODULE MCHosting ------------------------------
(***************************************************************************)
(* One device's host, for TLC.                                              *)
(***************************************************************************)
EXTENDS Hosting, TLC

Symmetry == Permutations(Copy) \cup Permutations(Stage)
=============================================================================
