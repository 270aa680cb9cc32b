---------------------------- MODULE MCPoolClient ----------------------------
(***************************************************************************)
(* A page and the pool's devices, for TLC.                                 *)
(***************************************************************************)
EXTENDS PoolClient
=============================================================================
