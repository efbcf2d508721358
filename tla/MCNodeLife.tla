------------------------------- MODULE MCNodeLife -------------------------------
(***************************************************************************)
(* A small instance of NodeLife.                                           *)
(***************************************************************************)
EXTENDS NodeLife
=============================================================================
