------------------------------- MODULE MCActor -------------------------------
(***************************************************************************)
(* Small instance of Actor: one device with one unparameterised action, a  *)
(* window of 2 seconds and a queue of 2, long enough for two windows.      *)
(***************************************************************************)
EXTENDS Actor

MCHardMax == [a \in Actions |-> 0]

=============================================================================
