-------------------------------- MODULE MCSwarm --------------------------------
(***************************************************************************)
(* Small instances of the six parts of SwarmParts, in one run.             *)
(***************************************************************************)
EXTENDS SwarmParts
=============================================================================
