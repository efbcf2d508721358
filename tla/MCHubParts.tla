------------------------------- MODULE MCHubParts -------------------------------
(***************************************************************************)
(* Small instances of the nine parts of a hub.                             *)
(***************************************************************************)
EXTENDS HubParts

\* A remote with a switch and a button of its own endpoint, and a plain switch.
MCEndpoints == [d \in Devices |-> IF d = 1 THEN <<{"switch"}, {"button"}>> ELSE <<{"switch"}>>]
=============================================================================
