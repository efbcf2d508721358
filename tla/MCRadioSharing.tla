---------------------------- MODULE MCRadioSharing ----------------------------
(***************************************************************************)
(* Small instances of RadioSharing.                                        *)
(***************************************************************************)
EXTENDS RadioSharing

CONSTANTS p, q, s

MCReadPlan == {[writes |-> 0, reads |-> 1]}
MCPlans == {[writes |-> 0, reads |-> 0], [writes |-> 1, reads |-> 1]}

=============================================================================
