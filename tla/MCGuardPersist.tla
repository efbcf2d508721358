---------------------------- MODULE MCGuardPersist ----------------------------
(***************************************************************************)
(* Small instances of GuardPersist.  A BLE device and a wired one compete  *)
(* for one row of the table, and the file has room for one of them, so     *)
(* that the device present evicts what is saved of the absent one.         *)
(***************************************************************************)
EXTENDS GuardPersist

CONSTANT a

MCHardMax == [x \in Actions |-> 0]

\* The wrapper of a BLE device is there or deleted.
MCPlans == {{}, {a}}

MCAnnounces == {{<<a, 1>>}}

=============================================================================
