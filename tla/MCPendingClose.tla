---------------------------- MODULE MCPendingClose ----------------------------
(***************************************************************************)
(* Small instances of PendingClose: two or three devices and tables of     *)
(* two; two attempts and an alert on the second recheck stand for the      *)
(* firmware's five and twenty-four.                                        *)
(***************************************************************************)
EXTENDS PendingClose

=============================================================================
