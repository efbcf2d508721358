---------------------------- MODULE MCCommandPath ----------------------------
(***************************************************************************)
(* Small instances of CommandPath: two devices, up to four commands.       *)
(***************************************************************************)
EXTENDS CommandPath

=============================================================================
