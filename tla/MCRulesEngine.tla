---------------------------- MODULE MCRulesEngine ----------------------------
(***************************************************************************)
(* Small instances of RulesEngine: one slot; an edge rule on a reading with*)
(* a periodic timer and one on a button, each with a cooldown.             *)
(***************************************************************************)
EXTENDS RulesEngine

MCSettings ==
  {[mode |-> "edge", code |-> "value", cooldown |-> 1, every |-> TRUE, enabled |-> TRUE],
   [mode |-> "edge", code |-> "press", cooldown |-> 1, every |-> FALSE, enabled |-> TRUE]}

MCButton == {[mode |-> "edge", code |-> "press", cooldown |-> 0, every |-> TRUE, enabled |-> TRUE]}

=============================================================================
