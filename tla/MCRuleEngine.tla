---------------------------- MODULE MCRuleEngine ----------------------------
(***************************************************************************)
(* Three rules, and events that match two of them, the last, and none.     *)
(***************************************************************************)
EXTENDS RuleEngine, TLC

CONSTANTS both, last, none

MCEvent == {both, last, none}
MCMatches == both :> {1, 3} @@ last :> {3} @@ none :> {}
=============================================================================
