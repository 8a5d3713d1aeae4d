------------------------------ MODULE MCCostRollup ------------------------------
(***************************************************************************)
(* CostRollup on a small instance, for TLC: an agent that calls no model,  *)
(* and after it in the registry one whose one model key is blank.          *)
(***************************************************************************)
EXTENDS CostRollup

BlankKey == {Total}

=============================================================================
