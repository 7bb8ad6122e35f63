--------------------------- MODULE MCCausalLedger ---------------------------
(***************************************************************************)
(* Instances of CausalLedger for TLC.                                      *)
(***************************************************************************)
EXTENDS CausalLedger, TLC

CONSTANTS x, y

MCRules == {x, y}
=============================================================================
