---------------------------- MODULE MCConductor ----------------------------
(* Instances of Conductor for TLC. *)
EXTENDS Conductor

CONSTANTS a1, a2
MCAnalysts == {a1, a2}
=============================================================================
