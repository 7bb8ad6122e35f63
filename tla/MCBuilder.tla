----------------------------- MODULE MCBuilder -----------------------------
(***************************************************************************)
(* Instances of Builder for TLC: two theses in one round directory.        *)
(***************************************************************************)
EXTENDS Builder

CONSTANTS t1, t2
MCTheses == {t1, t2}
=============================================================================
