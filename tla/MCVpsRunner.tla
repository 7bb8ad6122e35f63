---------------------------- MODULE MCVpsRunner ----------------------------
(***************************************************************************)
(* Instances of VpsRunner for TLC: commits with different dependencies.    *)
(***************************************************************************)
EXTENDS VpsRunner, TLC

CONSTANTS s1, s2, s3, shaA, shaB
MCSessions == {s1, s2, s3}
MCShas == {shaA, shaB}
MCDeps == [sha \in MCShas |-> sha]
MCSymmetry == Permutations(MCSessions)
=============================================================================
