---------------------------- MODULE MCController ----------------------------
(* Small instances of Controller for TLC: a checkout that stays on one     *)
(* commit, and one that can move between two.                              *)
EXTENDS Controller

CONSTANTS c1, c2

OneCommit == {c1}
TwoCommits == {c1, c2}
=============================================================================
