---------------------------- MODULE MCRunRecords ----------------------------
(***************************************************************************)
(* Instances of RunRecords for TLC.  The results differ in their trades,   *)
(* two share count and diagnostics, and one has no trades.                 *)
(***************************************************************************)
EXTENDS RunRecords

CONSTANTS base, c1, k1, k2
MCChanged == {c1}
MCCommits == {k1, k2}
Outcome(trades, shape, metric) == [trades |-> trades, shape |-> shape, metric |-> metric]
MCOutcomes == {Outcome(1, 1, 100), Outcome(2, 1, 110), Outcome(None, 0, 0)}
=============================================================================
