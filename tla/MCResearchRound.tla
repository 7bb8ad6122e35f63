-------------------------- MODULE MCResearchRound --------------------------
(***************************************************************************)
(* Instances of ResearchRound for TLC.  The budgets are the code's own: 3  *)
(* attempts, 3 stage-1 failures, 1 compile failure.                        *)
(***************************************************************************)
EXTENDS ResearchRound
=============================================================================
