--------------------------- MODULE MCImprovement ---------------------------
(* An instance of Improvement for TLC. *)
EXTENDS Improvement

CONSTANTS ema, orb
MCFamilies == {ema, orb}
MCRound == [f \in MCFamilies |-> IF f = ema THEN 2 ELSE 1]
\* Of two tasks, the ones compiled in each of two suites, with a variance and
\* without: every comparison of the two, and of each with itself, differs.
MCSuites == {<<0, 1>>, <<2, 2>>}
MCCliResults == {Result("quality_score_p50", <<0, 1>>)}

\* What the edits are worth: results, and controllers that live.  Who has the
\* lock: deaths and removals, and evaluations that all raise.  What is read
\* later: rounds executed twice.
Applying == {"halo", "halo_apply", "ratchet"}
Locking == {"halo", "halo_apply"}
Memories == {"reflexion", "recursive_improve", "ratchet"}
MCFlagSets == {Applying, Locking, Memories}

Launches(ofEma, ofOrb) == [f \in MCFamilies |-> IF f = ema THEN ofEma ELSE ofOrb]
MCBounds == [on \in MCFlagSets |->
    CASE on = Applying ->
            [evals |-> 2, cliEvals |-> 1, removals |-> 1, launches |-> Launches(1, 1)]
      [] on = Locking ->
            [evals |-> 0, cliEvals |-> 0, removals |-> 2, launches |-> Launches(2, 2)]
      [] on = Memories ->
            [evals |-> 0, cliEvals |-> 0, removals |-> 0, launches |-> Launches(2, 1)]]
=============================================================================
