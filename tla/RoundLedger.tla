---------------------------- MODULE RoundLedger ----------------------------
(***************************************************************************)
(* What the research rounds of one job promise to whoever reads            *)
(* research_rounds: the controller works on one round at a time, moves on  *)
(* only from a round whose row carries a final outcome, and rewrites the   *)
(* row of a finished round only after it has gone back to that round.      *)
(***************************************************************************)
EXTENDS Integers

CONSTANT MaxRounds      \* MAX_RESEARCH_ROUNDS

VARIABLES
    finished,   \* research_round: the rounds 1..finished are done
    opened,     \* rounds that have a row
    closed      \* rounds whose row carries a final outcome

ledger == <<finished, opened, closed>>

Init == finished = 0 /\ opened = {} /\ closed = {}

Current == finished + 1

Open ==
    /\ Current <= MaxRounds
    /\ opened' = opened \cup {Current}
    /\ UNCHANGED <<finished, closed>>

Close ==
    /\ Current \in opened
    /\ closed' = closed \cup {Current}
    /\ UNCHANGED <<finished, opened>>

Reopen ==
    /\ Current \in closed
    /\ closed' = closed \ {Current}
    /\ UNCHANGED <<finished, opened>>

Advance ==
    /\ Current \in closed
    /\ finished' = Current
    /\ UNCHANGED <<opened, closed>>

Rewind ==
    /\ finished' \in 0 .. finished - 1
    /\ UNCHANGED <<opened, closed>>

Next == Open \/ Close \/ Reopen \/ Advance \/ Rewind

Spec == Init /\ [][Next]_ledger
=============================================================================
