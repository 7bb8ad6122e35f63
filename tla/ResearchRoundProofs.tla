------------------------ MODULE ResearchRoundProofs ------------------------
(***************************************************************************)
(* The research rounds implement the ledger; a compiled round that the     *)
(* state file has left has its selected attempt; what an execution rejects *)
(* is in the database; and without crashes no factor id is issued twice:   *)
(* for every number of rounds, every retry budget and any number of        *)
(* crashes, relaunches and reruns.                                         *)
(***************************************************************************)
EXTENDS ResearchRound, WellFoundedInduction, TLAPS

\* Between the row and the state file: what is logged is what will be handled,
\* and it is logged under the round that the state file is about to leave.
LoggedIsHandled ==
    /\ pc \in {"log_attempt", "handle"} => rows[Round] = result
    /\ pc = "handle" /\ result.outcome = "compiled" =>
          \E t \in AttemptsOf(Round) : Selected(t) /\ t.thesis = result.thesis

RoundInProgress == InRound => Round \in Rounds /\ rows[Round] # NoRow

Shape ==
    /\ done \in 0 .. MaxRounds
    /\ rows \in [Rounds -> RoundRows]
    /\ loop \in Loops
    /\ result \in Results
    /\ pc \in Pcs

Inductive == /\ Shape /\ RoundInProgress /\ LoggedIsHandled
             /\ CompiledRoundHasSelectedAttempt

\* Before the first round there is nothing to have logged.
LEMMA InitInductive == Init => Inductive
<1>1. SUFFICES ASSUME Init PROVE Inductive
  OBVIOUS
<1>2. Shape
  BY <1>1, ConstantsAssumption
  DEF Init, Shape, Rounds, RoundRows, NoRow, FreshLoop, Loops, NoResult, Results,
      Outcomes, Pcs
<1>3. RoundInProgress /\ LoggedIsHandled
  BY <1>1 DEF Init, RoundInProgress, InRound, LoggedIsHandled
<1>4. CompiledRoundHasSelectedAttempt
  BY <1>1 DEF Init, CompiledRoundHasSelectedAttempt
<1> QED
  BY <1>2, <1>3, <1>4 DEF Inductive

\* The steps that write no table and leave the round in progress alone: they
\* may end the process, move inside the retry loop or go back to earlier rounds.
QuietStep ==
    /\ UNCHANGED <<rows, tries>>
    /\ done' \in 0 .. done
    /\ loop' \in Loops /\ result' \in Results /\ pc' \in Pcs
    /\ ~InRound' \/ (InRound /\ done' = done /\ pc' \notin {"log_attempt", "handle"})

LEMMA QuietPreserves == Inductive /\ QuietStep => Inductive'
<1>1. SUFFICES ASSUME Inductive, QuietStep PROVE Inductive'
  OBVIOUS
<1>2. Shape'
  BY <1>1, ConstantsAssumption DEF Inductive, Shape, QuietStep
<1>3. RoundInProgress'
  BY <1>1 DEF Inductive, RoundInProgress, QuietStep, Round
<1>4. LoggedIsHandled'
  BY <1>1 DEF QuietStep, LoggedIsHandled, InRound
<1>5. CompiledRoundHasSelectedAttempt'
  <2>1. \A r \in 1 .. done' : r \in 1 .. done
    BY <1>1 DEF QuietStep, Inductive, Shape
  <2> QED
    BY <1>1, <2>1
    DEF Inductive, QuietStep, CompiledRoundHasSelectedAttempt, AttemptsOf
<1> QED
  BY <1>2, <1>3, <1>4, <1>5 DEF Inductive

\* Counting a failure leaves counters.
LEMMA FailedKeepsLoops ==
    ASSUME loop \in Loops, NEW stage, Failed(stage)
    PROVE  loop' \in Loops
<1>1. loop = [attempt |-> loop.attempt, stage1 |-> loop.stage1, compile |-> loop.compile]
      /\ loop.attempt + 1 \in Nat /\ loop.stage1 + 1 \in Nat /\ loop.compile + 1 \in Nat
  BY DEF Loops
<1>2. CASE stage = "compile"
  BY <1>1, <1>2 DEF Failed, Loops
<1>3. CASE stage # "compile"
  BY <1>1, <1>3 DEF Failed, Loops
<1> QED
  BY <1>2, <1>3

\* Which actions are quiet.
LEMMA QuietActions ==
    ASSUME Inductive,
           Relaunch \/ Crash \/ ForcedBaselineRerun \/ BacktestEnds \/ EvaluateTimesOut
           \/ BacktestFails \/ GiveUp \/ ConductorFails \/ ConductorProposes \/ ScreeningKills
           \/ ScreeningRaises \/ SaveModel \/ Compiles
    PROVE  QuietStep
<1> USE DEF Inductive, Shape, QuietStep, tables, stateFile, InRound, Pcs
<1>1. CASE Relaunch
  BY <1>1 DEF Relaunch
<1>2. CASE Crash
  BY <1>2 DEF Crash, FreshLoop, Loops, NoResult, Results, Outcomes
<1>3. CASE ForcedBaselineRerun
  BY <1>3 DEF ForcedBaselineRerun
<1>4. CASE BacktestEnds \/ EvaluateTimesOut \/ BacktestFails
  BY <1>4 DEF BacktestEnds, EvaluateTimesOut, BacktestFails
<1>5. CASE GiveUp \/ ConductorFails
  BY <1>5 DEF GiveUp, ConductorFails, Return, Results, Outcomes, Loops
<1>6. CASE ConductorProposes
  BY <1>6 DEF ConductorProposes
<1>7. CASE ScreeningKills
  BY <1>7, FailedKeepsLoops DEF ScreeningKills
<1>8. CASE ScreeningRaises
  BY <1>8 DEF ScreeningRaises, FreshLoop, Loops, NoResult, Results, Outcomes
<1>9. CASE SaveModel \/ Compiles
  BY <1>9 DEF SaveModel, Compiles, Passes, Return, Results, Outcomes, Loops
<1> QED
  BY <1>1, <1>2, <1>3, <1>4, <1>5, <1>6, <1>7, <1>8, <1>9

\* A step inside the round in progress keeps what earlier rounds have.
LEMMA EarlierRoundsKept ==
    ASSUME Inductive,
           done' = done,
           rows' = rows \/ \E row \in RoundRows : rows' = [rows EXCEPT ![Round] = row],
           \A r \in 1 .. done : \A t \in AttemptsOf(r) : t \in tries'
    PROVE  CompiledRoundHasSelectedAttempt'
<1>1. SUFFICES ASSUME NEW r \in 1 .. done, rows'[r].outcome = "compiled"
               PROVE  \E t \in AttemptsOf(r)' : Selected(t) /\ t.thesis = rows'[r].thesis
  BY DEF CompiledRoundHasSelectedAttempt
<1>2. rows'[r] = rows[r]
  <2>1. r \in Rounds /\ r # Round
    BY ConstantsAssumption DEF Inductive, Shape, Rounds, Round
  <2> QED
    BY <2>1 DEF Inductive, Shape
<1>3. PICK t \in AttemptsOf(r) : Selected(t) /\ t.thesis = rows[r].thesis
  BY <1>1, <1>2 DEF Inductive, CompiledRoundHasSelectedAttempt
<1>4. t \in AttemptsOf(r)'
  BY <1>3 DEF AttemptsOf
<1> QED
  BY <1>2, <1>3, <1>4

\* An attempt added to the round in progress replaces no earlier round's.
LEMMA AddAttemptKeepsEarlier ==
    ASSUME Inductive, NEW row, row.round = Round, AddAttempt(row)
    PROVE  \A r \in 1 .. done : \A t \in AttemptsOf(r) : t \in tries'
<1>1. \A r \in 1 .. done : r # Round
  BY DEF Inductive, Shape, Round
<1> QED
  BY <1>1 DEF AddAttempt, AttemptsOf

LEMMA BeginRoundPreserves == Inductive /\ BeginRound => Inductive'
<1>1. SUFFICES ASSUME Inductive, BeginRound PROVE Inductive'
  OBVIOUS
<1> DEFINE started == [outcome |-> "in_progress", thesis |-> 0]
<1>2. Round \in Rounds /\ started \in RoundRows /\ started # NoRow
  BY <1>1 DEF Inductive, Shape, BeginRound, Round, Rounds, RoundRows, NoRow
<1>3. rows' = [rows EXCEPT ![Round] = IF rows[Round] = NoRow THEN started ELSE rows[Round]]
  BY <1>1 DEF BeginRound
<1>4. Shape'
  BY <1>1, <1>2, <1>3
  DEF Inductive, Shape, BeginRound, stateFile, Pcs, FreshLoop, Loops, NoResult,
      Results, Outcomes
<1>5. RoundInProgress'
  BY <1>1, <1>2, <1>3 DEF Inductive, Shape, RoundInProgress, BeginRound, stateFile, Round
<1>6. LoggedIsHandled'
  BY <1>1 DEF BeginRound, LoggedIsHandled
<1>7. CompiledRoundHasSelectedAttempt'
  <2>1. \E row \in RoundRows : rows' = [rows EXCEPT ![Round] = row]
    BY <1>1, <1>2, <1>3 DEF Inductive, Shape
  <2>2. \A r \in 1 .. done : \A t \in AttemptsOf(r) : t \in tries'
    BY <1>1 DEF BeginRound, AttemptsOf
  <2> QED
    BY <1>1, <2>1, <2>2, EarlierRoundsKept DEF BeginRound, stateFile
<1> QED
  BY <1>4, <1>5, <1>6, <1>7 DEF Inductive

LEMMA RejectionPreserves ==
    Inductive /\ (RejectAtStage1 \/ RejectAtCompile) => Inductive'
<1>1. SUFFICES ASSUME Inductive, RejectAtStage1 \/ RejectAtCompile PROVE Inductive'
  OBVIOUS
<1> DEFINE row == [outcome |-> "rejected_attempt", thesis |-> loop.attempt + 1]
<1>2. /\ rows' = [rows EXCEPT ![Round] = row]
      /\ pc = "validate" /\ pc' \in {"rejected_stage_1", "rejected_compile"}
      /\ UNCHANGED <<done, tries, loop, result>>
  BY <1>1 DEF RejectAtStage1, RejectAtCompile, Passes, LogRejectedRound, stateFile
<1>3. Round \in Rounds /\ row \in RoundRows /\ row # NoRow
  BY <1>1, <1>2
  DEF Inductive, Shape, RoundInProgress, InRound, RoundRows, NoRow, Loops
<1>4. Shape'
  BY <1>1, <1>2, <1>3 DEF Inductive, Shape, Pcs
<1>5. RoundInProgress'
  BY <1>1, <1>2, <1>3 DEF Inductive, Shape, RoundInProgress, Round
<1>6. LoggedIsHandled'
  BY <1>2 DEF LoggedIsHandled
<1>7. CompiledRoundHasSelectedAttempt'
  <2>1. \A r \in 1 .. done : \A t \in AttemptsOf(r) : t \in tries'
    BY <1>2 DEF AttemptsOf
  <2> QED
    BY <1>1, <1>2, <1>3, <2>1, EarlierRoundsKept
<1> QED
  BY <1>4, <1>5, <1>6, <1>7 DEF Inductive

LEMMA LogRejectedAttemptPreserves == Inductive /\ LogRejectedAttempt => Inductive'
<1>1. SUFFICES ASSUME Inductive, LogRejectedAttempt PROVE Inductive'
  OBVIOUS
<1>2. Shape'
  BY <1>1, FailedKeepsLoops DEF Inductive, Shape, LogRejectedAttempt, stateFile, Pcs
<1>3. RoundInProgress' /\ LoggedIsHandled'
  BY <1>1
  DEF Inductive, RoundInProgress, LoggedIsHandled, LogRejectedAttempt, stateFile,
      InRound, Round
<1>4. CompiledRoundHasSelectedAttempt'
  <2>1. PICK row : row.round = Round /\ AddAttempt(row)
    BY <1>1 DEF LogRejectedAttempt
  <2>2. \A r \in 1 .. done : \A t \in AttemptsOf(r) : t \in tries'
    BY <1>1, <2>1, AddAttemptKeepsEarlier
  <2> QED
    BY <1>1, <2>2, EarlierRoundsKept DEF LogRejectedAttempt, stateFile
<1> QED
  BY <1>2, <1>3, <1>4 DEF Inductive

LEMMA LogRoundPreserves == Inductive /\ LogRound => Inductive'
<1>1. SUFFICES ASSUME Inductive, LogRound PROVE Inductive'
  OBVIOUS
<1>2. Round \in Rounds /\ result \in RoundRows /\ result # NoRow
  BY <1>1
  DEF Inductive, Shape, RoundInProgress, InRound, LogRound, RoundRows, Results,
      Outcomes, NoRow
<1>3. Shape'
  BY <1>1, <1>2 DEF Inductive, Shape, LogRound, stateFile, Pcs
<1>4. RoundInProgress'
  BY <1>1, <1>2 DEF Inductive, Shape, RoundInProgress, LogRound, stateFile, Round
<1>5. LoggedIsHandled'
  BY <1>1, <1>2
  DEF Inductive, Shape, LoggedIsHandled, LogRound, LogsAttempt, stateFile, Round
<1>6. CompiledRoundHasSelectedAttempt'
  <2>1. \A r \in 1 .. done : \A t \in AttemptsOf(r) : t \in tries'
    BY <1>1 DEF LogRound, AttemptsOf
  <2> QED
    BY <1>1, <1>2, <2>1, EarlierRoundsKept DEF LogRound, stateFile
<1> QED
  BY <1>3, <1>4, <1>5, <1>6 DEF Inductive

LEMMA LogAttemptPreserves == Inductive /\ LogAttempt => Inductive'
<1>1. SUFFICES ASSUME Inductive, LogAttempt PROVE Inductive'
  OBVIOUS
<1> DEFINE row == [round |-> Round, number |-> NextAttemptNumber,
                   thesis |-> result.thesis, exec |-> exec, status |-> result.outcome]
<1>2. AddAttempt(row) /\ pc = "log_attempt" /\ pc' = "handle"
      /\ UNCHANGED <<done, rows, loop, result>>
  BY <1>1 DEF LogAttempt, stateFile
<1>3. Shape'
  BY <1>1, <1>2 DEF Inductive, Shape, Pcs
<1>4. RoundInProgress'
  BY <1>1, <1>2 DEF Inductive, RoundInProgress, InRound, Round
<1>5. LoggedIsHandled'
  <2>1. Round' = Round
    BY <1>2 DEF Round
  <2>2. rows'[Round'] = result'
    BY <1>1, <1>2, <2>1 DEF Inductive, LoggedIsHandled
  <2>3. row \in AttemptsOf(Round)'
    BY <1>2, <2>1 DEF AddAttempt, AttemptsOf
  <2>4. result.outcome = "compiled" => Selected(row) /\ row.thesis = result.thesis
    BY DEF Selected
  <2> QED
    BY <1>2, <2>1, <2>2, <2>3, <2>4 DEF LoggedIsHandled, AttemptsOf, Selected
<1>6. CompiledRoundHasSelectedAttempt'
  <2>1. row.round = Round
    OBVIOUS
  <2>2. \A r \in 1 .. done : \A t \in AttemptsOf(r) : t \in tries'
    BY <1>1, <1>2, <2>1, AddAttemptKeepsEarlier
  <2> QED
    BY <1>1, <1>2, <2>2, EarlierRoundsKept
<1> QED
  BY <1>3, <1>4, <1>5, <1>6 DEF Inductive

LEMMA HandlePreserves == Inductive /\ Handle => Inductive'
<1>1. SUFFICES ASSUME Inductive, Handle PROVE Inductive'
  OBVIOUS
<1>2. /\ pc = "handle" /\ done' = Round /\ Round \in Rounds
      /\ pc' \in {"down", "over", "backtest"}
      /\ UNCHANGED <<rows, tries>>
  BY <1>1
  DEF Inductive, RoundInProgress, InRound, Handle, ReadyToHandle, AfterHandler, tables
<1>3. Shape'
  BY <1>1, <1>2, ConstantsAssumption
  DEF Inductive, Shape, Handle, Rounds, Pcs, FreshLoop, Loops, NoResult, Results, Outcomes
<1>4. RoundInProgress' /\ LoggedIsHandled'
  BY <1>2 DEF RoundInProgress, LoggedIsHandled, InRound
<1>5. CompiledRoundHasSelectedAttempt'
  <2>1. SUFFICES ASSUME NEW r \in 1 .. Round, rows[r].outcome = "compiled"
                 PROVE  \E t \in AttemptsOf(r) : Selected(t) /\ t.thesis = rows[r].thesis
    BY <1>2 DEF CompiledRoundHasSelectedAttempt, AttemptsOf
  <2>2. CASE r = Round
    BY <1>1, <1>2, <2>1, <2>2 DEF Inductive, LoggedIsHandled
  <2>3. CASE r # Round
    <3>1. r \in 1 .. done
      BY <1>1, <2>3 DEF Inductive, Shape, Round
    <3> QED
      BY <1>1, <2>1, <3>1 DEF Inductive, CompiledRoundHasSelectedAttempt
  <2> QED
    BY <2>2, <2>3
<1> QED
  BY <1>3, <1>4, <1>5 DEF Inductive

LEMMA NextInductive == Inductive /\ [Next]_vars => Inductive'
<1>1. SUFFICES ASSUME Inductive, [Next]_vars PROVE Inductive'
  OBVIOUS
<1>2. CASE BeginRound
  BY <1>1, <1>2, BeginRoundPreserves
<1>3. CASE RejectAtStage1 \/ RejectAtCompile
  BY <1>1, <1>3, RejectionPreserves
<1>4. CASE LogRejectedAttempt
  BY <1>1, <1>4, LogRejectedAttemptPreserves
<1>5. CASE LogRound
  BY <1>1, <1>5, LogRoundPreserves
<1>6. CASE LogAttempt
  BY <1>1, <1>6, LogAttemptPreserves
<1>7. CASE Handle
  BY <1>1, <1>7, HandlePreserves
<1>8. CASE Relaunch \/ Crash \/ ForcedBaselineRerun \/ BacktestEnds \/ EvaluateTimesOut
           \/ BacktestFails \/ GiveUp \/ ConductorFails \/ ConductorProposes \/ ScreeningKills
           \/ ScreeningRaises \/ SaveModel \/ Compiles
  BY <1>1, <1>8, QuietActions, QuietPreserves
<1>9. CASE UNCHANGED vars
  BY <1>1, <1>9
  DEF vars, Inductive, Shape, RoundInProgress, LoggedIsHandled,
      CompiledRoundHasSelectedAttempt, AttemptsOf, InRound, Round
<1> QED
  BY <1>1, <1>2, <1>3, <1>4, <1>5, <1>6, <1>7, <1>8, <1>9 DEF Next, Work, Validate

LEMMA SpecInductive == Spec => []Inductive
BY InitInductive, NextInductive, PTL DEF Spec

\* A round that the state file has left as compiled has its selected attempt.
THEOREM CompiledAttemptTheorem == Spec => []CompiledRoundHasSelectedAttempt
<1>1. Inductive => CompiledRoundHasSelectedAttempt
  BY DEF Inductive
<1> QED
  BY <1>1, SpecInductive, PTL

-----------------------------------------------------------------------------
(* The refinement.                                                         *)

Opened == {r \in Rounds : rows[r] # NoRow}
Closed == {r \in Rounds : rows[r].outcome \in Outcomes}

\* The initial state of the tables is the empty ledger.
LEMMA InitIsLedgerInit == Init => Ledger!Init
BY DEF Init, Ledger!Init, NoRow, Outcomes

\* A step that writes no row goes back to an earlier round, or is a stutter.
LEMMA QuietIsRewind ==
    ASSUME Inductive, QuietStep
    PROVE  [Ledger!Next]_Ledger!ledger
<1>1. UNCHANGED rows /\ done' \in 0 .. done /\ done \in Nat
  BY ConstantsAssumption DEF QuietStep, Inductive, Shape
<1>2. CASE done' = done
  BY <1>1, <1>2 DEF Ledger!ledger
<1>3. CASE done' # done
  <2>1. done' \in 0 .. done - 1
    BY <1>1, <1>3
  <2> QED
    BY <1>1, <2>1 DEF Ledger!Next, Ledger!Rewind
<1> QED
  BY <1>2, <1>3

\* Every step of the rounds is a step of the ledger or leaves it unchanged.
LEMMA NextIsLedgerNext ==
    Inductive /\ [Next]_vars => [Ledger!Next]_Ledger!ledger
<1>1. SUFFICES ASSUME Inductive, [Next]_vars PROVE [Ledger!Next]_Ledger!ledger
  OBVIOUS
<1>2. done \in Nat /\ done <= MaxRounds /\ rows \in [Rounds -> RoundRows]
  BY <1>1, ConstantsAssumption DEF Inductive, Shape
<1>3. CASE BeginRound
  <2> DEFINE started == [outcome |-> "in_progress", thesis |-> 0]
  <2>1. /\ Round \in Rounds /\ Round <= MaxRounds /\ done' = done
        /\ rows' = [rows EXCEPT ![Round] = IF rows[Round] = NoRow THEN started
                                           ELSE rows[Round]]
    BY <1>2, <1>3 DEF BeginRound, stateFile, Round, Rounds
  <2>2. started # NoRow /\ started.outcome \notin Outcomes /\ NoRow.outcome \notin Outcomes
    BY DEF NoRow, Outcomes
  <2>3. Opened' = Opened \cup {Round}
    BY <1>2, <2>1, <2>2 DEF Opened
  <2>4. Closed' = Closed
    BY <1>2, <2>1, <2>2 DEF Closed
  <2> QED
    BY <2>1, <2>3, <2>4
    DEF Opened, Closed, Ledger!Next, Ledger!Open, Ledger!Current, Round
<1>4. CASE RejectAtStage1 \/ RejectAtCompile
  <2> DEFINE row == [outcome |-> "rejected_attempt", thesis |-> loop.attempt + 1]
  <2>1. /\ rows' = [rows EXCEPT ![Round] = row] /\ done' = done
        /\ Round \in Rounds /\ rows[Round] # NoRow
    BY <1>1, <1>4
    DEF Inductive, RoundInProgress, InRound, RejectAtStage1, RejectAtCompile, Passes,
        LogRejectedRound, stateFile
  <2>2. row # NoRow /\ row.outcome \notin Outcomes
    BY DEF NoRow, Outcomes
  <2>3. Opened' = Opened
    BY <1>2, <2>1, <2>2 DEF Opened
  <2>4. Closed' = Closed \ {Round}
    BY <1>2, <2>1, <2>2 DEF Closed
  <2>5. CASE Round \in Closed
    BY <2>1, <2>3, <2>4, <2>5
    DEF Opened, Closed, Ledger!Next, Ledger!Reopen, Ledger!Current, Round
  <2>6. CASE Round \notin Closed
    BY <2>1, <2>3, <2>4, <2>6 DEF Opened, Closed, Ledger!ledger
  <2> QED
    BY <2>5, <2>6
<1>5. CASE LogRound
  <2>1. /\ rows' = [rows EXCEPT ![Round] = result] /\ done' = done
        /\ Round \in Rounds /\ rows[Round] # NoRow
    BY <1>1, <1>5
    DEF Inductive, RoundInProgress, InRound, LogRound, stateFile
  <2>2. result # NoRow /\ result.outcome \in Outcomes
    BY <1>1 DEF Inductive, Shape, Results, NoRow, Outcomes
  <2>3. Opened' = Opened /\ Round \in Opened
    BY <1>2, <2>1, <2>2 DEF Opened
  <2>4. Closed' = Closed \cup {Round}
    BY <1>2, <2>1, <2>2 DEF Closed
  <2> QED
    BY <2>1, <2>3, <2>4
    DEF Opened, Closed, Ledger!Next, Ledger!Close, Ledger!Current, Round
<1>6. CASE Handle
  <2>1. done' = Round /\ UNCHANGED rows /\ Round \in Rounds
        /\ rows[Round].outcome \in Outcomes
    BY <1>1, <1>6
    DEF Inductive, Shape, RoundInProgress, LoggedIsHandled, InRound, Handle,
        ReadyToHandle, tables, Results
  <2> QED
    BY <2>1 DEF Ledger!Next, Ledger!Advance, Ledger!Current, Round
<1>7. CASE LogRejectedAttempt \/ LogAttempt \/ UNCHANGED vars
  BY <1>7 DEF LogRejectedAttempt, LogAttempt, stateFile, vars, Ledger!ledger
<1>8. CASE Relaunch \/ Crash \/ ForcedBaselineRerun \/ BacktestEnds \/ EvaluateTimesOut
           \/ BacktestFails \/ GiveUp \/ ConductorFails \/ ConductorProposes \/ ScreeningKills
           \/ ScreeningRaises \/ SaveModel \/ Compiles
  BY <1>1, <1>8, QuietActions, QuietIsRewind
<1> QED
  BY <1>1, <1>3, <1>4, <1>5, <1>6, <1>7, <1>8 DEF Next, Work, Validate

\* The research rounds implement the ledger.
THEOREM LedgerTheorem == Spec => KeepsLedger
BY InitIsLedgerInit, NextIsLedgerNext, SpecInductive, PTL
DEF Spec, KeepsLedger, Ledger!Spec

-----------------------------------------------------------------------------
(* The types.                                                              *)

\* The least element of a set of naturals: < is well-founded.
LEMMA LeastNatural ==
    ASSUME NEW S, S \subseteq Nat, S # {}
    PROVE  \E n \in S : \A m \in S : n <= m
<1> DEFINE R == OpToRel(<, Nat)
<1>1. IsWellFoundedOn(R, Nat)
  BY NatLessThanWellFounded
<1>2. \A x, y \in Nat : <<y, x>> \in R <=> y < x
  BY DEF OpToRel
<1> HIDE DEF R
<1>3. PICK n \in S : \A m \in S : <<m, n>> \notin R
  BY <1>1, WFMin
<1>4. \A m \in S : m \in Nat /\ ~ (m < n)
  BY <1>2, <1>3
<1> QED
  BY <1>4

\* Naturals up to a bound have a largest one.
LEMMA MaxOfBounded ==
    ASSUME NEW S, S \subseteq Nat, S # {}, NEW bound \in Nat, \A n \in S : n <= bound
    PROVE  Max(S) \in S
<1> DEFINE Gaps == {bound - n : n \in S}
<1>1. Gaps \subseteq Nat /\ Gaps # {}
  <2>1. \A n \in S : bound - n \in Nat
    OBVIOUS
  <2> QED
    BY <2>1
<1>2. PICK least \in Gaps : \A gap \in Gaps : least <= gap
  BY <1>1, LeastNatural
<1>3. PICK n \in S : least = bound - n
  BY <1>2
<1>4. ASSUME NEW m \in S PROVE n >= m
  <2>1. bound - m \in Gaps
    OBVIOUS
  <2> HIDE DEF Gaps
  <2>2. bound - n <= bound - m
    BY <1>2, <1>3, <2>1
  <2> QED
    BY <2>2
<1> QED
  BY <1>4 DEF Max

\* The numbers of a job's attempts are bounded, whatever the bound.
Numbered == \E bound \in Nat : \A t \in tries : t.number <= bound

\* Only outcomes that log an attempt become the status of one.
AttemptIsLogged == pc = "log_attempt" => LogsAttempt(result.outcome)

Typed == TypeOK /\ Numbered /\ AttemptIsLogged /\ RoundInProgress

\* The next attempt number is one.
LEMMA NextAttemptNumberIsNat ==
    ASSUME Typed
    PROVE  NextAttemptNumber \in Nat
<1> DEFINE Numbers == {t.number : t \in AttemptsOf(Round)} \cup {0}
<1>1. PICK bound \in Nat : \A t \in tries : t.number <= bound
  BY DEF Typed, Numbered
<1>2. Numbers \subseteq Nat /\ Numbers # {}
  BY DEF Typed, TypeOK, Attempts, AttemptsOf
<1>3. \A n \in Numbers : n <= bound
  BY <1>1 DEF AttemptsOf
<1> HIDE DEF Numbers
<1>4. Max(Numbers) \in Nat
  BY <1>2, <1>3, MaxOfBounded
<1> QED
  BY <1>4 DEF NextAttemptNumber, Numbers

\* An attempt with a type and a number leaves the attempts typed and numbered.
LEMMA AddAttemptKeepsTypes ==
    ASSUME Typed, NEW row \in Attempts, AddAttempt(row)
    PROVE  tries' \subseteq Attempts /\ Numbered'
<1>1. PICK bound \in Nat : \A t \in tries : t.number <= bound
  BY DEF Typed, Numbered
<1>2. row.number \in Nat /\ \A t \in tries : t.number \in Nat
  BY DEF Attempts, Typed, TypeOK
<1>3. \A t \in tries' : t.number <= bound + row.number
  BY <1>1, <1>2 DEF AddAttempt
<1>4. bound + row.number \in Nat
  BY <1>1, <1>2
<1>5. tries' \subseteq Attempts
  BY DEF Typed, TypeOK, AddAttempt
<1> QED
  BY <1>3, <1>4, <1>5 DEF Numbered

\* A failure is one more attempt, and one more of its stage.
LEMMA FailedCounts ==
    ASSUME loop \in Loops, loop.attempt = loop.stage1 + loop.compile, NEW stage, Failed(stage)
    PROVE  /\ loop' \in Loops /\ loop'.attempt = loop'.stage1 + loop'.compile
           /\ loop'.attempt = loop.attempt + 1
<1>1. loop = [attempt |-> loop.attempt, stage1 |-> loop.stage1, compile |-> loop.compile]
      /\ loop.attempt \in Nat /\ loop.stage1 \in Nat /\ loop.compile \in Nat
  BY DEF Loops
<1>2. \/ loop' = [attempt |-> loop.attempt + 1, stage1 |-> loop.stage1,
                  compile |-> loop.compile + 1]
      \/ loop' = [attempt |-> loop.attempt + 1, stage1 |-> loop.stage1 + 1,
                  compile |-> loop.compile]
  BY <1>1 DEF Failed
<1>3. loop'.attempt = loop.attempt + 1 /\ loop'.attempt = loop'.stage1 + loop'.compile
  BY <1>1, <1>2
<1>4. loop' \in Loops
  BY <1>1, <1>2 DEF Loops
<1> QED
  BY <1>3, <1>4

LEMMA InitTyped == Init => Typed
<1>1. SUFFICES ASSUME Init PROVE Typed
  OBVIOUS
<1>2. TypeOK
  <2>1. rows \in [Rounds -> RoundRows]
    BY <1>1 DEF Init, RoundRows, NoRow
  <2>2. /\ faults \in [launches : 0 .. MaxLaunches, crashes : 0 .. MaxCrashes,
                       reruns : 0 .. MaxReruns]
        /\ done \in 0 .. MaxRounds /\ featured \subseteq 0 .. MaxRounds
    BY <1>1, ConstantsAssumption DEF Init
  <2>3. loop \in Loops /\ loop.attempt = loop.stage1 + loop.compile
    BY <1>1 DEF Init, FreshLoop, Loops
  <2> QED
    BY <1>1, <2>1, <2>2, <2>3 DEF Init, TypeOK, Pcs, NoResult, Results, Outcomes
<1>3. Numbered /\ AttemptIsLogged /\ RoundInProgress
  BY <1>1 DEF Init, Numbered, AttemptIsLogged, RoundInProgress, InRound
<1> QED
  BY <1>2, <1>3 DEF Typed

\* Around the rounds no row is written, and the loop starts from nothing.
LEMMA AroundTyped ==
    ASSUME Typed, Relaunch \/ Crash \/ ForcedBaselineRerun \/ BacktestEnds
                  \/ EvaluateTimesOut \/ BacktestFails
    PROVE  Typed'
<1>1. UNCHANGED <<rows, tries, screened, factors>> /\ ~InRound'
  BY DEF Relaunch, Crash, ForcedBaselineRerun, BacktestEnds, EvaluateTimesOut,
         BacktestFails, stateFile, tables, InRound
<1>2. faults' \in [launches : 0 .. MaxLaunches, crashes : 0 .. MaxCrashes,
                   reruns : 0 .. MaxReruns]
  BY ConstantsAssumption
  DEF Typed, TypeOK, Relaunch, Crash, ForcedBaselineRerun, BacktestEnds,
      EvaluateTimesOut, BacktestFails
<1>3. done' \in 0 .. MaxRounds /\ interrupted' \in BOOLEAN /\ featured' \subseteq 0 .. MaxRounds
  <2>1. done \in 0 .. MaxRounds /\ interrupted \in BOOLEAN /\ featured \subseteq 0 .. MaxRounds
    BY DEF Typed, TypeOK
  <2>2. /\ done' = done \/ (done > 0 /\ done' = done - 1) \/ done' = 0
        /\ interrupted' \in {interrupted, TRUE, FALSE}
        /\ featured' = featured \/ featured' = featured \cup {done}
    BY DEF Relaunch, Crash, ForcedBaselineRerun, BacktestEnds, EvaluateTimesOut,
           BacktestFails, stateFile, tables, Featured
  <2>3. done' \in 0 .. MaxRounds
    BY <2>1, <2>2, ConstantsAssumption
  <2> QED
    BY <2>1, <2>2, <2>3
<1>4. /\ loop' \in Loops /\ loop'.attempt = loop'.stage1 + loop'.compile
      /\ result' \in Results /\ exec' \in Nat /\ pc' \in Pcs
  BY DEF Typed, TypeOK, Relaunch, Crash, ForcedBaselineRerun, BacktestEnds,
         EvaluateTimesOut, BacktestFails, FreshLoop, Loops, NoResult, Results, Outcomes, Pcs
<1>5. TypeOK'
  BY <1>1, <1>2, <1>3, <1>4 DEF Typed, TypeOK
<1>6. Numbered'
  BY <1>1 DEF Typed, Numbered
<1>7. AttemptIsLogged' /\ RoundInProgress'
  BY <1>1 DEF AttemptIsLogged, RoundInProgress, InRound
<1> QED
  BY <1>5, <1>6, <1>7 DEF Typed

\* What a step of the round in progress has to keep.
RoundStep ==
    /\ done' = done /\ UNCHANGED <<interrupted, featured, faults>>
    /\ rows' = rows \/ \E row \in RoundRows \ {NoRow} : rows' = [rows EXCEPT ![Round] = row]
    /\ UNCHANGED tries \/ \E row \in Attempts : AddAttempt(row)
    /\ \A f \in (screened' \cup factors') \ (screened \cup factors) :
           f = [round |-> Round, attempt |-> loop.attempt + 1, exec |-> exec]
    /\ exec' \in Nat
    /\ loop' \in Loops /\ loop'.attempt = loop'.stage1 + loop'.compile
    /\ result' \in Results /\ pc' \in Pcs
    /\ Round \in Rounds /\ (InRound' => rows'[Round] # NoRow)

LEMMA RoundStepTyped ==
    ASSUME Typed, RoundStep, AttemptIsLogged'
    PROVE  Typed'
<1>1. Round \in Nat /\ Round' = Round /\ loop.attempt + 1 \in Nat /\ exec \in Nat
  BY DEF Typed, TypeOK, RoundStep, Round, Rounds, Loops
<1>2. rows' \in [Rounds -> RoundRows]
  BY DEF Typed, TypeOK, RoundStep
<1>3. tries' \subseteq Attempts /\ Numbered'
  BY AddAttemptKeepsTypes DEF RoundStep, Typed, TypeOK, Numbered
<1>4. screened' \subseteq Factors /\ factors' \subseteq Factors
  <2>1. [round |-> Round, attempt |-> loop.attempt + 1, exec |-> exec] \in Factors
    BY <1>1 DEF Factors, RoundStep
  <2> QED
    BY <2>1 DEF Typed, TypeOK, RoundStep
<1>5. TypeOK'
  BY <1>2, <1>3, <1>4 DEF Typed, TypeOK, RoundStep
<1>6. RoundInProgress'
  BY <1>1 DEF RoundStep, RoundInProgress
<1> QED
  BY <1>3, <1>5, <1>6 DEF Typed

LEMMA BeginRoundIsRoundStep ==
    ASSUME Typed, BeginRound
    PROVE  RoundStep
<1> DEFINE started == [outcome |-> "in_progress", thesis |-> 0]
<1>1. Round \in Rounds /\ started \in RoundRows /\ started # NoRow
  BY DEF Typed, TypeOK, BeginRound, Round, Rounds, RoundRows, NoRow
<1>2. rows' = [rows EXCEPT ![Round] = IF rows[Round] = NoRow THEN started ELSE rows[Round]]
  BY DEF BeginRound
<1> HIDE DEF started
<1>3. /\ rows'[Round] # NoRow
      /\ rows' = rows \/ \E row \in RoundRows \ {NoRow} : rows' = [rows EXCEPT ![Round] = row]
  BY <1>1, <1>2 DEF Typed, TypeOK
<1>4. /\ loop' \in Loops /\ loop'.attempt = loop'.stage1 + loop'.compile
      /\ result' \in Results /\ pc' \in Pcs /\ exec' \in Nat
  BY DEF Typed, TypeOK, BeginRound, FreshLoop, Loops, NoResult, Results, Outcomes, Pcs
<1> QED
  BY <1>1, <1>3, <1>4 DEF RoundStep, BeginRound, stateFile

\* The steps of the retry loop and of the logging, one by one.
LEMMA WorkIsRoundStep ==
    ASSUME Typed, GiveUp \/ ConductorFails \/ ConductorProposes \/ Validate
                  \/ LogRejectedAttempt \/ LogRound \/ LogAttempt
    PROVE  RoundStep
<1> USE DEF Typed, TypeOK
<1>1. /\ InRound /\ Round \in Rounds /\ rows[Round] # NoRow
      /\ loop.attempt \in Nat /\ loop.attempt + 1 \in Nat
  BY DEF RoundInProgress, InRound, GiveUp, ConductorFails, ConductorProposes, Validate,
         RejectAtStage1, RejectAtCompile, ScreeningKills, ScreeningRaises, SaveModel,
         Compiles, Passes, LogRejectedAttempt, LogRound, LogAttempt, Loops
<1>2. CASE GiveUp \/ ConductorFails
  BY <1>1, <1>2 DEF GiveUp, ConductorFails, Return, RoundStep, stateFile, Results, Outcomes, Pcs
<1>3. CASE ConductorProposes
  BY <1>1, <1>3 DEF ConductorProposes, RoundStep, stateFile, tables, Pcs
<1>4. CASE RejectAtStage1 \/ RejectAtCompile
  <2> DEFINE row == [outcome |-> "rejected_attempt", thesis |-> loop.attempt + 1]
  <2>1. /\ rows' = [rows EXCEPT ![Round] = row]
        /\ pc' \in {"rejected_stage_1", "rejected_compile"}
        /\ UNCHANGED <<stateFile, tries, screened, factors, featured, exec, loop, result,
                       faults>>
    BY <1>4 DEF RejectAtStage1, RejectAtCompile, Passes, LogRejectedRound
  <2>2. row \in RoundRows \ {NoRow}
    BY <1>1 DEF RoundRows, NoRow
  <2> HIDE DEF row
  <2>3. rows'[Round] # NoRow
    BY <1>1, <2>1, <2>2
  <2> QED
    BY <1>1, <2>1, <2>2, <2>3 DEF RoundStep, stateFile, Pcs
<1>5. CASE ScreeningKills
  <2>1. /\ loop' \in Loops /\ loop'.attempt = loop'.stage1 + loop'.compile
    BY <1>5, FailedCounts DEF ScreeningKills
  <2> QED
    BY <1>1, <1>5, <2>1 DEF ScreeningKills, RoundStep, stateFile, Pcs
<1>6. CASE ScreeningRaises
  BY <1>1, <1>6
  DEF ScreeningRaises, RoundStep, stateFile, tables, Pcs, FreshLoop, Loops, NoResult,
      Results, Outcomes
<1>7. CASE SaveModel \/ Compiles
  BY <1>1, <1>7 DEF SaveModel, Compiles, Passes, Return, RoundStep, stateFile, Results, Outcomes,
     Pcs
<1>8. CASE LogRejectedAttempt
  <2> DEFINE row == [round |-> Round, number |-> RejectedNumber, thesis |-> loop.attempt + 1,
                     exec |-> exec, status |-> "rejected_attempt"]
  <2>1. row \in Attempts
    BY <1>1 DEF Attempts, RejectedNumber
  <2>2. AddAttempt(row)
    BY <1>8 DEF LogRejectedAttempt
  <2>3. /\ loop' \in Loops /\ loop'.attempt = loop'.stage1 + loop'.compile
    BY <1>8, FailedCounts DEF LogRejectedAttempt
  <2> HIDE DEF row
  <2> QED
    BY <1>1, <1>8, <2>1, <2>2, <2>3 DEF LogRejectedAttempt, RoundStep, stateFile, Pcs
<1>9. CASE LogRound
  <2>1. result \in RoundRows \ {NoRow}
    BY DEF RoundRows, Results, Outcomes, NoRow
  <2>2. rows' = [rows EXCEPT ![Round] = result] /\ rows'[Round] # NoRow
    BY <1>1, <1>9, <2>1 DEF LogRound
  <2> QED
    BY <1>1, <1>9, <2>1, <2>2 DEF LogRound, RoundStep, stateFile, Pcs
<1>10. CASE LogAttempt
  <2> DEFINE row == [round |-> Round, number |-> NextAttemptNumber, thesis |-> result.thesis,
                     exec |-> exec, status |-> result.outcome]
  <2>1. result.thesis \in Nat /\ result.outcome \in {"compiled", "needs_code", "completed"}
    BY <1>10 DEF LogAttempt, AttemptIsLogged, LogsAttempt, Results, Outcomes
  <2>2. NextAttemptNumber \in Nat
    BY NextAttemptNumberIsNat
  <2>3. row \in Attempts
    BY <1>1, <2>1, <2>2 DEF Attempts
  <2>4. AddAttempt(row)
    BY <1>10 DEF LogAttempt
  <2> HIDE DEF row
  <2> QED
    BY <1>1, <1>10, <2>3, <2>4 DEF LogAttempt, RoundStep, stateFile, Pcs
<1> QED
  BY <1>2, <1>3, <1>4, <1>5, <1>6, <1>7, <1>8, <1>9, <1>10 DEF Validate

LEMMA NextTyped == Typed /\ [Next]_vars => Typed'
<1>1. SUFFICES ASSUME Typed, [Next]_vars PROVE Typed'
  OBVIOUS
<1>2. CASE Relaunch \/ Crash \/ ForcedBaselineRerun \/ BacktestEnds \/ EvaluateTimesOut
           \/ BacktestFails
  BY <1>1, <1>2, AroundTyped
<1>3. CASE BeginRound
  <2>1. AttemptIsLogged'
    BY <1>3 DEF BeginRound, AttemptIsLogged
  <2> QED
    BY <1>1, <1>3, <2>1, BeginRoundIsRoundStep, RoundStepTyped
<1>4. CASE GiveUp \/ ConductorFails \/ ConductorProposes \/ Validate \/ LogRejectedAttempt
           \/ LogRound \/ LogAttempt
  <2>1. AttemptIsLogged'
    BY <1>4
    DEF AttemptIsLogged, GiveUp, ConductorFails, ConductorProposes, Validate, RejectAtStage1,
        RejectAtCompile, LogRejectedRound, ScreeningKills, ScreeningRaises, SaveModel, Compiles,
        Return, LogRejectedAttempt, LogRound, LogAttempt
  <2> QED
    BY <1>1, <1>4, <2>1, WorkIsRoundStep, RoundStepTyped
<1>5. CASE Handle
  <2>1. done' \in 0 .. MaxRounds /\ interrupted' \in BOOLEAN /\ UNCHANGED <<tables, exec, faults>>
    BY <1>1, <1>5, ConstantsAssumption
    DEF Typed, RoundInProgress, InRound, Handle, ReadyToHandle, Rounds
  <2>2. pc' \in {"down", "over", "backtest"}
    BY <1>5 DEF Handle, AfterHandler
  <2>3. loop' \in Loops /\ loop'.attempt = loop'.stage1 + loop'.compile /\ result' \in Results
    BY <1>5 DEF Handle, FreshLoop, Loops, NoResult, Results, Outcomes
  <2>4. TypeOK'
    BY <1>1, <2>1, <2>2, <2>3 DEF Typed, TypeOK, tables, Pcs
  <2>5. Numbered'
    BY <1>1, <2>1 DEF Typed, Numbered, tables
  <2>6. AttemptIsLogged' /\ RoundInProgress'
    BY <2>2 DEF AttemptIsLogged, RoundInProgress, InRound
  <2> QED
    BY <2>4, <2>5, <2>6 DEF Typed
<1>6. CASE UNCHANGED vars
  BY <1>1, <1>6
  DEF vars, Typed, TypeOK, Numbered, AttemptIsLogged, RoundInProgress, InRound, Round
<1> QED
  BY <1>1, <1>2, <1>3, <1>4, <1>5, <1>6 DEF Next, Work

LEMMA SpecTyped == Spec => []Typed
BY InitTyped, NextTyped, PTL DEF Spec

\* Every variable keeps its type, and the loop's counters add up.
THEOREM TypeCorrect == Spec => []TypeOK
<1>1. Typed => TypeOK
  BY DEF Typed
<1> QED
  BY <1>1, SpecTyped, PTL

-----------------------------------------------------------------------------
(* What the rejected proposals of an execution leave behind.               *)

\* The attempt a rejection leaves has the number of its thesis, so that only the
\* rejection of the same proposal could replace it.
Trace(a) == \/ \E t \in AttemptsOf(Round) : t.exec = exec /\ t.thesis = a /\ t.number = a
            \/ [round |-> Round, attempt |-> a, exec |-> exec] \in screened

Asking == pc \in {"ask", "validate", "rejected_stage_1", "rejected_compile"}
ProposalsAreTraced == Asking => \A a \in 1 .. loop.attempt : Trace(a)

\* A rejected attempt replaces none with a smaller number.
LEMMA RejectionKeepsTraces ==
    ASSUME Typed, ProposalsAreTraced, Asking, Round' = Round, exec' = exec,
           loop'.attempt = loop.attempt + 1,
           \/ screened' = screened \cup {[round |-> Round, attempt |-> loop.attempt + 1,
                                          exec |-> exec]} /\ tries' = tries
           \/ /\ screened' = screened
              /\ AddAttempt([round |-> Round, number |-> loop.attempt + 1,
                             thesis |-> loop.attempt + 1, exec |-> exec,
                             status |-> "rejected_attempt"])
    PROVE  ProposalsAreTraced'
<1> DEFINE row == [round |-> Round, number |-> loop.attempt + 1, thesis |-> loop.attempt + 1,
                   exec |-> exec, status |-> "rejected_attempt"]
           screening(a) == [round |-> Round, attempt |-> a, exec |-> exec]
<1>1. loop.attempt \in Nat
  BY DEF Typed, TypeOK, Loops
<1>2. SUFFICES ASSUME NEW a \in 1 .. loop.attempt + 1 PROVE Trace(a)'
  BY DEF ProposalsAreTraced
<1>3. SUFFICES \/ \E t \in tries' : t.round = Round /\ t.exec = exec /\ t.thesis = a
                                    /\ t.number = a
               \/ screening(a) \in screened'
  BY DEF Trace, AttemptsOf
<1>4. \/ screened' = screened \cup {screening(loop.attempt + 1)} /\ tries' = tries
      \/ screened' = screened /\ AddAttempt(row)
  OBVIOUS
<1>5. row.round = Round /\ row.number = loop.attempt + 1 /\ row.thesis = loop.attempt + 1
      /\ row.exec = exec
  OBVIOUS
<1> HIDE DEF row, screening
<1>6. CASE a = loop.attempt + 1
  BY <1>4, <1>5, <1>6 DEF AddAttempt
<1>7. CASE a # loop.attempt + 1
  <2>1. a \in 1 .. loop.attempt
    BY <1>1, <1>7
  <2>2. Trace(a)
    BY <2>1 DEF ProposalsAreTraced
  <2>3. CASE screening(a) \in screened
    BY <1>4, <2>3
  <2>4. CASE screening(a) \notin screened
    <3>1. PICK t \in AttemptsOf(Round) : t.exec = exec /\ t.thesis = a /\ t.number = a
      BY <2>2, <2>4 DEF Trace, screening
    <3>2. t \in tries /\ t.round = Round
      BY <3>1 DEF AttemptsOf
    <3>3. t \in tries'
      BY <1>4, <1>5, <1>7, <3>1, <3>2 DEF AddAttempt
    <3> QED
      BY <3>1, <3>2, <3>3
  <2> QED
    BY <2>3, <2>4
<1> QED
  BY <1>6, <1>7

LEMMA NextTraced == Typed /\ ProposalsAreTraced /\ [Next]_vars => ProposalsAreTraced'
<1>1. SUFFICES ASSUME Typed, ProposalsAreTraced, [Next]_vars PROVE ProposalsAreTraced'
  OBVIOUS
<1>2. CASE LogRejectedAttempt
  <2>1. loop'.attempt = loop.attempt + 1
    BY <1>1, <1>2, FailedCounts DEF Typed, TypeOK, LogRejectedAttempt
  <2> QED
    BY <1>1, <1>2, <2>1, RejectionKeepsTraces
    DEF LogRejectedAttempt, RejectedNumber, stateFile, Asking, Round
<1>3. CASE ScreeningKills
  <2>1. loop'.attempt = loop.attempt + 1
    BY <1>1, <1>3, FailedCounts DEF Typed, TypeOK, ScreeningKills
  <2> QED
    BY <1>1, <1>3, <2>1, RejectionKeepsTraces
    DEF ScreeningKills, stateFile, Asking, Round
<1>4. CASE BeginRound
  <2>1. loop'.attempt = 0
    BY <1>4 DEF BeginRound, FreshLoop
  <2> QED
    BY <2>1 DEF ProposalsAreTraced
<1>5. CASE ConductorProposes \/ RejectAtStage1 \/ RejectAtCompile \/ UNCHANGED vars
  <2>1. UNCHANGED <<done, tries, screened, exec, loop>> /\ (Asking' => Asking)
    BY <1>5 DEF ConductorProposes, RejectAtStage1, RejectAtCompile, Passes, LogRejectedRound,
                stateFile, tables, vars, Asking
  <2>2. \A a : Trace(a)' = Trace(a)
    BY <2>1 DEF Trace, AttemptsOf, Round
  <2> QED
    BY <1>1, <2>1, <2>2 DEF ProposalsAreTraced
<1>6. CASE Relaunch \/ Crash \/ ForcedBaselineRerun \/ BacktestEnds \/ EvaluateTimesOut
           \/ BacktestFails \/ GiveUp \/ ConductorFails \/ ScreeningRaises \/ SaveModel
           \/ Compiles \/ LogRound \/ LogAttempt \/ Handle
  <2>1. ~Asking'
    BY <1>6
    DEF Relaunch, Crash, ForcedBaselineRerun, BacktestEnds, EvaluateTimesOut, BacktestFails,
        GiveUp, ConductorFails, Return, ScreeningRaises, SaveModel, Compiles, LogRound,
        LogAttempt, Handle, AfterHandler, Asking
  <2> QED
    BY <2>1 DEF ProposalsAreTraced
<1> QED
  BY <1>1, <1>2, <1>3, <1>4, <1>5, <1>6 DEF Next, Work, Validate

\* Each proposal an execution has rejected is in the database when the conductor
\* is asked again.
THEOREM TraceTheorem == Spec => []FailuresLeaveTrace
<1>1. Init => ProposalsAreTraced
  BY DEF Init, ProposalsAreTraced, Asking
<1>2. ProposalsAreTraced => FailuresLeaveTrace
  BY DEF ProposalsAreTraced, Asking, FailuresLeaveTrace, Trace
<1> QED
  BY <1>1, <1>2, NextTraced, SpecTyped, PTL DEF Spec

-----------------------------------------------------------------------------
(* The factors that rounds save.                                           *)

\* A round saves its factor with the answer that completes it.  Until a crash or
\* a rerun, every factor is of a round the state file has left, or of the round
\* whose answer is on its way there; and a round that is executed again, because
\* it was rejected or its evaluation timed out, has none.
Undisturbed == faults.crashes = 0 /\ faults.reruns = 0
Answering == pc \in {"answered", "log_attempt", "handle"}
OfEndedRound(f) ==
    f.round <= done \/ (Answering /\ result.outcome = "completed" /\ f.round = Round)
FactorsAreBehind ==
    /\ interrupted => pc = "down"
    /\ Undisturbed =>
          \A f \in factors : /\ OfEndedRound(f)
                             /\ pc = "backtest" \/ interrupted => f.round # done

LEMMA NextBehind == Typed /\ FactorsAreBehind /\ [Next]_vars => FactorsAreBehind'
<1>1. SUFFICES ASSUME Typed, FactorsAreBehind, [Next]_vars PROVE FactorsAreBehind'
  OBVIOUS
<1>2. /\ done \in Nat /\ faults.crashes \in Nat /\ faults.reruns \in Nat
      /\ \A f \in factors : f.round \in Nat
  BY <1>1, ConstantsAssumption DEF Typed, TypeOK, Factors, Rounds
<1>3. CASE Relaunch
  <2>1. faults'.crashes = faults.crashes /\ faults'.reruns = faults.reruns
    BY <1>1, <1>3 DEF Relaunch, Typed, TypeOK
  <2>2. /\ done' = IF interrupted /\ done > 0 THEN done - 1 ELSE done
        /\ factors' = factors /\ ~interrupted' /\ pc = "down" /\ pc' = "over"
    BY <1>3 DEF Relaunch, tables
  <2>3. Undisturbed' => \A f \in factors : f.round <= done'
    <3> SUFFICES ASSUME Undisturbed', NEW f \in factors PROVE f.round <= done'
      OBVIOUS
    <3>1. f.round <= done /\ (interrupted => f.round # done)
      BY <1>1, <2>1, <2>2 DEF FactorsAreBehind, Undisturbed, OfEndedRound, Answering
    <3> QED
      BY <1>2, <2>2, <3>1
  <2> QED
    BY <2>2, <2>3 DEF FactorsAreBehind, OfEndedRound
<1>4. CASE Crash \/ ForcedBaselineRerun
  <2>1. ~Undisturbed'
    BY <1>1, <1>2, <1>4 DEF Crash, ForcedBaselineRerun, Undisturbed, Typed, TypeOK
  <2>2. interrupted' => pc' = "down"
    BY <1>1, <1>4 DEF Crash, ForcedBaselineRerun, FactorsAreBehind, stateFile
  <2> QED
    BY <2>1, <2>2 DEF FactorsAreBehind
<1>5. CASE BacktestEnds \/ EvaluateTimesOut \/ BacktestFails
  <2>1. /\ UNCHANGED <<done, factors, faults, result>> /\ pc = "backtest" /\ ~Answering
        /\ pc' \in {"over", "down"} /\ (interrupted' => pc' = "down")
    BY <1>1, <1>5
    DEF BacktestEnds, EvaluateTimesOut, BacktestFails, FactorsAreBehind, stateFile, tables,
        Answering
  <2> QED
    BY <1>1, <2>1 DEF FactorsAreBehind, Undisturbed, OfEndedRound
<1>6. CASE BeginRound \/ ConductorProposes \/ RejectAtStage1 \/ RejectAtCompile
           \/ ScreeningKills \/ ScreeningRaises \/ LogRejectedAttempt \/ GiveUp
           \/ ConductorFails \/ Compiles
  <2>1. /\ UNCHANGED <<done, interrupted, factors, faults>> /\ ~Answering
        /\ pc # "down" /\ pc' # "backtest"
    BY <1>6
    DEF BeginRound, ConductorProposes, RejectAtStage1, RejectAtCompile, Passes,
        LogRejectedRound, ScreeningKills, ScreeningRaises, LogRejectedAttempt, GiveUp,
        ConductorFails, Compiles, Return, stateFile, tables, Answering
  <2> QED
    BY <1>1, <2>1 DEF FactorsAreBehind, Undisturbed, OfEndedRound
<1>7. CASE SaveModel
  <2>1. /\ UNCHANGED <<done, interrupted, faults>> /\ ~Answering /\ Answering'
        /\ pc = "validate" /\ pc' = "answered" /\ result'.outcome = "completed"
        /\ factors' = factors \cup {[round |-> Round, attempt |-> loop.attempt + 1,
                                     exec |-> exec]}
    BY <1>7 DEF SaveModel, Passes, Return, stateFile, Answering
  <2>2. Round' = Round
    BY <2>1 DEF Round
  <2> QED
    BY <1>1, <2>1, <2>2 DEF FactorsAreBehind, Undisturbed, OfEndedRound
<1>8. CASE LogRound \/ LogAttempt \/ UNCHANGED vars
  <2>1. /\ UNCHANGED <<done, interrupted, factors, faults, result>>
        /\ pc' = pc \/ (Answering /\ Answering')
    BY <1>8 DEF LogRound, LogAttempt, stateFile, vars, Answering
  <2> QED
    BY <1>1, <2>1 DEF FactorsAreBehind, Undisturbed, OfEndedRound, Answering, Round
<1>9. CASE Handle
  <2>1. /\ done' = Round /\ UNCHANGED <<factors, faults>> /\ pc = "handle"
        /\ interrupted' = (result.outcome = "rejected")
        /\ pc' = AfterHandler(result.outcome)
    BY <1>9 DEF Handle, ReadyToHandle, tables
  <2>2. /\ result.outcome = "completed" => ~interrupted' /\ pc' = "over"
        /\ interrupted' => pc' = "down"
    BY <2>1 DEF AfterHandler
  <2>3. Undisturbed' => \A f \in factors : /\ f.round <= Round
                                           /\ f.round = Round => result.outcome = "completed"
    BY <1>1, <1>2, <2>1 DEF FactorsAreBehind, Undisturbed, OfEndedRound, Round
  <2> QED
    BY <2>1, <2>2, <2>3 DEF FactorsAreBehind, OfEndedRound
<1> QED
  BY <1>1, <1>3, <1>4, <1>5, <1>6, <1>7, <1>8, <1>9 DEF Next, Work, Validate

\* Scoring meets no factor id the causal model has, before a crash or a rerun.
THEOREM FactorTheorem == Spec => []FactorIdsAreFresh
<1>1. Init => FactorsAreBehind
  BY DEF Init, FactorsAreBehind
<1>2. Typed /\ FactorsAreBehind => FactorIdsAreFresh
  <2>1. SUFFICES ASSUME Typed, FactorsAreBehind, pc = "validate", Undisturbed,
                        NEW f \in factors
                 PROVE  f.round # Round
    BY DEF FactorIdsAreFresh, FactorIdTaken, Undisturbed
  <2>2. f.round <= done
    BY <2>1 DEF FactorsAreBehind, OfEndedRound, Answering
  <2>3. done \in Nat /\ f.round \in Nat
    BY <2>1, ConstantsAssumption DEF Typed, TypeOK, Factors, Rounds
  <2> QED
    BY <2>2, <2>3 DEF Round
<1> QED
  BY <1>1, <1>2, NextBehind, SpecTyped, PTL DEF Spec
=============================================================================
