------------------------- MODULE CausalLedgerProofs -------------------------
(***************************************************************************)
(* What the factors of a family's causal model say, for any rules,         *)
(* predictions, windows and survival rate, any number of jobs and rounds,  *)
(* and a process that dies at any step of a round, a retest being executed *)
(* and promoted again after each death.                                    *)
(***************************************************************************)
EXTENDS CausalLedger, SequenceTheorems, WellFoundedInduction, TLAPS

Tests == {"ready", "measured", "compared", "judged"}     \* before the harvest
Working == Tests \cup {"harvested", "logged"}
Decided == outcomes \cap Credited # {}          \* a verdict of the round was promoted
UnderTest == pc \in Working /\ ~Decided
Candidate(rule) == [thesis |-> This, rule |-> rule, status |-> "candidate"]

\* Rounds that have begun.
Begun(r) == r[1] < at.job \/ (r[1] = at.job /\ r[2] <= at.round)

\* The pending factor that a promotion takes.
First(rule) == pending[Least({i \in DOMAIN pending : pending[i].rule = rule})]

\* The model with its candidate waits for the first promotion; what that has taken is
\* then a factor of the model, and the next one takes the same.
Waiting ==
    /\ UnderTest => pending = Append(model, Candidate(proposed[This]))
    /\ pc \in Working /\ Decided =>
          /\ \E i \in DOMAIN pending : pending[i].rule = proposed[This]
          /\ \E f \in RangeOf(model) :
                f.rule = proposed[This] /\ f.thesis = First(proposed[This]).thesis

\* The type invariant, with what it needs of the place.
Typed ==
    /\ TypeOK
    /\ pc # "plan" => at.round > 0
    /\ pc \in Working => proposed[This] # NoRule
    /\ pc \in {"judged", "harvested", "logged"} => verdict # "none"
    /\ Waiting
    /\ pc = "walkforward" => queue \subseteq Candidates

\* Nothing is known of rounds to come.
Past ==
    /\ \A f \in RangeOf(model) : Begun(f.thesis)
    /\ \A r \in Rounds : proposed[r] # NoRule \/ runs[r] # "none" => Begun(r)
    /\ \A d \in demotions : Begun(d.round)

\* A decision to keep is of a supported verdict.  A rule under test is active nowhere,
\* and its round has no factor yet.  As long as no retest is reversed, a rule has the
\* verdict that its round came to; one whose test was accepted is active until the
\* walkforward of its job, and no note is of it.
KeptIsSupported == pc \in {"judged", "harvested", "logged"} => (keep => verdict = "supported")
TestIsFirst ==
    UnderTest => ~Duplicate(proposed[This]) /\ \A f \in RangeOf(model) : f.thesis # This
OneOutcome == \A a, b \in outcomes \cap Final : a = b
DecidedIsCredited ==
    pc \in Working /\ Decided => \A f \in RangeOf(model) : f.rule = proposed[This] =>
        f.status = IF "supported" \in outcomes THEN "harvested" ELSE "refuted"
AcceptedIsActive == pc # "walkforward" => \A r \in Candidates : Duplicate(proposed[r])
NotesAreUntested ==
    \A f \in RangeOf(model) : f.status = "candidate" => \A r \in Candidates : proposed[r] # f.rule
Credible == OneOutcome /\ DecidedIsCredited /\ AcceptedIsActive /\ NotesAreUntested
Tested == KeptIsSupported /\ TestIsFirst /\ (~reversed => Credible)

\* Of two factors with a rule one is a note, and nobody has tested it.
OneIsANote ==
    \A i, k \in DOMAIN model : i # k =>
        /\ model[i].thesis # model[k].thesis
        /\ model[i].rule = model[k].rule =>
            \/ model[i].status = "candidate" /\ model[k].status \in {"demoted", "refuted"}
            \/ model[k].status = "candidate" /\ model[i].status \in {"demoted", "refuted"}
DemotionsAreOwn == \A d \in demotions : d.rule \in {proposed[d.round], NoRule}
Distinct == ~reversed /\ DemotionsAreOwn => OneIsANote

Inv ==
    /\ Typed /\ Past /\ Tested /\ Distinct
    /\ VerdictIsCredited /\ CreditIsRecorded

USE DEF history, tested

-----------------------------------------------------------------------------
(* The operators: least indices, appended, merged and demoted factors.     *)

LEMMA LeastIsLeast ==
    ASSUME NEW S, S \subseteq Nat, S # {}
    PROVE  Least(S) \in S /\ \A k \in S : Least(S) <= k
<1> DEFINE R == OpToRel(<, Nat)
<1>1. IsWellFoundedOn(R, Nat)
  BY NatLessThanWellFounded
<1>2. \A x, y \in Nat : <<y, x>> \in R <=> y < x
  BY DEF OpToRel
<1> HIDE DEF R
<1>3. PICK n \in S : \A m \in S : <<m, n>> \notin R
  BY <1>1, WFMin
<1>4. \A m \in S : m \in Nat /\ ~ (m < n)
  BY <1>2, <1>3
<1>5. \E i \in S : \A k \in S : i <= k
  BY <1>4
<1> QED
  BY <1>5 DEF Least

LEMMA AppendedFactor ==
    ASSUME NEW S, NEW s \in Seq(S), NEW e \in S
    PROVE  /\ Append(s, e) \in Seq(S)
           /\ DOMAIN s = 1 .. Len(s) /\ Len(s) \in Nat
           /\ DOMAIN Append(s, e) = 1 .. Len(s) + 1
           /\ \A i \in DOMAIN s : Append(s, e)[i] = s[i]
           /\ Append(s, e)[Len(s) + 1] = e
           /\ RangeOf(Append(s, e)) = RangeOf(s) \cup {e}
<1>1. /\ Append(s, e) \in Seq(S)
      /\ DOMAIN s = 1 .. Len(s) /\ Len(s) \in Nat
      /\ DOMAIN Append(s, e) = 1 .. Len(s) + 1
      /\ \A i \in DOMAIN s : Append(s, e)[i] = s[i]
      /\ Append(s, e)[Len(s) + 1] = e
  BY AppendProperties, LenProperties
<1>2. \A i : i \in 1 .. Len(s) + 1 <=> i \in 1 .. Len(s) \/ i = Len(s) + 1
  BY <1>1
<1> DEFINE t == Append(s, e)
<1> HIDE DEF t
<1>3. RangeOf(t) = RangeOf(s) \cup {e}
  <2>1. DOMAIN t = DOMAIN s \cup {Len(s) + 1}
    BY <1>1, <1>2 DEF t
  <2>2. (\A i \in DOMAIN s : t[i] = s[i]) /\ t[Len(s) + 1] = e
    BY <1>1 DEF t
  <2> QED
    BY <2>1, <2>2 DEF RangeOf
<1> QED
  BY <1>1, <1>3 DEF t

LEMMA MappedFactors ==
    ASSUME NEW s \in Seq(Factors), NEW t, DOMAIN t = DOMAIN s,
           t = [i \in DOMAIN s |-> t[i]], \A i \in DOMAIN s : t[i] \in Factors
    PROVE  t \in Seq(Factors)
<1>1. DOMAIN s = 1 .. Len(s) /\ Len(s) \in Nat
  BY LenProperties
<1>2. t \in [1 .. Len(s) -> Factors]
  BY <1>1
<1> QED
  BY <1>1, <1>2, IsASeq

LEMMA RoundUnderWay == ASSUME Typed, pc # "plan" PROVE This \in Rounds
<1>1. at.job \in 1 .. MaxJobs /\ at.round \in 0 .. MaxRounds /\ at.round > 0
  BY DEF Typed, TypeOK
<1>2. at.round \in 1 .. MaxRounds
  BY <1>1, ConstantsAssumption
<1> QED
  BY <1>1, <1>2 DEF This, Rounds

LEMMA RuleUnderTest == ASSUME Typed, pc \in Working PROVE proposed[This] \in Rules
<1>1. This \in Rounds
  BY RoundUnderWay DEF Working, Tests
<1>2. proposed[This] \in Rules \cup {NoRule} /\ proposed[This] # NoRule
  BY <1>1 DEF Typed, TypeOK
<1> QED
  BY <1>2

\* What the harvest makes of the rule: the factor that is in the model with it, or the
\* candidate of the round where there is none.
LEMMA PromotedFactor ==
    ASSUME Typed, pc = "judged"
    PROVE  LET rule == proposed[This] IN
           /\ This \in Rounds /\ rule \in Rules
           /\ Promoted(rule) \in Factors
           /\ Promoted(rule).rule = rule /\ Promoted(rule).status = TargetStatus
           /\ Promoted(rule).thesis = First(rule).thesis
           /\ \/ \E k \in DOMAIN model : /\ model[k].rule = rule
                                         /\ Promoted(rule).thesis = model[k].thesis
              \/ /\ \A k \in DOMAIN model : model[k].rule # rule
                 /\ Promoted(rule).thesis = This
<1> DEFINE rule == proposed[This]
           having == {i \in DOMAIN pending : pending[i].rule = rule}
           first == Least(having)
<1>1. This \in Rounds /\ rule \in Rules
  BY RoundUnderWay, RuleUnderTest DEF Working, Tests
<1>2. Candidate(rule) \in Factors /\ Candidate(rule).rule = rule /\ Candidate(rule).thesis = This
  BY <1>1 DEF Candidate, Factors, Statuses
<1>3. model \in Seq(Factors) /\ pending \in Seq(Factors)
  BY DEF Typed, TypeOK
<1>4. /\ DOMAIN model = 1 .. Len(model) /\ Len(model) \in Nat
      /\ DOMAIN pending \subseteq Nat /\ having \subseteq Nat
  BY <1>3, LenProperties
<1>5. ASSUME ~Decided
      PROVE  /\ DOMAIN pending = 1 .. Len(model) + 1
             /\ \A i \in DOMAIN model : pending[i] = model[i]
             /\ pending[Len(model) + 1] = Candidate(rule)
  <2>1. pending = Append(model, Candidate(rule))
    BY <1>5 DEF Typed, Waiting, UnderTest, Working, Tests
  <2> QED
    BY <1>2, <1>3, <2>1, AppendedFactor
<1> HIDE DEF rule
<1>6. having # {}
  <2>1. CASE Decided
    BY <2>1 DEF Typed, Waiting, Working, Tests, rule
  <2>2. CASE ~Decided
    BY <1>2, <1>4, <1>5, <2>2
  <2> QED
    BY <2>1, <2>2
<1>7. first \in having /\ \A k \in having : first <= k
  BY <1>4, <1>6, LeastIsLeast
<1>8. First(rule) = pending[first]
  BY DEF First
<1> HIDE DEF first
<1>9. first \in DOMAIN pending /\ pending[first].rule = rule
  BY <1>7
<1>10. pending[first] \in Factors
  BY <1>3, <1>9, ElementOfSeq, LenProperties
<1>11. Promoted(rule) = [pending[first] EXCEPT !.status = TargetStatus]
  BY DEF Promoted, first
<1>12. Promoted(rule) \in Factors
       /\ Promoted(rule).rule = rule /\ Promoted(rule).status = TargetStatus
       /\ Promoted(rule).thesis = First(rule).thesis
  BY <1>8, <1>9, <1>10, <1>11 DEF Factors, Statuses, TargetStatus
<1>13. CASE Decided
  <2>1. \E f \in RangeOf(model) : f.rule = rule /\ f.thesis = First(rule).thesis
    BY <1>13 DEF Typed, Waiting, Working, Tests, rule
  <2>2. \E k \in DOMAIN model : model[k].rule = rule /\ Promoted(rule).thesis = model[k].thesis
    BY <1>12, <2>1 DEF RangeOf
  <2> QED
    BY <1>1, <1>12, <2>2 DEF rule
<1>14. CASE ~Decided /\ first \in DOMAIN model
  <2>1. model[first].rule = rule /\ Promoted(rule).thesis = model[first].thesis
    BY <1>5, <1>8, <1>9, <1>12, <1>14
  <2> QED
    BY <1>1, <1>12, <1>14, <2>1 DEF rule
<1>15. CASE ~Decided /\ first \notin DOMAIN model
  <2>1. first = Len(model) + 1
    BY <1>4, <1>5, <1>9, <1>15
  <2>2. ASSUME NEW k \in DOMAIN model, model[k].rule = rule PROVE FALSE
    <3>1. k \in having
      BY <1>4, <1>5, <1>15, <2>2
    <3>2. first <= k /\ k \in 1 .. Len(model)
      BY <1>4, <1>7, <3>1
    <3> QED
      BY <1>4, <2>1, <3>2
  <2>3. Promoted(rule).thesis = This
    BY <1>2, <1>5, <1>8, <1>12, <1>15, <2>1
  <2> QED
    BY <1>1, <1>12, <2>2, <2>3 DEF rule
<1> QED
  BY <1>13, <1>14, <1>15

\* The factors after the harvest: that one, and those of the other rules.
LEMMA MergedModel ==
    ASSUME Typed, pc = "judged"
    PROVE  LET rule == proposed[This]
               merged == MergedFactors(rule)
           IN  /\ merged \in Seq(Factors)
               /\ Promoted(rule) \in RangeOf(merged)
               /\ \A f \in RangeOf(merged) :
                     f = Promoted(rule) \/ (f \in RangeOf(model) /\ f.rule # rule)
               /\ \A f \in RangeOf(model) : f.rule # rule => f \in RangeOf(merged)
<1> DEFINE rule == proposed[This]
           merged == MergedFactors(rule)
<1>1. Promoted(rule) \in Factors
  BY PromotedFactor
<1>2. model \in Seq(Factors)
  BY DEF Typed, TypeOK
<1> HIDE DEF rule
<1>3. CASE \E f \in RangeOf(model) : f.rule = rule
  <2>1. merged = [i \in DOMAIN model |-> IF model[i].rule = rule THEN Promoted(rule) ELSE model[i]]
    BY <1>3 DEF MergedFactors
  <2> HIDE DEF merged
  <2>2. DOMAIN merged = DOMAIN model /\ merged = [i \in DOMAIN model |-> merged[i]]
    BY <2>1
  <2>3. \A i \in DOMAIN model : model[i] \in Factors
    BY <1>2, ElementOfSeq, LenProperties
  <2>4. \A i \in DOMAIN model :
           merged[i] = IF model[i].rule = rule THEN Promoted(rule) ELSE model[i]
    BY <2>1
  <2>5. merged \in Seq(Factors)
    BY <1>1, <1>2, <2>2, <2>3, <2>4, MappedFactors
  <2> QED
    BY <1>3, <2>2, <2>4, <2>5 DEF RangeOf, rule, merged
<1>4. CASE ~ \E f \in RangeOf(model) : f.rule = rule
  <2>1. merged = Append(model, Promoted(rule))
    BY <1>4 DEF MergedFactors
  <2>2. merged \in Seq(Factors) /\ RangeOf(merged) = RangeOf(model) \cup {Promoted(rule)}
    BY <1>1, <1>2, <2>1, AppendedFactor
  <2> QED
    BY <1>4, <2>2 DEF rule, merged
<1> QED
  BY <1>3, <1>4

LEMMA DemotedModel ==
    ASSUME TypeOK, NEW rule
    PROVE  /\ DemotedFactors(rule) \in Seq(Factors)
           /\ DOMAIN DemotedFactors(rule) = DOMAIN model
           /\ \A i \in DOMAIN model :
                 /\ DemotedFactors(rule)[i].thesis = model[i].thesis
                 /\ DemotedFactors(rule)[i].rule = model[i].rule
                 /\ DemotedFactors(rule)[i].status =
                      IF model[i].rule = rule THEN "demoted" ELSE model[i].status
<1>1. model \in Seq(Factors)
  BY DEF TypeOK
<1>2. \A i \in DOMAIN model : model[i] \in Factors
  BY <1>1, ElementOfSeq, LenProperties
<1> DEFINE t == DemotedFactors(rule)
<1>3. /\ DOMAIN t = DOMAIN model /\ t = [i \in DOMAIN model |-> t[i]]
      /\ \A i \in DOMAIN model :
            t[i] = IF model[i].rule = rule THEN [model[i] EXCEPT !.status = "demoted"] ELSE model[i]
  BY DEF DemotedFactors
<1> HIDE DEF t
<1>4. ASSUME NEW i \in DOMAIN model
      PROVE  /\ t[i] \in Factors
             /\ t[i].thesis = model[i].thesis /\ t[i].rule = model[i].rule
             /\ t[i].status = IF model[i].rule = rule THEN "demoted" ELSE model[i].status
  BY <1>2, <1>3 DEF Factors, Statuses
<1>5. t \in Seq(Factors)
  BY <1>1, <1>3, <1>4, MappedFactors
<1> QED
  BY <1>3, <1>4, <1>5 DEF t

-----------------------------------------------------------------------------
(* Types.                                                                  *)

LEMMA InitInv == Init => Inv
<1> SUFFICES ASSUME Init PROVE Inv
  OBVIOUS
<1>1. model = <<>> /\ pending = <<>> /\ <<>> \in Seq(Factors) /\ RangeOf(<<>>) = {}
      /\ DOMAIN <<>> = {}
  BY EmptySeq DEF Init, RangeOf
<1>2. at \in [job : 1 .. MaxJobs, round : 0 .. MaxRounds]
  BY ConstantsAssumption DEF Init
<1>3. TypeOK
  BY <1>1, <1>2 DEF Init, TypeOK, Verdicts
<1>4. Typed
  BY <1>3 DEF Init, Typed, Waiting, UnderTest, Working, Tests
<1>5. \A r \in Rounds : proposed[r] = NoRule /\ runs[r] = "none"
  BY DEF Init
<1>6. Past
  BY <1>1, <1>5 DEF Init, Past
<1>7. Candidates = {}
  BY <1>5 DEF Candidates
<1>8. Tested
  BY <1>1, <1>7
  DEF Init, Tested, Credible, KeptIsSupported, TestIsFirst, OneOutcome, DecidedIsCredited,
      AcceptedIsActive, NotesAreUntested, UnderTest, Working, Tests
<1>9. Distinct /\ VerdictIsCredited /\ CreditIsRecorded
  BY <1>1 DEF Init, Distinct, OneIsANote, VerdictIsCredited, CreditIsRecorded
<1> QED
  BY <1>4, <1>6, <1>8, <1>9 DEF Inv

LEMMA VerdictsAreTyped ==
    \A v \in BacktestVerdicts : Forced(v) \in Verdicts /\ Forced(v) # "none"
<1>1. \A b \in BOOLEAN : \A r : Evaluate(b, r) \in Verdicts /\ Evaluate(b, r) # "none"
  BY DEF Evaluate, Verdicts, Final
<1>2. \A v \in BacktestVerdicts : v \in Verdicts /\ v # "none"
  BY <1>1 DEF BacktestVerdicts
<1> QED
  BY <1>2 DEF Forced, Verdicts, Final

LEMMA RecordsAreTyped ==
    ASSUME TypeOK, NEW outcome \in Outcomes, Record(outcome)
    PROVE  /\ outcomes' \subseteq Outcomes /\ reversed' \in BOOLEAN
           /\ outcomes' = outcomes \cup {outcome}
BY DEF TypeOK, Record

\* The round that a proposal or a note begins.
Begins == <<at.job, at.round + 1>>

LEMMA RoundBegins ==
    ASSUME TypeOK, MayResearch
    PROVE  /\ Begins \in Rounds
           /\ [at EXCEPT !.round = @ + 1] \in [job : 1 .. MaxJobs, round : 0 .. MaxRounds]
BY ConstantsAssumption DEF TypeOK, MayResearch, Begins, Rounds

\* A step of the round keeps what waits, and after the round nothing does.
LEMMA WaitingStays ==
    ASSUME Waiting,
           \/ pc' \notin Working
           \/ pc \in Working /\ UNCHANGED <<at, model, pending, proposed, outcomes>>
    PROVE  Waiting'
BY DEF Waiting, UnderTest, Decided, First, Candidate, This

\* What is promoted is then the model's.
LEMMA HarvestKeepsWaiting == ASSUME Typed, Harvest PROVE Waiting'
<1> DEFINE rule == proposed[This]
<1>1. /\ pc = "judged" /\ UNCHANGED <<at, pending, proposed>>
      /\ outcomes' = outcomes \cup {verdict}
      /\ model' = IF verdict \in Credited THEN MergedFactors(rule) ELSE model
  BY DEF Harvest, Record
<1>2. pc \in Working /\ First(rule)' = First(rule) /\ proposed'[This'] = rule
  BY <1>1 DEF Working, Tests, First, This
<1>3. CASE verdict \in Credited
  <2>1. Promoted(rule) \in RangeOf(model') /\ Promoted(rule).rule = rule
        /\ Promoted(rule).thesis = First(rule).thesis
    BY <1>1, <1>3, MergedModel, PromotedFactor
  <2>2. \E f \in RangeOf(model') : f.rule = rule /\ f.thesis = First(rule).thesis
    BY <2>1
  <2>3. \E i \in DOMAIN pending : pending[i].rule = rule
    <3>1. CASE Decided
      BY <1>2, <3>1 DEF Typed, Waiting
    <3>2. CASE ~Decided
      <4>1. pending = Append(model, Candidate(rule)) /\ model \in Seq(Factors)
        BY <1>2, <3>2 DEF Typed, TypeOK, Waiting, UnderTest
      <4>2. This \in Rounds /\ rule \in Rules
        BY <1>1, <1>2, RoundUnderWay, RuleUnderTest
      <4>3. Candidate(rule) \in Factors /\ Candidate(rule).rule = rule
        BY <4>2 DEF Candidate, Factors, Statuses
      <4>4. Candidate(rule) \in RangeOf(pending)
        BY <4>1, <4>3, AppendedFactor
      <4> QED
        BY <4>3, <4>4 DEF RangeOf
    <3> QED
      BY <3>1, <3>2
  <2>4. Decided'
    BY <1>1, <1>3 DEF Decided, Credited
  <2>5. (\E f \in RangeOf(model') :
           f.rule = proposed'[This'] /\ f.thesis = (First(proposed[This]).thesis)')
        /\ (\E i \in DOMAIN pending' : pending'[i].rule = proposed'[This'])
    BY <1>1, <1>2, <2>2, <2>3
  <2> QED
    BY <2>4, <2>5 DEF Waiting, UnderTest
<1>4. CASE verdict \notin Credited
  <2>1. model' = model /\ (Decided' <=> Decided)
    BY <1>1, <1>4 DEF Decided, Credited
  <2> QED
    BY <1>1, <1>2, <2>1 DEF Typed, Waiting, UnderTest, Candidate, This
<1> QED
  BY <1>3, <1>4

LEMMA StepTyped == ASSUME Typed, [Next]_vars PROVE Typed'
<1> USE DEF Typed
<1>1. CASE EndRound
  <2>1. at' \in [job : 1 .. MaxJobs, round : 0 .. MaxRounds]
    BY <1>1, RoundBegins DEF EndRound, NextRound
  <2>2. Waiting'
    BY <1>1, WaitingStays DEF EndRound, Working, Tests
  <2> QED
    BY <1>1, <2>1, <2>2, EmptySeq DEF EndRound, NextRound, backtest, TypeOK, Working, Tests
<1>2. ASSUME NEW rule \in Rules, MayResearch
      PROVE  LET new == [thesis |-> Begins, rule |-> rule, status |-> "candidate"] IN
             /\ WithCandidate(rule) = Append(model, new)
             /\ new \in Factors /\ WithCandidate(rule) \in Seq(Factors)
  <2>1. [thesis |-> Begins, rule |-> rule, status |-> "candidate"] \in Factors
    BY <1>2, RoundBegins DEF Factors, Statuses
  <2> QED
    BY <2>1, AppendedFactor DEF WithCandidate, TypeOK, Begins
<1>3. ASSUME NEW rule \in Rules, Note(rule) PROVE Typed'
  <2>1. at' \in [job : 1 .. MaxJobs, round : 0 .. MaxRounds]
    BY <1>3, RoundBegins DEF Note, NextRound
  <2>2. model' \in Seq(Factors)
    BY <1>2, <1>3 DEF Note
  <2>3. Waiting'
    BY <1>3, WaitingStays DEF Note, Working, Tests
  <2> QED
    BY <1>3, <2>1, <2>2, <2>3, EmptySeq DEF Note, NextRound, backtest, TypeOK, Working, Tests
<1>4. ASSUME NEW rule \in Rules, Propose(rule) PROVE Typed'
  <2>1. at' = [at EXCEPT !.round = @ + 1] /\ at' \in [job : 1 .. MaxJobs, round : 0 .. MaxRounds]
    BY <1>4, RoundBegins DEF Propose, NextRound
  <2>2. pending' = Append(model, [thesis |-> Begins, rule |-> rule, status |-> "candidate"])
        /\ pending' \in Seq(Factors)
    BY <1>2, <1>4 DEF Propose, NextRound
  <2>3. This' = Begins /\ at'.round = at.round + 1 /\ at.round \in Nat
    BY <2>1, ConstantsAssumption DEF This, Begins, TypeOK
  <2>4. proposed' = [proposed EXCEPT ![Begins] = rule] /\ Begins \in Rounds
    BY <1>4, RoundBegins DEF Propose, Begins
  <2>5. proposed' \in [Rounds -> Rules \cup {NoRule}] /\ proposed'[This'] = rule /\ rule # NoRule
    BY <2>3, <2>4, ConstantsAssumption DEF TypeOK
  <2>6. pending' = Append(model', Candidate(proposed[This])')
    BY <1>4, <2>2, <2>3, <2>5 DEF Propose, Candidate
  <2>7. outcomes' = {}
    BY <1>4 DEF Propose, NextRound
  <2>8. Waiting'
    BY <2>6, <2>7 DEF Waiting, Decided
  <2> QED
    BY <1>4, <2>1, <2>2, <2>3, <2>5, <2>8
    DEF Propose, NextRound, backtest, TypeOK, Working, Tests
<1>5. CASE RunBacktest
  <2>1. Waiting'
    BY <1>5, WaitingStays DEF RunBacktest, Working, Tests
  <2> QED
    BY <1>5, <2>1 DEF RunBacktest, backtest, TypeOK, Working, Tests, This
<1>6. CASE RerunBaseline
  <2>1. Waiting'
    BY <1>6, WaitingStays DEF RerunBaseline, Working, Tests
  <2> QED
    BY <1>6, <2>1 DEF RerunBaseline, backtest, TypeOK, Working, Tests, This
<1>7. CASE JudgePredictions
  <2>1. verdict' \in Verdicts /\ verdict' # "none" /\ keep' \in BOOLEAN
    BY <1>7, VerdictsAreTyped DEF JudgePredictions
  <2>2. pc \in Working
    BY <1>7 DEF JudgePredictions, Working, Tests
  <2>3. Waiting'
    BY <1>7, <2>2, WaitingStays DEF JudgePredictions
  <2> QED
    BY <1>7, <2>1, <2>2, <2>3 DEF JudgePredictions, TypeOK, Working, Tests, This
<1>8. CASE BacktestFails
  <2>1. Waiting'
    BY <1>8, WaitingStays DEF BacktestFails, Working, Tests
  <2>2. "failed" \in Outcomes /\ Record("failed")
    BY <1>8 DEF BacktestFails, Outcomes
  <2> QED
    BY <1>8, <2>1, <2>2, RecordsAreTyped DEF BacktestFails, TypeOK, Working, Tests
<1>9. CASE Harvest
  <2>1. model' \in Seq(Factors)
    BY <1>9, MergedModel DEF Harvest, TypeOK
  <2>2. verdict \in Outcomes /\ Record(verdict)
    BY <1>9 DEF Harvest, TypeOK, Verdicts, Outcomes
  <2> QED
    BY <1>9, <2>1, <2>2, RecordsAreTyped, HarvestKeepsWaiting
    DEF Harvest, backtest, TypeOK, Working, Tests, This
<1>10. CASE LogResult
  <2>1. runs' \in [Rounds -> {"none", "accepted", "rejected"}]
    BY <1>10 DEF LogResult, TypeOK
  <2>2. Waiting'
    BY <1>10, WaitingStays DEF LogResult, Working, Tests
  <2> QED
    BY <1>10, <2>1, <2>2 DEF LogResult, backtest, TypeOK, Working, Tests, This
<1>11. CASE Finalize
  <2>1. Waiting'
    BY <1>11, WaitingStays DEF Finalize, Working, Tests
  <2> QED
    BY <1>11, <2>1 DEF Finalize, TypeOK, Working, Tests, This, Verdicts
<1>12. CASE Crash
  <2>1. This \in Rounds
    BY <1>12, RoundUnderWay DEF Crash
  <2>2. pc \in Working
    BY <1>12 DEF Crash, Working, Tests
  <2>3. Waiting'
    BY <1>12, <2>2, WaitingStays DEF Crash
  <2> QED
    BY <1>12, <2>1, <2>2, <2>3 DEF Crash, NextActionAgain, TypeOK, Working, Tests, This, Verdicts
<1>13. Candidates \subseteq Rounds
  BY DEF Candidates
<1>14. CASE CrashInWalkforward
  <2>1. This \in Rounds
    BY <1>14, RoundUnderWay DEF CrashInWalkforward
  <2>2. Waiting'
    BY <1>14, WaitingStays DEF CrashInWalkforward, Working, Tests
  <2> QED
    BY <1>13, <1>14, <2>1, <2>2
    DEF CrashInWalkforward, backtest, TypeOK, Working, Tests, Candidates
<1>15. CASE StartWalkforward
  <2>1. Waiting'
    BY <1>15, WaitingStays DEF StartWalkforward, Working, Tests
  <2> QED
    BY <1>13, <1>15, <2>1 DEF StartWalkforward, backtest, TypeOK, Working, Tests, Candidates
<1>16. CASE JudgeCandidate
  <2>1. PICK r \in queue, v \in WalkforwardVerdicts :
          /\ queue' = queue \ {r}
          /\ IF v = "demoted"
             THEN /\ model' = DemotedFactors(FactorRule(r[2]))
                  /\ demotions' = demotions \cup {[round |-> r, rule |-> FactorRule(r[2])]}
             ELSE UNCHANGED <<model, demotions>>
    BY <1>16 DEF JudgeCandidate
  <2>2. FactorRule(r[2]) \in Rules \cup {NoRule}
    <3> DEFINE having == {i \in DOMAIN model : HasRound(model[i], r[2])}
    <3>1. DOMAIN model \subseteq Nat /\ \A i \in DOMAIN model : model[i] \in Factors
      BY ElementOfSeq, LenProperties DEF TypeOK
    <3>2. CASE having # {}
      <4>1. Least(having) \in having
        BY <3>1, <3>2, LeastIsLeast
      <4>2. model[Least(having)].rule \in Rules
        BY <3>1, <4>1 DEF Factors
      <4> QED
        BY <3>2, <4>2 DEF FactorRule
    <3> QED
      BY <3>2 DEF FactorRule
  <2>3. model' \in Seq(Factors) /\ demotions' \subseteq [round : Rounds, rule : Rules \cup {NoRule}]
    BY <2>1, <2>2, DemotedModel DEF TypeOK
  <2>4. Waiting'
    BY <1>16, WaitingStays DEF JudgeCandidate, Working, Tests
  <2> QED
    BY <1>16, <2>1, <2>3, <2>4 DEF JudgeCandidate, backtest, TypeOK, Working, Tests, Candidates
<1>17. CASE CandidateFails
  <2>1. Waiting'
    BY <1>17, WaitingStays DEF CandidateFails, Working, Tests
  <2> QED
    BY <1>17, <2>1 DEF CandidateFails, backtest, TypeOK, Working, Tests, Candidates
<1>18. CASE EndJob
  <2>1. at' \in [job : 1 .. MaxJobs, round : 0 .. MaxRounds]
    BY <1>18, ConstantsAssumption DEF EndJob, TypeOK
  <2>2. Waiting'
    BY <1>18, WaitingStays DEF EndJob, Working, Tests
  <2> QED
    BY <1>18, <2>1, <2>2, EmptySeq DEF EndJob, TypeOK, Working, Tests
<1>19. CASE UNCHANGED vars
  <2>1. Waiting'
    BY <1>19, WaitingStays DEF vars
  <2> QED
    BY <1>19, <2>1 DEF vars, TypeOK, This, Candidates
<1> QED
  BY <1>1, <1>3, <1>4, <1>5, <1>6, <1>7, <1>8, <1>9, <1>10, <1>11, <1>12, <1>14, <1>15, <1>16,
     <1>17, <1>18, <1>19 DEF Next, Backtest, Walkforward

-----------------------------------------------------------------------------
(* Rounds that have begun.                                                 *)

LEMMA FactorsOf ==
    ASSUME TypeOK
    PROVE  /\ \A i \in DOMAIN model : model[i] \in Factors /\ model[i] \in RangeOf(model)
           /\ \A f \in RangeOf(model) : f \in Factors /\ f.thesis \in Rounds /\ f.rule \in Rules
<1>1. \A i \in DOMAIN model : model[i] \in Factors
  BY ElementOfSeq, LenProperties DEF TypeOK
<1> QED
  BY <1>1 DEF RangeOf, Factors

LEMMA NotBegun ==
    ASSUME Typed, Past, MayResearch
    PROVE  /\ ~Begun(Begins) /\ Begins \in Rounds
           /\ proposed[Begins] = NoRule /\ runs[Begins] = "none"
           /\ \A r \in Candidates : r # Begins
<1>1. Begins \in Rounds
  BY RoundBegins DEF Typed
<1>2. at.job \in Nat /\ at.round \in Nat
  BY ConstantsAssumption DEF Typed, TypeOK
<1>3. Begins[1] = at.job /\ Begins[2] = at.round + 1
  BY DEF Begins
<1>4. ~Begun(Begins)
  BY <1>2, <1>3 DEF Begun
<1> QED
  BY <1>1, <1>4 DEF Past, Candidates

\* at only grows, and a step of a round keeps it.
LEMMA AtGrows ==
    ASSUME TypeOK, [Next]_vars
    PROVE  \/ at' = at
           \/ pc = "plan" /\ MayResearch /\ at' = [at EXCEPT !.round = @ + 1]
           \/ pc' = "plan" /\ at' = [job |-> at.job + 1, round |-> 0]
BY DEF Next, Backtest, Walkforward, EndRound, Note, Propose, NextRound, RunBacktest, RerunBaseline,
   JudgePredictions, BacktestFails, Harvest, LogResult, Finalize, Crash, StartWalkforward,
   JudgeCandidate, CandidateFails, CrashInWalkforward, EndJob, vars

LEMMA BegunRoundsStay ==
    ASSUME TypeOK, [Next]_vars, NEW r \in Rounds, Begun(r)
    PROVE  Begun(r)'
<1>1. at.job \in Nat /\ at.round \in Nat /\ r[1] \in Nat /\ r[2] \in Nat
  BY ConstantsAssumption DEF TypeOK, Rounds
<1>2. CASE at' = at
  BY <1>2 DEF Begun
<1>3. CASE at' = [at EXCEPT !.round = @ + 1]
  <2>1. at'.job = at.job /\ at'.round = at.round + 1
    BY <1>3 DEF TypeOK
  <2> QED
    BY <1>1, <2>1 DEF Begun
<1>4. CASE at' = [job |-> at.job + 1, round |-> 0]
  BY <1>1, <1>4 DEF Begun
<1> QED
  BY <1>2, <1>3, <1>4, AtGrows

\* What changes a factor, a proposal, a row or a demotion.
Quiet == UNCHANGED <<model, proposed, runs, demotions>>

LEMMA QuietSteps ==
    ASSUME [Next]_vars
    PROVE  \/ Quiet \/ Harvest \/ LogResult \/ JudgeCandidate
           \/ \E rule \in Rules : Note(rule) \/ Propose(rule)
BY DEF Quiet, Next, Backtest, Walkforward, EndRound, RunBacktest, RerunBaseline,
   JudgePredictions, BacktestFails, Finalize, Crash, StartWalkforward, CandidateFails,
   CrashInWalkforward, EndJob, vars

\* A note is a new factor of the round that begins.
LEMMA NotedModel ==
    ASSUME TypeOK, NEW rule \in Rules, Note(rule)
    PROVE  LET new == [thesis |-> Begins, rule |-> rule, status |-> "candidate"] IN
           /\ new \in Factors /\ model' = Append(model, new)
           /\ RangeOf(model') = RangeOf(model) \cup {new}
           /\ at' = [at EXCEPT !.round = @ + 1] /\ MayResearch /\ ~Duplicate(rule) /\ pc = "plan"
           /\ UNCHANGED <<proposed, runs, pc, keep, verdict, queue, demotions, died>>
<1> DEFINE new == [thesis |-> Begins, rule |-> rule, status |-> "candidate"]
<1>1. new \in Factors
  BY RoundBegins DEF Note, Factors, Statuses
<1>2. model' = Append(model, new)
  BY DEF Note, WithCandidate, Begins
<1>3. model \in Seq(Factors)
  BY DEF TypeOK
<1> HIDE DEF new
<1>4. RangeOf(model') = RangeOf(model) \cup {new}
  BY <1>1, <1>2, <1>3, AppendedFactor
<1> QED
  BY <1>1, <1>2, <1>4 DEF Note, NextRound, backtest, new

LEMMA ProposedRule ==
    ASSUME Typed, NEW rule \in Rules, Propose(rule)
    PROVE  /\ proposed' = [proposed EXCEPT ![Begins] = rule] /\ This' = Begins
           /\ model' = model /\ UNCHANGED <<runs, demotions, died, keep, verdict, queue>>
           /\ at' = [at EXCEPT !.round = @ + 1] /\ MayResearch /\ ~Duplicate(rule)
           /\ pc = "plan" /\ pc' = "ready"
<1>1. at' = [at EXCEPT !.round = @ + 1]
  BY DEF Propose, NextRound
<1>2. This' = Begins
  BY <1>1 DEF This, Begins, Typed, TypeOK
<1> QED
  BY <1>1, <1>2 DEF Propose, backtest, Begins

\* A judged candidate that did not survive: its round, the rule demoted, the model.
LEMMA JudgedCandidate ==
    ASSUME Typed, JudgeCandidate
    PROVE  /\ pc = "walkforward" /\ UNCHANGED <<at, proposed, runs, pc, keep, verdict, died>>
           /\ \/ UNCHANGED <<model, demotions>>
              \/ \E r \in Candidates : \E rule :
                    /\ model' = DemotedFactors(rule)
                    /\ demotions' = demotions \cup {[round |-> r, rule |-> rule]}
BY DEF JudgeCandidate, backtest, Typed

LEMMA StepPast == ASSUME Typed, Past, [Next]_vars PROVE Past'
<1> USE DEF Typed
<1>1. \A r \in Rounds : Begun(r) => Begun(r)'
  BY BegunRoundsStay
<1>2. \A d \in demotions : d.round \in Rounds
  BY DEF TypeOK
<1>3. \A f \in RangeOf(model) : Begun(f.thesis)'
  BY <1>1, FactorsOf DEF Past
<1>4. \A r \in Rounds : proposed[r] # NoRule \/ runs[r] # "none" => Begun(r)'
  BY <1>1 DEF Past
<1>5. \A d \in demotions : Begun(d.round)'
  BY <1>1, <1>2 DEF Past
<1>6. CASE Quiet
  BY <1>3, <1>4, <1>5, <1>6 DEF Quiet, Past
<1>7. ASSUME at' = [at EXCEPT !.round = @ + 1], NEW r, r = Begins PROVE Begun(r)'
  <2>1. at'.job = at.job /\ at'.round = at.round + 1 /\ at.round \in Nat
    BY <1>7, ConstantsAssumption DEF TypeOK
  <2>2. Begins[1] = at.job /\ Begins[2] = at.round + 1
    BY DEF Begins
  <2> QED
    BY <1>7, <2>1, <2>2 DEF Begun
<1>8. ASSUME NEW rule \in Rules, Note(rule) PROVE Past'
  <2>1. PICK new : new.thesis = Begins /\ RangeOf(model') = RangeOf(model) \cup {new}
    BY <1>8, NotedModel
  <2>2. UNCHANGED <<proposed, runs, demotions>> /\ at' = [at EXCEPT !.round = @ + 1]
    BY <1>8, NotedModel
  <2>3. Begun(new.thesis)'
    BY <1>7, <2>1, <2>2
  <2>4. \A f \in RangeOf(model') : Begun(f.thesis)'
    BY <1>3, <2>1, <2>3
  <2> QED
    BY <1>4, <1>5, <2>2, <2>4 DEF Past
<1>9. ASSUME NEW rule \in Rules, Propose(rule) PROVE Past'
  BY <1>3, <1>4, <1>5, <1>7, <1>9, ProposedRule DEF Past, TypeOK
<1>10. CASE Harvest
  <2>1. pc = "judged" /\ UNCHANGED <<at, proposed, runs, demotions>>
    BY <1>10 DEF Harvest
  <2>2. at.round \in Nat /\ This[1] = at.job /\ This[2] = at.round
    BY ConstantsAssumption DEF TypeOK, This
  <2>3. ASSUME NEW r, r = This PROVE Begun(r)'
    BY <2>1, <2>2, <2>3 DEF Begun
  <2>4. ASSUME NEW p, p = Promoted(proposed[This]) PROVE Begun(p.thesis)'
    <3>1. CASE p.thesis = This
      BY <2>3, <3>1
    <3>2. CASE \E f \in RangeOf(model) : p.thesis = f.thesis
      BY <1>3, <3>2
    <3> QED
      BY <2>1, <2>4, <3>1, <3>2, PromotedFactor, FactorsOf
  <2>5. ASSUME NEW f \in RangeOf(model')
        PROVE  f \in RangeOf(model) \/ f = Promoted(proposed[This])
    <3>1. model' = MergedFactors(proposed[This]) \/ model' = model
      BY <1>10 DEF Harvest
    <3> QED
      BY <2>1, <3>1, MergedModel
  <2> QED
    BY <1>3, <1>4, <1>5, <2>1, <2>4, <2>5 DEF Past
<1>11. CASE LogResult
  <2>1. UNCHANGED <<at, model, proposed, demotions>>
    BY <1>11 DEF LogResult
  <2>2. \A r \in Rounds : r # This => runs'[r] = runs[r]
    BY <1>11 DEF LogResult, RowKey, TypeOK
  <2>3. at.round \in Nat /\ This[1] = at.job /\ This[2] = at.round
    BY ConstantsAssumption DEF TypeOK, This
  <2>4. ASSUME NEW r, r = This PROVE Begun(r)'
    BY <2>1, <2>3, <2>4 DEF Begun
  <2> QED
    BY <1>3, <1>4, <1>5, <2>1, <2>2, <2>4 DEF Past
<1>12. CASE JudgeCandidate
  <2>1. CASE UNCHANGED <<model, demotions>>
    BY <1>3, <1>4, <1>5, <1>12, <2>1, JudgedCandidate DEF Past
  <2>2. ASSUME NEW r \in Candidates, NEW rule, model' = DemotedFactors(rule),
               demotions' = demotions \cup {[round |-> r, rule |-> rule]}
        PROVE  Past'
    <3>1. r \in Rounds /\ Begun(r)'
      BY <1>4 DEF Candidates
    <3>2. \A f \in RangeOf(model') : \E i \in DOMAIN model : f.thesis = model[i].thesis
      BY <2>2, DemotedModel DEF RangeOf
    <3>3. \A f \in RangeOf(model') : Begun(f.thesis)'
      BY <1>3, <3>2, FactorsOf
    <3>4. UNCHANGED <<proposed, runs>>
      BY <1>12, JudgedCandidate
    <3> QED
      BY <1>4, <1>5, <2>2, <3>1, <3>3, <3>4 DEF Past
  <2> QED
    BY <1>12, <2>1, <2>2, JudgedCandidate
<1> QED
  BY <1>6, <1>8, <1>9, <1>10, <1>11, <1>12, QuietSteps

-----------------------------------------------------------------------------
(* Verdicts.                                                               *)

\* The harvest of a verdict that counts, and of one that does not.
LEMMA HarvestedModel ==
    ASSUME Typed, Harvest
    PROVE  /\ pc = "judged" /\ pc' = "harvested" /\ proposed[This] \in Rules
           /\ UNCHANGED <<at, pending, proposed, runs, keep, verdict, queue, demotions, died>>
           /\ \/ verdict \notin Credited /\ model' = model
              \/ /\ verdict \in Credited
                 /\ \E p \in RangeOf(model') :
                       /\ p.rule = proposed[This] /\ p.status = TargetStatus
                       /\ \A f \in RangeOf(model') :
                             f = p \/ (f \in RangeOf(model) /\ f.rule # proposed[This])
                 /\ \A f \in RangeOf(model) : f.rule # proposed[This] => f \in RangeOf(model')
<1>1. pc = "judged" /\ pc' = "harvested"
      /\ UNCHANGED <<at, pending, proposed, runs, keep, verdict, queue, demotions, died>>
      /\ model' = IF verdict \in Credited THEN MergedFactors(proposed[This]) ELSE model
  BY DEF Harvest, backtest
<1>2. proposed[This] \in Rules
  BY <1>1, RuleUnderTest DEF Working, Tests
<1>3. CASE verdict \in Credited
  <2> DEFINE p == Promoted(proposed[This])
  <2>1. /\ p \in RangeOf(model')
        /\ \A f \in RangeOf(model') : f = p \/ (f \in RangeOf(model) /\ f.rule # proposed[This])
        /\ \A f \in RangeOf(model) : f.rule # proposed[This] => f \in RangeOf(model')
    BY <1>1, <1>3, MergedModel
  <2>2. p.rule = proposed[This] /\ p.status = TargetStatus
    BY <1>1, PromotedFactor
  <2> QED
    BY <1>1, <1>2, <1>3, <2>1, <2>2
<1> QED
  BY <1>1, <1>2, <1>3

LEMMA StepVerdict == ASSUME Typed, VerdictIsCredited, [Next]_vars PROVE VerdictIsCredited'
<1>1. CASE Harvest
  <2>1. CASE verdict \notin Credited
    BY <1>1, <2>1, HarvestedModel DEF VerdictIsCredited, Credited
  <2>2. CASE verdict \in Credited
    <3>1. PICK p \in RangeOf(model') :
            /\ p.rule = proposed[This] /\ p.status = TargetStatus
            /\ \A f \in RangeOf(model') :
                  f = p \/ (f \in RangeOf(model) /\ f.rule # proposed[This])
      BY <1>1, <2>2, HarvestedModel
    <3>2. proposed'[This'] = proposed[This] /\ TargetStatus' = TargetStatus
      BY <1>1, HarvestedModel DEF This, TargetStatus
    <3>3. {g \in RangeOf(model') : g.rule = proposed'[This']} = {p}
      BY <3>1, <3>2
    <3>4. {f.status : f \in {g \in RangeOf(model') : g.rule = proposed'[This']}} = {TargetStatus'}
      BY <3>1, <3>2, <3>3
    <3> QED
      BY <3>4 DEF VerdictIsCredited
  <2> QED
    BY <2>1, <2>2
<1>2. CASE LogResult
  BY <1>2 DEF LogResult, backtest, VerdictIsCredited, This, TargetStatus
<1>3. CASE JudgeCandidate
  BY <1>3, JudgedCandidate DEF VerdictIsCredited
<1>4. ASSUME NEW rule \in Rules, Note(rule) \/ Propose(rule) PROVE VerdictIsCredited'
  BY <1>4 DEF Note, Propose, VerdictIsCredited
<1>5. CASE UNCHANGED vars
  BY <1>5 DEF vars, VerdictIsCredited, This, TargetStatus
<1>6. CASE pc' \notin {"harvested", "logged"}
  BY <1>6 DEF VerdictIsCredited
<1>7. CASE EndRound \/ StartWalkforward \/ CandidateFails \/ CrashInWalkforward
  BY <1>7
  DEF EndRound, StartWalkforward, CandidateFails, CrashInWalkforward, VerdictIsCredited
<1>8. CASE RunBacktest \/ RerunBaseline \/ JudgePredictions \/ BacktestFails \/ Finalize \/ Crash
           \/ EndJob
  BY <1>6, <1>8
  DEF RunBacktest, RerunBaseline, JudgePredictions, BacktestFails, Finalize, Crash,
      NextActionAgain, EndJob
<1> QED
  BY <1>1, <1>2, <1>3, <1>4, <1>5, <1>7, <1>8 DEF Next, Backtest, Walkforward

\* Credit is given in a round under way, which then gets its row, or its process dies.
LEMMA StepCredit ==
    ASSUME Typed, Past, CreditIsRecorded, [Next]_vars
    PROVE  CreditIsRecorded'
<1> DEFINE Known(r) == runs[r] # "none" \/ r \in died \/ (r = This /\ pc = "harvested")
           Credit(f) == f.status \in {"harvested", "refuted"}
<1>1. ASSUME NEW r \in Rounds, Known(r),
             pc # "harvested" \/ Harvest \/ LogResult \/ Crash \/ UNCHANGED vars
      PROVE  Known(r)'
  <2>1. CASE Harvest
    BY <1>1, <2>1 DEF Harvest, This
  <2>2. CASE LogResult
    BY <1>1, <2>2 DEF LogResult, RowKey, Typed, TypeOK
  <2>3. CASE Crash
    BY <1>1, <2>3 DEF Crash
  <2>4. CASE UNCHANGED vars
    BY <1>1, <2>4 DEF vars, This
  <2>5. CASE runs[r] # "none" \/ r \in died
    <3>1. LogResult \/ UNCHANGED runs
      BY DEF Next, Backtest, Walkforward, EndRound, Note, Propose, RunBacktest, RerunBaseline,
         JudgePredictions, BacktestFails, Harvest, Finalize, Crash, StartWalkforward,
         JudgeCandidate, CandidateFails, CrashInWalkforward, EndJob, vars
    <3>2. died \subseteq died'
      BY DEF Next, Backtest, Walkforward, EndRound, Note, Propose, RunBacktest, RerunBaseline,
         JudgePredictions, BacktestFails, Harvest, LogResult, Finalize, Crash, StartWalkforward,
         JudgeCandidate, CandidateFails, CrashInWalkforward, EndJob, vars
    <3> QED
      BY <2>2, <2>5, <3>1, <3>2
  <2> QED
    BY <1>1, <2>1, <2>2, <2>3, <2>4, <2>5
<1>2. pc = "harvested" => LogResult \/ Crash \/ UNCHANGED vars
  BY DEF Next, Backtest, Walkforward, EndRound, Note, Propose, RunBacktest, RerunBaseline,
     JudgePredictions, BacktestFails, Harvest, Finalize, StartWalkforward, JudgeCandidate,
     CandidateFails, CrashInWalkforward, EndJob
<1>3. \A r \in Rounds : Known(r) => Known(r)'
  BY <1>1, <1>2
<1> HIDE DEF Known
<1>4. \A f \in RangeOf(model) : Credit(f) => \E r \in Rounds : proposed[r] = f.rule /\ Known(r)
  BY DEF CreditIsRecorded, Known
<1>5. SUFFICES \A f \in RangeOf(model') :
                  Credit(f) => \E r \in Rounds : proposed'[r] = f.rule /\ Known(r)'
  BY DEF CreditIsRecorded, Known
<1>6. CASE UNCHANGED <<model, proposed>>
  BY <1>3, <1>4, <1>6
<1>7. ASSUME NEW rule \in Rules, Note(rule)
      PROVE  \A f \in RangeOf(model') :
                Credit(f) => \E r \in Rounds : proposed'[r] = f.rule /\ Known(r)'
  <2>1. PICK new : new.status = "candidate" /\ RangeOf(model') = RangeOf(model) \cup {new}
    BY <1>7, NotedModel DEF Typed
  <2> QED
    BY <1>3, <1>4, <1>7, <2>1, NotedModel DEF Typed
<1>8. ASSUME NEW rule \in Rules, Propose(rule)
      PROVE  \A f \in RangeOf(model') :
                Credit(f) => \E r \in Rounds : proposed'[r] = f.rule /\ Known(r)'
  <2>1. proposed' = [proposed EXCEPT ![Begins] = rule] /\ model' = model
        /\ proposed[Begins] = NoRule
    BY <1>8, ProposedRule, NotBegun
  <2>2. \A f \in RangeOf(model) : f.rule \in Rules /\ f.rule # NoRule
    BY FactorsOf, ConstantsAssumption DEF Typed
  <2>3. \A r \in Rounds, f \in RangeOf(model) : proposed[r] = f.rule => proposed'[r] = f.rule
    BY <2>1, <2>2 DEF Typed, TypeOK
  <2> QED
    BY <1>3, <1>4, <2>1, <2>3
<1>9. CASE Harvest
  <2>1. \A f \in RangeOf(model') : f \in RangeOf(model) \/ f.rule = proposed[This]
    BY <1>9, HarvestedModel
  <2>2. This \in Rounds /\ This' = This /\ pc' = "harvested" /\ proposed' = proposed
    BY <1>9, HarvestedModel, RoundUnderWay DEF This
  <2>3. \A r \in Rounds : r = This => Known(r)'
    BY <2>2 DEF Known
  <2> QED
    BY <1>3, <1>4, <2>1, <2>2, <2>3
<1>10. CASE JudgeCandidate
  <2>1. CASE UNCHANGED <<model, demotions>>
    BY <1>6, <1>10, <2>1, JudgedCandidate
  <2>2. ASSUME NEW rule, model' = DemotedFactors(rule)
        PROVE  \A f \in RangeOf(model') :
                  Credit(f) => \E r \in Rounds : proposed'[r] = f.rule /\ Known(r)'
    <3>1. \A f \in RangeOf(model') : \E i \in DOMAIN model :
             f.rule = model[i].rule /\ f.status \in {"demoted", model[i].status}
      BY <2>2, DemotedModel DEF RangeOf, Typed
    <3>2. \A f \in RangeOf(model') : Credit(f) => \E g \in RangeOf(model) :
             f.rule = g.rule /\ Credit(g)
      BY <3>1, FactorsOf DEF Typed
    <3> QED
      BY <1>3, <1>4, <1>10, <3>2, JudgedCandidate
  <2> QED
    BY <1>10, <2>1, <2>2, JudgedCandidate
<1> QED
  BY <1>6, <1>7, <1>8, <1>9, <1>10, QuietSteps DEF Quiet, LogResult

-----------------------------------------------------------------------------
(* Tests.                                                                  *)

LEMMA StepKept == ASSUME KeptIsSupported, [Next]_vars PROVE KeptIsSupported'
<1>1. CASE JudgePredictions
  BY <1>1 DEF JudgePredictions, Forced, KeptIsSupported
<1>2. CASE Harvest \/ LogResult
  BY <1>2 DEF Harvest, LogResult, backtest, KeptIsSupported
<1>3. CASE UNCHANGED <<pc, keep, verdict>>
  BY <1>3 DEF KeptIsSupported
<1>4. CASE pc' \notin {"judged", "harvested", "logged"}
  BY <1>4 DEF KeptIsSupported
<1>5. CASE Crash
  BY <1>4, <1>5 DEF Crash, NextActionAgain
<1> QED
  BY <1>1, <1>2, <1>3, <1>4, <1>5
  DEF Next, Backtest, Walkforward, EndRound, Note, Propose, RunBacktest, RerunBaseline,
      BacktestFails, Finalize, StartWalkforward, JudgeCandidate, CandidateFails,
      CrashInWalkforward, EndJob, backtest, vars

LEMMA StepFirst == ASSUME Typed, Past, TestIsFirst, [Next]_vars PROVE TestIsFirst'
<1>1. ASSUME NEW rule \in Rules, Propose(rule) PROVE TestIsFirst'
  <2>1. /\ proposed' = [proposed EXCEPT ![Begins] = rule] /\ This' = Begins
        /\ model' = model /\ ~Duplicate(rule) /\ ~Begun(Begins) /\ Begins \in Rounds
    BY <1>1, ProposedRule, NotBegun
  <2>2. proposed'[This'] = rule
    BY <2>1 DEF Typed, TypeOK
  <2>3. \A f \in RangeOf(model') : f.thesis # This'
    BY <2>1 DEF Past
  <2> QED
    BY <2>1, <2>2, <2>3 DEF TestIsFirst, Duplicate
<1>2. CASE pc \in Working /\ UNCHANGED <<at, model, proposed, outcomes>>
  BY <1>2 DEF TestIsFirst, UnderTest, Decided, Duplicate, This
<1>3. CASE ~UnderTest'
  BY <1>3 DEF TestIsFirst
<1>4. CASE Harvest
  <2>1. outcomes' = outcomes \cup {verdict} /\ pc \in Working
    BY <1>4 DEF Harvest, Record, Working, Tests
  <2>2. CASE verdict \in Credited
    BY <1>3, <2>1, <2>2 DEF UnderTest, Decided
  <2>3. CASE verdict \notin Credited
    <3>1. UNCHANGED <<at, model, proposed>>
      BY <1>4, <2>3 DEF Harvest
    <3> QED
      BY <2>1, <2>3, <3>1 DEF TestIsFirst, UnderTest, Decided, Duplicate, This
  <2> QED
    BY <2>2, <2>3
<1>5. CASE LogResult \/ Finalize \/ Crash
  BY <1>2, <1>5 DEF LogResult, Finalize, Crash, Working, Tests
<1>6. CASE RunBacktest \/ RerunBaseline \/ JudgePredictions
  BY <1>2, <1>6 DEF RunBacktest, RerunBaseline, JudgePredictions, Working, Tests
<1>7. CASE UNCHANGED vars
  BY <1>7 DEF vars, TestIsFirst, UnderTest, Decided, Duplicate, This
<1>8. CASE pc' \in {"plan", "walkforward"}
  BY <1>3, <1>8 DEF UnderTest, Working, Tests
<1>9. ASSUME NEW rule \in Rules, Note(rule) PROVE TestIsFirst'
  BY <1>8, <1>9 DEF Note
<1>10. CASE EndRound \/ BacktestFails \/ StartWalkforward \/ JudgeCandidate
           \/ CandidateFails \/ CrashInWalkforward \/ EndJob
  BY <1>8, <1>10
  DEF EndRound, BacktestFails, StartWalkforward, JudgeCandidate, CandidateFails,
      CrashInWalkforward, EndJob
<1> QED
  BY <1>1, <1>4, <1>5, <1>6, <1>7, <1>9, <1>10 DEF Next, Backtest, Walkforward

\* A reversal is not forgotten.
LEMMA ReversalsStay ==
    ASSUME TypeOK, [Next]_vars
    PROVE  /\ reversed => reversed'
           /\ \/ UNCHANGED outcomes \/ outcomes' = {}
              \/ Harvest \/ BacktestFails
<1>1. ASSUME NEW outcome, Record(outcome) PROVE reversed => reversed'
  BY <1>1 DEF Record, TypeOK
<1>2. Harvest \/ BacktestFails \/ (reversed' = reversed /\ outcomes' \in {outcomes, {}})
  BY DEF Next, Backtest, Walkforward, EndRound, Note, Propose, NextRound, RunBacktest,
     RerunBaseline, JudgePredictions, LogResult, Finalize, Crash, StartWalkforward,
     JudgeCandidate, CandidateFails, CrashInWalkforward, EndJob, vars
<1> QED
  BY <1>1, <1>2 DEF Harvest, BacktestFails

LEMMA StepOutcome ==
    ASSUME TypeOK, OneOutcome, [Next]_vars, ~reversed'
    PROVE  OneOutcome'
<1>2. ASSUME NEW outcome, Record(outcome) PROVE OneOutcome'
  <2>1. outcome \in Final => (outcomes \cap Final) \ {outcome} = {}
    BY <1>2 DEF Record
  <2>2. \A a \in outcomes \cap Final : outcome \in Final => a = outcome
    BY <2>1
  <2>3. outcomes' = outcomes \cup {outcome}
    BY <1>2 DEF Record
  <2> QED
    BY <2>2, <2>3 DEF OneOutcome
<1> QED
  BY <1>2, ReversalsStay DEF OneOutcome, Harvest, BacktestFails

\* A verdict that is promoted again is the one that was.
LEMMA VerdictAgain ==
    ASSUME Typed, OneOutcome', Harvest, Decided, verdict \in Final
    PROVE  /\ verdict \in outcomes \cap Credited
           /\ "supported" \in outcomes <=> verdict = "supported"
<1>1. outcomes' = outcomes \cup {verdict}
  BY DEF Harvest, Record
<1>2. PICK v : v \in outcomes \cap Credited
  BY DEF Decided
<1>3. v \in outcomes' \cap Final /\ verdict \in outcomes' \cap Final
  BY <1>1, <1>2 DEF Credited, Final
<1>4. \A a \in outcomes' \cap Final : a = verdict
  BY <1>3 DEF OneOutcome
<1>5. "supported" \in outcomes => verdict = "supported"
  BY <1>1, <1>4 DEF Final
<1> QED
  BY <1>2, <1>3, <1>4, <1>5

LEMMA StepDecided ==
    ASSUME Typed, DecidedIsCredited, OneOutcome', [Next]_vars
    PROVE  DecidedIsCredited'
<1>1. CASE pc' \notin Working
  BY <1>1 DEF DecidedIsCredited
<1>2. CASE pc \in Working /\ UNCHANGED <<at, model, proposed, outcomes>>
  BY <1>2 DEF DecidedIsCredited, Decided, This
<1>3. ASSUME NEW rule \in Rules, Note(rule) \/ Propose(rule) PROVE DecidedIsCredited'
  BY <1>1, <1>3 DEF Note, Propose, NextRound, DecidedIsCredited, Decided, Working, Tests
<1>4. CASE Harvest
  <2>1. outcomes' = outcomes \cup {verdict} /\ pc \in Working
    BY <1>4 DEF Harvest, Record, Working, Tests
  <2>2. CASE verdict \in Credited
    <3>1. \A f \in RangeOf(model') : f.rule = proposed[This] => f.status = TargetStatus
      BY <1>4, <2>2, HarvestedModel
    <3>2. "supported" \in outcomes' <=> verdict = "supported"
      BY <2>1, <2>2 DEF OneOutcome, Credited, Final
    <3>3. proposed'[This'] = proposed[This]
      BY <1>4, HarvestedModel DEF This
    <3> QED
      BY <3>1, <3>2, <3>3 DEF DecidedIsCredited, TargetStatus
  <2>3. CASE verdict \notin Credited
    <3>1. UNCHANGED <<at, model, proposed>>
      BY <1>4, <2>3 DEF Harvest
    <3> QED
      BY <2>1, <2>3, <3>1 DEF DecidedIsCredited, Decided, This, Credited
  <2> QED
    BY <2>2, <2>3
<1>5. CASE RunBacktest \/ RerunBaseline \/ JudgePredictions \/ LogResult \/ Finalize \/ Crash
  BY <1>2, <1>5
  DEF RunBacktest, RerunBaseline, JudgePredictions, LogResult, Finalize, Crash, Working, Tests
<1>6. CASE EndRound \/ BacktestFails \/ StartWalkforward \/ JudgeCandidate
           \/ CandidateFails \/ CrashInWalkforward \/ EndJob
  BY <1>1, <1>6
  DEF EndRound, BacktestFails, StartWalkforward, JudgeCandidate, CandidateFails,
      CrashInWalkforward, EndJob, Working, Tests
<1>7. CASE UNCHANGED vars
  BY <1>7 DEF vars, DecidedIsCredited, Decided, This
<1> QED
  BY <1>3, <1>4, <1>5, <1>6, <1>7 DEF Next, Backtest, Walkforward

\* Candidates are of the job, and change with a row only.
LEMMA CandidatesOfTheJob ==
    ASSUME Typed, Past, [Next]_vars
    PROVE  \/ LogResult
           \/ /\ Candidates' \subseteq Candidates
              /\ \A r \in Candidates : proposed'[r] = proposed[r]
<1>1. CASE at' = [job |-> at.job + 1, round |-> 0] /\ runs' = runs
  <2>1. at'.job = at.job + 1 /\ at.job \in Nat
    BY <1>1, ConstantsAssumption DEF Typed, TypeOK
  <2>2. ASSUME NEW r \in Candidates' PROVE FALSE
    <3>1. r \in Rounds /\ r[1] = at.job + 1 /\ runs[r] = "accepted"
      BY <1>1, <2>1, <2>2 DEF Candidates
    <3>2. Begun(r)
      BY <3>1 DEF Past
    <3> QED
      BY <2>1, <3>1, <3>2 DEF Begun
  <2>3. CASE proposed' = proposed
    BY <2>2, <2>3
  <2>4. ASSUME NEW rule \in Rules, Propose(rule) PROVE FALSE
    <3>1. at' = [at EXCEPT !.round = @ + 1]
      BY <2>4, ProposedRule
    <3>2. at'.job = at.job
      BY <3>1 DEF Typed, TypeOK
    <3> QED
      BY <2>1, <3>2
  <2> QED
    BY <2>3, <2>4, QuietSteps DEF Quiet, Harvest, LogResult, JudgeCandidate, Note
<1>2. CASE at'.job = at.job /\ runs' = runs
  <2>1. Candidates' = Candidates
    BY <1>2 DEF Candidates
  <2>2. ASSUME NEW rule \in Rules, Propose(rule)
        PROVE  \A r \in Candidates : proposed'[r] = proposed[r]
    BY <2>2, ProposedRule, NotBegun DEF Typed, TypeOK, Candidates
  <2> QED
    BY <2>1, <2>2, QuietSteps DEF Quiet, Harvest, LogResult, JudgeCandidate, Note
<1>3. at'.job = at.job \/ at' = [job |-> at.job + 1, round |-> 0]
  BY AtGrows DEF Typed, TypeOK
<1>4. LogResult \/ runs' = runs
  BY QuietSteps DEF Quiet, Harvest, JudgeCandidate, Note, Propose
<1> QED
  BY <1>1, <1>2, <1>3, <1>4

\* A row that is accepted is of a supported rule, whose factors are harvested.
LEMMA AcceptedRow ==
    ASSUME Typed, KeptIsSupported, VerdictIsCredited, LogResult, NEW r \in Candidates'
    PROVE  \/ r \in Candidates
           \/ /\ r = This /\ Duplicate(proposed[r])
              /\ \A f \in RangeOf(model) : f.rule = proposed[r] => f.status = "harvested"
<1>1. PICK row \in {IF keep THEN "accepted" ELSE "rejected", "rejected"} :
        runs' = [runs EXCEPT ![This] = row]
  BY DEF LogResult, RowKey
<1>2. at' = at /\ pc = "harvested"
  BY DEF LogResult
<1>3. CASE r # This
  BY <1>1, <1>2, <1>3 DEF Candidates, Typed, TypeOK
<1>4. CASE r = This
  <2>1. keep
    BY <1>1, <1>4 DEF Candidates, Typed, TypeOK
  <2>2. verdict = "supported"
    BY <1>2, <2>1 DEF KeptIsSupported
  <2>3. {f.status : f \in {g \in RangeOf(model) : g.rule = proposed[This]}} = {"harvested"}
    BY <1>2, <2>2 DEF VerdictIsCredited, TargetStatus
  <2>4. \A f \in RangeOf(model) : f.rule = proposed[This] => f.status = "harvested"
    BY <2>3
  <2>5. \E f \in RangeOf(model) : f.rule = proposed[This] /\ f.status = "harvested"
    BY <2>3
  <2> QED
    BY <1>4, <2>4, <2>5 DEF Duplicate
<1> QED
  BY <1>3, <1>4

LEMMA StepActive ==
    ASSUME Typed, Past, KeptIsSupported, TestIsFirst, Credible, VerdictIsCredited, OneOutcome',
           [Next]_vars
    PROVE  AcceptedIsActive'
<1> SUFFICES ASSUME pc' # "walkforward", NEW r \in Candidates' PROVE Duplicate(proposed[r])'
  BY DEF AcceptedIsActive
<1>1. CASE LogResult
  <2>1. Duplicate(proposed[r])
    BY <1>1, AcceptedRow DEF LogResult, Credible, AcceptedIsActive
  <2> QED
    BY <1>1, <2>1 DEF LogResult, Duplicate
<1>2. CASE ~LogResult
  <2>1. r \in Candidates /\ proposed'[r] = proposed[r]
    BY <1>2, CandidatesOfTheJob
  <2>2. CASE pc = "walkforward"
    <3>1. EndJob
      BY <2>2 DEF Next, Backtest, Walkforward, EndRound, Note, Propose, RunBacktest,
         RerunBaseline, JudgePredictions, BacktestFails, Harvest, LogResult, Finalize, Crash,
         StartWalkforward, JudgeCandidate, CandidateFails, CrashInWalkforward, vars
    <3>2. at'.job = at.job + 1 /\ at.job \in Nat
      BY <3>1, ConstantsAssumption DEF EndJob, Typed, TypeOK
    <3> QED
      BY <2>1, <3>2 DEF Candidates
  <2>3. CASE pc # "walkforward"
    <3>1. PICK f \in RangeOf(model) : f.rule = proposed[r] /\ f.status \notin {"demoted", "refuted"}
      BY <2>1, <2>3 DEF Credible, AcceptedIsActive, Duplicate
    <3>2. \E g \in RangeOf(model') : g.rule = proposed[r] /\ g.status \notin {"demoted", "refuted"}
      <4>1. CASE Harvest
        <5>1. CASE verdict \notin Credited \/ f.rule # proposed[This]
          BY <3>1, <4>1, <5>1, HarvestedModel
        <5>2. CASE verdict \in Credited /\ f.rule = proposed[This]
          <6>1. pc \in Working /\ verdict \in Final
            BY <4>1, <5>2 DEF Harvest, Working, Tests, Credited, Final
          <6>2. Decided
            BY <3>1, <5>2, <6>1 DEF TestIsFirst, UnderTest, Duplicate
          <6>3. "supported" \in outcomes
            BY <3>1, <5>2, <6>1, <6>2 DEF Credible, DecidedIsCredited
          <6>4. verdict = "supported"
            BY <4>1, <6>1, <6>2, <6>3, VerdictAgain
          <6> QED
            BY <3>1, <4>1, <5>2, <6>4, HarvestedModel DEF TargetStatus
        <5> QED
          BY <5>1, <5>2
      <4>2. ASSUME NEW rule \in Rules, Note(rule) PROVE f \in RangeOf(model')
        BY <4>2, NotedModel DEF Typed
      <4>3. CASE model' = model
        BY <3>1, <4>3
      <4> QED
        BY <1>2, <2>3, <3>1, <4>1, <4>2, <4>3, QuietSteps
        DEF Quiet, JudgeCandidate, Propose
    <3> QED
      BY <2>1, <3>2 DEF Duplicate
  <2> QED
    BY <2>2, <2>3
<1> QED
  BY <1>1, <1>2

LEMMA StepUntested ==
    ASSUME Typed, Past, KeptIsSupported, Credible, VerdictIsCredited, [Next]_vars
    PROVE  NotesAreUntested'
<1> SUFFICES ASSUME NEW f \in RangeOf(model'), f.status = "candidate", NEW r \in Candidates'
             PROVE  proposed'[r] # f.rule
  BY DEF NotesAreUntested
<1>1. CASE LogResult
  BY <1>1, AcceptedRow DEF LogResult, Credible, NotesAreUntested
<1>2. CASE ~LogResult
  <2>1. r \in Candidates /\ proposed'[r] = proposed[r]
    BY <1>2, CandidatesOfTheJob
  <2>2. CASE \E g \in RangeOf(model) : g.status = "candidate" /\ g.rule = f.rule
    BY <2>1, <2>2 DEF Credible, NotesAreUntested
  <2>3. CASE Harvest
    <3>1. f \in RangeOf(model) \/ f.status = TargetStatus
      BY <2>3, HarvestedModel
    <3> QED
      BY <2>2, <3>1 DEF TargetStatus
  <2>4. ASSUME NEW rule \in Rules, Note(rule) PROVE proposed'[r] # f.rule
    <3>1. PICK new : new.rule = rule /\ RangeOf(model') = RangeOf(model) \cup {new}
      BY <2>4, NotedModel DEF Typed
    <3>2. ~Duplicate(rule) /\ Duplicate(proposed[r])
      BY <2>1, <2>4, NotedModel DEF Typed, Credible, AcceptedIsActive
    <3> QED
      BY <2>1, <2>2, <3>1, <3>2
  <2>5. CASE JudgeCandidate
    <3>1. ASSUME NEW rule, model' = DemotedFactors(rule)
          PROVE  \E g \in RangeOf(model) : g.status = "candidate" /\ g.rule = f.rule
      <4>1. PICK i \in DOMAIN model :
              f.rule = model[i].rule /\ f.status \in {"demoted", model[i].status}
        BY <3>1, DemotedModel DEF RangeOf, Typed
      <4> QED
        BY <4>1, FactorsOf DEF Typed
    <3> QED
      BY <2>2, <2>5, <3>1, JudgedCandidate
  <2>6. CASE model' = model
    BY <2>2, <2>6
  <2> QED
    BY <1>2, <2>3, <2>4, <2>5, <2>6, QuietSteps DEF Quiet, Propose
<1> QED
  BY <1>1, <1>2

LEMMA StepTested ==
    ASSUME Typed, Past, Tested, VerdictIsCredited, [Next]_vars
    PROVE  Tested'
<1>1. KeptIsSupported' /\ TestIsFirst'
  BY StepKept, StepFirst DEF Tested
<1>2. ASSUME ~reversed' PROVE Credible'
  <2>1. Credible
    BY <1>2, ReversalsStay DEF Tested, Typed
  <2>2. OneOutcome'
    BY <1>2, <2>1, StepOutcome DEF Credible, Typed
  <2> QED
    BY <2>1, <2>2, StepDecided, StepActive, StepUntested DEF Credible, Tested
<1> QED
  BY <1>1, <1>2 DEF Tested

-----------------------------------------------------------------------------
(* Distinct factors.                                                       *)

\* No demotion is forgotten, and its round's rule stays.
LEMMA DemotionsStay ==
    ASSUME Typed, Past, [Next]_vars, DemotionsAreOwn'
    PROVE  DemotionsAreOwn
<1>1. demotions \subseteq demotions'
  BY QuietSteps, JudgedCandidate, NotedModel, ProposedRule DEF Quiet, Harvest, LogResult, Typed
<1>2. ASSUME NEW d \in demotions PROVE proposed'[d.round] = proposed[d.round]
  <2>1. d.round \in Rounds /\ Begun(d.round)
    BY DEF Past, Typed, TypeOK
  <2>2. ASSUME NEW rule \in Rules, Propose(rule) PROVE proposed'[d.round] = proposed[d.round]
    BY <2>1, <2>2, ProposedRule, NotBegun DEF Typed, TypeOK
  <2> QED
    BY <2>2, QuietSteps DEF Quiet, Harvest, LogResult, JudgeCandidate, Note
<1> QED
  BY <1>1, <1>2 DEF DemotionsAreOwn

\* The model with another factor, of a rule that no other is active with.
LEMMA AnotherFactor ==
    ASSUME TypeOK, OneIsANote, NEW new \in Factors, model' = Append(model, new),
           \A f \in RangeOf(model) :
              /\ f.thesis # new.thesis
              /\ f.rule = new.rule =>
                    f.status \in {"demoted", "refuted"} /\ new.status = "candidate"
    PROVE  OneIsANote'
<1>1. /\ DOMAIN model = 1 .. Len(model) /\ Len(model) \in Nat
      /\ DOMAIN model' = 1 .. Len(model) + 1
      /\ \A i \in DOMAIN model : model'[i] = model[i]
      /\ model'[Len(model) + 1] = new
  BY AppendedFactor DEF TypeOK
<1>2. \A i \in DOMAIN model' : i \in DOMAIN model \/ i = Len(model) + 1
  BY <1>1
<1>3. \A i \in DOMAIN model : model[i] \in RangeOf(model)
  BY DEF RangeOf
<1>4. ASSUME NEW i \in DOMAIN model', NEW k \in DOMAIN model', i # k
      PROVE  /\ model'[i].thesis # model'[k].thesis
             /\ model'[i].rule = model'[k].rule =>
                  \/ model'[i].status = "candidate" /\ model'[k].status \in {"demoted", "refuted"}
                  \/ model'[k].status = "candidate" /\ model'[i].status \in {"demoted", "refuted"}
  <2>1. CASE i \in DOMAIN model /\ k \in DOMAIN model
    BY <1>1, <1>4, <2>1 DEF OneIsANote
  <2>2. CASE i = Len(model) + 1 /\ k \in DOMAIN model
    BY <1>1, <1>3, <2>2
  <2>3. CASE k = Len(model) + 1 /\ i \in DOMAIN model
    BY <1>1, <1>3, <2>3
  <2> QED
    BY <1>2, <1>4, <2>1, <2>2, <2>3
<1> QED
  BY <1>4 DEF OneIsANote

\* A verdict changes the only factor with its rule, or adds the first.
LEMMA HarvestKeepsDistinct ==
    ASSUME Typed, Past, TestIsFirst, DecidedIsCredited, OneIsANote, Harvest
    PROVE  OneIsANote'
<1> DEFINE rule == proposed[This]
           p == Promoted(rule)
<1>1. pc = "judged" /\ model' = IF verdict \in Credited THEN MergedFactors(rule) ELSE model
  BY DEF Harvest
<1>2. ~Decided => ~Duplicate(rule) /\ \A f \in RangeOf(model) : f.thesis # This
  BY <1>1 DEF TestIsFirst, UnderTest, Working, Tests
<1>3. \A i \in DOMAIN model : model[i] \in RangeOf(model)
  BY DEF RangeOf
<1>4. \A i, k \in DOMAIN model : model[i].rule = rule /\ model[k].rule = rule => i = k
  <2>1. CASE Decided
    <3>1. \A f \in RangeOf(model) : f.rule = rule => f.status # "candidate"
      BY <1>1, <2>1 DEF DecidedIsCredited, Working, Tests
    <3> QED
      BY <1>3, <3>1 DEF OneIsANote
  <2>2. CASE ~Decided
    BY <1>2, <1>3, <2>2 DEF Duplicate, OneIsANote
  <2> QED
    BY <2>1, <2>2
<1>5. p \in Factors /\ p.rule = rule
      /\ \/ \E k \in DOMAIN model : model[k].rule = rule /\ p.thesis = model[k].thesis
         \/ (\A k \in DOMAIN model : model[k].rule # rule) /\ p.thesis = This
  BY <1>1, PromotedFactor
<1> HIDE DEF rule, p
<1>6. CASE verdict \notin Credited
  BY <1>1, <1>6 DEF OneIsANote
<1>7. CASE verdict \in Credited /\ \E f \in RangeOf(model) : f.rule = rule
  <2>1. model' = [i \in DOMAIN model |-> IF model[i].rule = rule THEN p ELSE model[i]]
    BY <1>1, <1>7 DEF MergedFactors, p
  <2>2. \E k \in DOMAIN model : model[k].rule = rule /\ p.thesis = model[k].thesis
    BY <1>5, <1>7 DEF RangeOf
  <2>3. DOMAIN model' = DOMAIN model
    BY <2>1
  <2>4. ASSUME NEW i \in DOMAIN model
        PROVE  /\ model'[i].thesis = model[i].thesis /\ model'[i].rule = model[i].rule
               /\ model[i].rule # rule => model'[i].status = model[i].status
    BY <1>4, <1>5, <2>1, <2>2
  <2> QED
    BY <1>4, <2>3, <2>4 DEF OneIsANote
<1>8. CASE verdict \in Credited /\ ~ \E f \in RangeOf(model) : f.rule = rule
  <2>1. model' = Append(model, p)
    BY <1>1, <1>8 DEF MergedFactors, p
  <2>2. ~Decided
    BY <1>1, <1>8 DEF Typed, Waiting, Working, Tests, rule
  <2>3. \A f \in RangeOf(model) : f.thesis # p.thesis /\ f.rule # p.rule
    BY <1>2, <1>5, <1>8, <2>2 DEF RangeOf
  <2> QED
    BY <1>5, <2>1, <2>3, AnotherFactor DEF Typed
<1> QED
  BY <1>6, <1>7, <1>8

LEMMA StepDistinct ==
    ASSUME Typed, Past, Tested, Distinct, [Next]_vars
    PROVE  Distinct'
<1> SUFFICES ASSUME ~reversed', DemotionsAreOwn' PROVE OneIsANote'
  BY DEF Distinct
<1>1. OneIsANote /\ Credible
  BY DemotionsStay, ReversalsStay DEF Distinct, Tested, Typed
<1>2. CASE model' = model
  BY <1>1, <1>2 DEF OneIsANote
<1>3. ASSUME NEW rule \in Rules, Note(rule) PROVE OneIsANote'
  <2> DEFINE new == [thesis |-> Begins, rule |-> rule, status |-> "candidate"]
  <2>1. new \in Factors /\ model' = Append(model, new) /\ ~Duplicate(rule) /\ MayResearch
    BY <1>3, NotedModel DEF Typed
  <2>2. \A f \in RangeOf(model) : f.thesis # Begins
    BY <2>1, NotBegun DEF Past
  <2>3. \A f \in RangeOf(model) : f.rule = rule => f.status \in {"demoted", "refuted"}
    BY <2>1 DEF Duplicate
  <2>4. new.thesis = Begins /\ new.rule = rule /\ new.status = "candidate"
    OBVIOUS
  <2> HIDE DEF new
  <2> QED
    BY <1>1, <2>1, <2>2, <2>3, <2>4, AnotherFactor DEF Typed
<1>4. CASE Harvest
  BY <1>1, <1>4, HarvestKeepsDistinct DEF Tested, Credible
<1>5. CASE JudgeCandidate
  <2>1. ASSUME NEW r \in Candidates, NEW rule, model' = DemotedFactors(rule),
               demotions' = demotions \cup {[round |-> r, rule |-> rule]}
        PROVE  OneIsANote'
    <3>1. rule \in {proposed[r], NoRule}
      <4>1. [round |-> r, rule |-> rule] \in demotions' /\ proposed' = proposed
        BY <1>5, <2>1, JudgedCandidate
      <4> QED
        BY <4>1 DEF DemotionsAreOwn
    <3>2. \A i \in DOMAIN model : model[i].rule # NoRule /\ model[i] \in RangeOf(model)
      BY FactorsOf, ConstantsAssumption DEF Typed, Factors
    <3>3. ASSUME NEW i \in DOMAIN model, NEW k \in DOMAIN model, i # k,
                 model[i].rule = model[k].rule
          PROVE  model[i].rule # rule
      BY <1>1, <3>1, <3>2, <3>3 DEF OneIsANote, Credible, NotesAreUntested
    <3>4. /\ DOMAIN model' = DOMAIN model
          /\ \A i \in DOMAIN model :
                /\ model'[i].thesis = model[i].thesis /\ model'[i].rule = model[i].rule
                /\ model[i].rule # rule => model'[i].status = model[i].status
      BY <2>1, DemotedModel DEF Typed
    <3> QED
      BY <1>1, <3>3, <3>4 DEF OneIsANote
  <2> QED
    BY <1>2, <1>5, <2>1, JudgedCandidate
<1> QED
  BY <1>2, <1>3, <1>4, <1>5, QuietSteps DEF Quiet, LogResult, Propose

LEMMA StepInv == ASSUME Inv, [Next]_vars PROVE Inv'
BY StepTyped, StepPast, StepTested, StepDistinct, StepVerdict, StepCredit DEF Inv

LEMMA AlwaysInv == Spec => []Inv
BY InitInv, StepInv, PTL DEF Spec

-----------------------------------------------------------------------------
\* The model, the rounds' artifacts and rows, and the demotions keep their types.
THEOREM TypeCorrect == Spec => []TypeOK
<1>1. Inv => TypeOK
  BY DEF Inv, Typed
<1> QED
  BY <1>1, AlwaysInv, PTL

\* The harvest leaves the rule of the round with its verdict, and with no other.
THEOREM VerdictTheorem == Spec => []VerdictIsCredited
<1>1. Inv => VerdictIsCredited
  BY DEF Inv
<1> QED
  BY <1>1, AlwaysInv, PTL

\* Credit comes from a backtest that has a row, or in which the process died.
THEOREM CreditTheorem == Spec => []CreditIsRecorded
<1>1. Inv => CreditIsRecorded
  BY DEF Inv
<1> QED
  BY <1>1, AlwaysInv, PTL

\* A thesis is named once, and one of its rule's factors at the most is active, until a
\* walkforward demotes the rule of another thesis, or a retest that is executed again after
\* a death comes to another verdict.
THEOREM DistinctTheorem == Spec => []FactorsAreDistinct
<1>1. Inv => FactorsAreDistinct
  BY DEF Inv, Distinct, DemotionsAreOwn, OneIsANote, FactorsAreDistinct
<1> QED
  BY <1>1, AlwaysInv, PTL
=============================================================================
