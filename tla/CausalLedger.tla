---------------------------- MODULE CausalLedger ----------------------------
(***************************************************************************)
(* The life of a causal factor: a proposal is screened against the family's *)
(* causal model, its candidate factor waits in the round's directory for    *)
(* the verdict of a backtest (one retest if that is inconclusive), enters   *)
(* the model with the verdict, and may be demoted by the walkforward at the *)
(* end of the job.  The model is one file per family, shared by its jobs;   *)
(* rounds are counted per job.                                              *)
(*                                                                         *)
(* A rule is a name: two rules flag the same trades only if they are one.   *)
(* Metrics are abstracted to what the verdicts tell apart.                  *)
(* The program is not exchanged: a deployment, which has the baseline run   *)
(* again, rounds counted from 0 and a pending retest forgotten, is          *)
(* Controller's.                                                            *)
(***************************************************************************)
EXTENDS Naturals, Sequences, FiniteSets

CONSTANTS
    Rules,          \* rules the conductor may propose
    NoRule,         \* "": no rule
    MaxJobs,        \* bound: jobs of the family
    MaxRounds,      \* MAX_RESEARCH_ROUNDS
    Predictions,    \* registered predictions of a thesis
    Windows,        \* walkforward windows
    SurvivalPct,    \* research_engine_walkforward_survival_pct, in percent
    MaxCrashes      \* bound: deaths of the process

ASSUME ConstantsAssumption ==
    /\ NoRule \notin Rules
    /\ MaxJobs \in Nat \ {0} /\ MaxRounds \in Nat \ {0}
    /\ Predictions \in Nat \ {0} /\ Windows \in Nat \ {0}
    /\ SurvivalPct \in 0 .. 100 /\ MaxCrashes \in Nat

VARIABLES
    at,             \* the job and the round in progress or just ended
    model,          \* factors of <family>_causal_model.json, in order
    pending,        \* factors of the round's pending_causal_model.json
    proposed,       \* selected_thesis.json of each round: its rule
    runs,           \* the backtest row of each round
    pc,             \* where the controller is
    retest,         \* next_action is a registered_prediction_retest
    verdict,        \* HarvestVerdict of the backtest in progress
    keep,           \* the decision is "keep"
    queue,          \* rounds the walkforward has still to judge
    demotions,      \* history: rounds whose thesis failed its walkforward, with the rule demoted
    died,           \* history: rounds in or after which the process died
    outcomes,       \* history: what the backtests of the round in progress came to
    reversed        \* history: a retest executed again has come to another verdict

vars == <<at, model, pending, proposed, runs, pc, retest, verdict, keep, queue, demotions, died,
          outcomes, reversed>>
backtest == <<retest, verdict, keep>>
tested == <<outcomes, reversed>>
history == <<demotions, died, tested>>

-----------------------------------------------------------------------------
Rounds == (1 .. MaxJobs) \X (1 .. MaxRounds)
This == <<at.job, at.round>>

Statuses == {"candidate", "harvested", "refuted", "demoted"}
Factors == [thesis : Rounds, rule : Rules, status : Statuses]
Round(factor) == factor.thesis[2]           \* evidence_rounds
Final == {"supported", "refuted", "degenerate"}
Verdicts == Final \cup {"none", "inconclusive"}
Outcomes == Final \cup {"inconclusive", "failed"}

RangeOf(s) == {s[i] : i \in DOMAIN s}
Least(S) == CHOOSE i \in S : \A k \in S : i <= k

\* evaluate_predictions.  A prediction whose metric is missing on either side makes
\* the verdict degenerate, like too few trades; one beyond the noise floor in the
\* wrong direction refutes.
Judged == {"missing", "noise", "passed", "not_passed"}
Evaluate(enoughTrades, results) ==
    IF ~enoughTrades \/ "missing" \in RangeOf(results) THEN "degenerate"
    ELSE IF "not_passed" \in RangeOf(results) THEN "refuted"
    ELSE IF "noise" \in RangeOf(results) THEN "inconclusive"
    ELSE "supported"
BacktestVerdicts == {Evaluate(b, r) : b \in BOOLEAN, r \in [1 .. Predictions -> Judged]}

\* evaluate_walkforward.  A window without the baseline's value of a predicted metric
\* counts for nothing; without the candidate's it counts against it.
InWindow == {"no_baseline", "no_candidate", "passed", "not_passed"}
Inconclusive(results) == "no_baseline" \in RangeOf(results)
Holds(results) == \A r \in RangeOf(results) : r = "passed"
Survival(windows) ==
    LET usable == {i \in DOMAIN windows : windows[i] # "inconclusive"}
        Count(kind) == Len(SelectSeq(windows, LAMBDA w : w = kind))
    IN IF usable = {} THEN "inconclusive"
       ELSE IF 100 * Count("holds") >= SurvivalPct * (Count("holds") + Count("fails"))
            THEN "graduated" ELSE "demoted"
WindowKinds ==
    {IF Inconclusive(r) THEN "inconclusive" ELSE IF Holds(r) THEN "holds" ELSE "fails" :
        r \in [1 .. Predictions -> InWindow]}
\* build_windows: the test windows of the out-of-sample range, in order.
TestWindows == 1 .. Windows
WalkforwardVerdicts == {Survival(w) : w \in [TestWindows -> WindowKinds]}

Init ==
    /\ at = [job |-> 1, round |-> 0]
    /\ model = <<>> /\ pending = <<>>
    /\ proposed = [r \in Rounds |-> NoRule]
    /\ runs = [r \in Rounds |-> "none"]
    /\ pc = "plan"
    /\ retest = FALSE /\ verdict = "none" /\ keep = FALSE
    /\ queue = {} /\ demotions = {} /\ died = {}
    /\ outcomes = {} /\ reversed = FALSE

-----------------------------------------------------------------------------
(* Proposals.                                                              *)

\* _full_screen: a rule whose trades an active factor flags is a duplicate.
Duplicate(rule) ==
    \E f \in RangeOf(model) : f.rule = rule /\ f.status \notin {"demoted", "refuted"}

WithCandidate(rule) ==
    Append(model, [thesis |-> <<at.job, at.round + 1>>, rule |-> rule, status |-> "candidate"])

MayResearch == at.round < MaxRounds
NextRound(file) ==
    /\ at' = [at EXCEPT !.round = @ + 1]
    /\ pending' = file
    /\ outcomes' = {}
    /\ UNCHANGED reversed

\* A round whose proposals were all rejected, or that was not logged as compiled.
EndRound ==
    /\ pc = "plan" /\ MayResearch
    /\ NextRound(<<>>)
    /\ UNCHANGED <<model, proposed, runs, pc, backtest, queue, demotions, died>>

\* A mechanism that is not actionable goes into the model at once.
Note(rule) ==
    /\ pc = "plan" /\ MayResearch /\ ~Duplicate(rule)
    /\ model' = WithCandidate(rule)
    /\ NextRound(<<>>)
    /\ UNCHANGED <<proposed, runs, pc, backtest, queue, demotions, died>>

\* An actionable one is compiled into a config; the model with its factor waits in
\* the round's directory.
Propose(rule) ==
    /\ pc = "plan" /\ MayResearch /\ ~Duplicate(rule)
    /\ proposed' = [proposed EXCEPT ![<<at.job, at.round + 1>>] = rule]
    /\ NextRound(WithCandidate(rule))
    /\ pc' = "ready"
    /\ UNCHANGED <<model, runs, backtest, queue, demotions, died>>

-----------------------------------------------------------------------------
(* run_experiment.                                                         *)

RunBacktest ==
    /\ pc = "ready"
    /\ pc' = "measured"
    /\ UNCHANGED <<at, model, pending, proposed, runs, backtest, queue, history>>

\* A retest is over a longer period, and so the baseline is run over that period too.
\* Where there is no baseline, or its command or its output fails, the prediction is
\* held against the baseline's last checkpoint: the round goes on either way.
RerunBaseline ==
    /\ pc = "measured" /\ retest
    /\ pc' = "compared"
    /\ UNCHANGED <<at, model, pending, proposed, runs, backtest, queue, history>>

\* An inconclusive retest is forced to refuted.
Forced(v) == IF v = "inconclusive" /\ retest THEN "refuted" ELSE v

\* The predictions are evaluated; a first inconclusive test asks for a retest.
JudgePredictions ==
    /\ pc = IF retest THEN "compared" ELSE "measured"
    /\ \E v \in BacktestVerdicts, better \in BOOLEAN :
        /\ verdict' = Forced(v)
        /\ keep' = (better /\ v = "supported")
    /\ pc' = "judged"
    /\ UNCHANGED <<at, model, pending, proposed, runs, retest, queue, history>>

Record(outcome) ==
    /\ outcomes' = outcomes \cup {outcome}
    /\ reversed' = (reversed \/ (outcome \in Final /\ (outcomes \cap Final) \ {outcome} # {}))

\* A command that fails, or whose output is no metric: the round is over, and a retest
\* is forgotten.
BacktestFails ==
    /\ pc = "ready"
    /\ pc' = "plan"
    /\ retest' = FALSE
    /\ Record("failed")
    /\ UNCHANGED <<at, model, pending, proposed, runs, verdict, keep, queue, demotions, died>>

\* apply_registered_verdict_to_causal_factor
\* Variant: only a supported rule is promoted.
SupportedOnly == {"supported"}
Credited == {"supported", "refuted"}
TargetStatus == IF verdict = "supported" THEN "harvested" ELSE "refuted"

\* The first pending factor with the rule replaces every factor with the rule in the
\* model, or is appended to it.
Promoted(rule) ==
    [pending[Least({i \in DOMAIN pending : pending[i].rule = rule})] EXCEPT !.status = TargetStatus]
\* Variant: it is always appended.
AppendedFactors(rule) == Append(model, Promoted(rule))
MergedFactors(rule) ==
    IF \E f \in RangeOf(model) : f.rule = rule
    THEN [i \in DOMAIN model |-> IF model[i].rule = rule THEN Promoted(rule) ELSE model[i]]
    ELSE Append(model, Promoted(rule))

\* harvest_verdict.json is written before the promotion.
Harvest ==
    /\ pc = "judged"
    /\ Record(verdict)
    /\ model' = IF verdict \in Credited THEN MergedFactors(proposed[This]) ELSE model
    /\ pc' = "harvested"
    /\ UNCHANGED <<at, pending, proposed, runs, backtest, queue, demotions, died>>

\* Variant: rows are told apart by their round alone.
RowOfRound == <<1, at.round>>
RowKey == This

\* log_experiment_result replaces the row of a first test; a result whose artifacts
\* are those of an earlier run is invalid, and never a candidate.
LogResult ==
    /\ pc = "harvested"
    /\ \E row \in {IF keep THEN "accepted" ELSE "rejected", "rejected"} :
        runs' = [runs EXCEPT ![RowKey] = row]
    /\ pc' = "logged"
    /\ UNCHANGED <<at, model, pending, proposed, backtest, queue, history>>

\* _finalize_round: the retest is the next action, or the planner is asked.
Finalize ==
    /\ pc = "logged"
    /\ retest' = (verdict = "inconclusive")
    /\ pc' = IF verdict = "inconclusive" THEN "ready" ELSE "plan"
    /\ verdict' = "none" /\ keep' = FALSE
    /\ UNCHANGED <<at, model, pending, proposed, runs, queue, history>>

\* The process dies and is relaunched on the state it left.  A retest is the next action
\* of that state until it is done: it is executed again, promotion and all.  A first
\* test is not: the controller plans again, and the config is lost.
\* Variant: a retest is lost too.
PlanAgain == retest' = FALSE /\ pc' = "plan"
NextActionAgain == retest' = retest /\ pc' = IF retest THEN "ready" ELSE "plan"

Crash ==
    /\ pc \in {"ready", "measured", "compared", "judged", "harvested", "logged"}
    /\ Cardinality(died) < MaxCrashes
    /\ died' = died \cup {This}
    /\ NextActionAgain
    /\ verdict' = "none" /\ keep' = FALSE
    /\ UNCHANGED <<at, model, pending, proposed, runs, queue, demotions, tested>>

-----------------------------------------------------------------------------
(* run_walkforward_queue, once the model has reached its plateau.          *)

Candidates == {r \in Rounds : r[1] = at.job /\ runs[r] = "accepted"}

StartWalkforward ==
    /\ pc = "plan" /\ at.round > 0
    /\ queue' = Candidates
    /\ pc' = "walkforward"
    /\ UNCHANGED <<at, model, pending, proposed, runs, backtest, history>>

\* _factor_rule_for_round: of the first factor that has the round's number.
HasRound(factor, round) == Round(factor) = round
FactorRule(round) ==
    LET having == {i \in DOMAIN model : HasRound(model[i], round)}
    IN IF having = {} THEN NoRule ELSE model[Least(having)].rule

\* _demote_factor
DemotedFactors(rule) ==
    [i \in DOMAIN model |->
        IF model[i].rule = rule THEN [model[i] EXCEPT !.status = "demoted"] ELSE model[i]]

JudgeCandidate ==
    /\ pc = "walkforward"
    /\ \E r \in queue, v \in WalkforwardVerdicts :
        /\ \A s \in queue : r[2] <= s[2]
        /\ queue' = queue \ {r}
        /\ IF v = "demoted"
           THEN /\ model' = DemotedFactors(FactorRule(r[2]))
                /\ demotions' = demotions \cup {[round |-> r, rule |-> FactorRule(r[2])]}
           ELSE UNCHANGED <<model, demotions>>
    /\ UNCHANGED <<at, pending, proposed, runs, pc, backtest, died, tested>>

\* A window backtest fails: the other candidates are judged all the same.
CandidateFails ==
    /\ pc = "walkforward"
    /\ \E r \in queue : (\A s \in queue : r[2] <= s[2]) /\ queue' = queue \ {r}
    /\ UNCHANGED <<at, model, pending, proposed, runs, pc, backtest, history>>

\* The process dies; the relaunched controller finds the plateau again and judges
\* every candidate once more.
CrashInWalkforward ==
    /\ pc = "walkforward"
    /\ Cardinality(died) < MaxCrashes
    /\ died' = died \cup {This}
    /\ queue' = Candidates
    /\ UNCHANGED <<at, model, pending, proposed, runs, pc, backtest, demotions, tested>>

\* A fresh launch begins the next job, whether this one was finished, failed its
\* walkforward, was halted before it, or died with a retest to come.
EndJob ==
    /\ \/ pc = "plan"
       \/ pc = "walkforward" /\ queue = {}
       \/ pc = "ready" /\ retest /\ This \in died
    /\ at.job < MaxJobs
    /\ at' = [job |-> at.job + 1, round |-> 0]
    /\ pending' = <<>>
    /\ retest' = FALSE /\ outcomes' = {}
    /\ pc' = "plan"
    /\ UNCHANGED <<model, proposed, runs, verdict, keep, queue, demotions, died, reversed>>

Backtest ==
    \/ RunBacktest \/ BacktestFails \/ RerunBaseline \/ JudgePredictions
    \/ Harvest \/ LogResult \/ Finalize
Walkforward == JudgeCandidate \/ CandidateFails \/ EndJob
Next ==
    \/ EndRound \/ Backtest \/ Crash \/ CrashInWalkforward
    \/ \E rule \in Rules : Note(rule) \/ Propose(rule)
    \/ StartWalkforward \/ Walkforward

Spec == Init /\ [][Next]_vars
FairSpec == Spec /\ WF_vars(Backtest)

-----------------------------------------------------------------------------
(* Type invariant of the family's model, the rounds' artifacts and rows.   *)
TypeOK ==
    /\ at \in [job : 1 .. MaxJobs, round : 0 .. MaxRounds]
    /\ model \in Seq(Factors) /\ pending \in Seq(Factors)
    /\ proposed \in [Rounds -> Rules \cup {NoRule}]
    /\ runs \in [Rounds -> {"none", "accepted", "rejected"}]
    /\ pc \in {"plan", "ready", "measured", "compared", "judged", "harvested", "logged",
              "walkforward"}
    /\ retest \in BOOLEAN /\ verdict \in Verdicts /\ keep \in BOOLEAN
    /\ queue \subseteq Rounds /\ died \subseteq Rounds
    /\ demotions \subseteq [round : Rounds, rule : Rules \cup {NoRule}]
    /\ outcomes \subseteq Outcomes /\ reversed \in BOOLEAN

(* As long as every demotion was of the thesis that failed, or of none, and *)
(* a retest executed again came to the verdict it had come to, the model   *)
(* names each thesis once, and at most one of its factors with a rule is   *)
(* active in duplicate screening, however often a refuted or demoted rule  *)
(* is proposed again, by whichever job, and a factor is promoted again.    *)
FactorsAreDistinct ==
    ~reversed /\ (\A d \in demotions : d.rule \in {proposed[d.round], NoRule}) =>
        \A i, k \in DOMAIN model : i # k =>
            /\ model[i].thesis # model[k].thesis
            /\ model[i].rule = model[k].rule =>
                {model[i].status, model[k].status} \cap {"demoted", "refuted"} # {}

(* Once the verdict is harvested, the model holds the rule of the round    *)
(* with that verdict, and with no other, also where an earlier execution   *)
(* of the retest has promoted the same artifact with another verdict.      *)
VerdictIsCredited ==
    pc \in {"harvested", "logged"} /\ verdict \in {"supported", "refuted"} =>
        {f.status : f \in {g \in RangeOf(model) : g.rule = proposed[This]}} = {TargetStatus}

(* A harvested or refuted factor has the verdict from a backtest of its    *)
(* rule that has a row, or in which the process died before it had one.    *)
CreditIsRecorded ==
    \A f \in RangeOf(model) : f.status \in {"harvested", "refuted"} =>
        \E r \in Rounds :
            /\ proposed[r] = f.rule
            /\ runs[r] # "none" \/ r \in died \/ (r = This /\ pc = "harvested")

(* A prediction whose first test was inconclusive does not stay so: its    *)
(* retest is executed, again after each death, until it has come to a      *)
(* final verdict, its command has failed, or a fresh job was launched, as  *)
(* long as no new program is deployed.                                     *)
ThesisIsSettled == \A r \in Rounds :
    retest /\ This = r ~>
        (This = r /\ outcomes \cap (Final \cup {"failed"}) # {}) \/ at.job > r[1]
=============================================================================
