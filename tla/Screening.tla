----------------------------- MODULE Screening -----------------------------
(***************************************************************************)
(* The screening of a proposal's rule against the feature table, the       *)
(* causal model's fit and residuals, and what harvests and walkforwards    *)
(* make of a factor (screening, causal_model, the call of both in          *)
(* _screen_mechanism_proposal, causal_harvest, walkforward).               *)
(*                                                                         *)
(* Trades of the last part of the period are held out: a model is scored   *)
(* on them, but no screening, residual or feedback that a session reads    *)
(* may depend on how they ended.  Harvests and walkforwards may: they judge*)
(* a factor on the whole period, and sessions read their verdicts.  So the *)
(* verdicts are to be all that a session learns of the held out trades.    *)
(* That compares two executions, and the module runs the program in two    *)
(* worlds at once: this one, and one where no held out trade loses and all *)
(* others end as here.  Worlds that all agree with that one agree with     *)
(* each other.                                                             *)
(***************************************************************************)
EXTENDS Features, SequencesExt, TLC

CONSTANTS
    Rules,          \* the rules a session may propose: a column and the least value
    HoldoutDay,     \* the first day that is held out
    MinSample,      \* research_engine.min_sample
    MinLift,        \* research_engine.min_abs_lift, in percent
    MinZ2,          \* 100 times the square of the z-score at max_p_value
    MaxOverlap,     \* research_engine.max_population_overlap, in percent
    Lessons,        \* what a verdict may say beside its status
    MaxScreens,     \* bound: proposals screened
    MaxVerdicts,    \* bound: verdicts of harvests and walkforwards
    None

ASSUME ScreeningAssumption ==
    /\ MinSample \in Nat \ {0} /\ MinLift \in 0 .. 100
    /\ MinZ2 \in Nat /\ MaxOverlap \in 0 .. 100

VARIABLES
    world,          \* what each world holds: a World
    round           \* screenings that passed

screeningVars == <<market, world, round>>

Worlds == {"this", "other"}

\* A world before its first backtest.
World ==
    [losses |-> {},         \* the trades that end in a loss
     factors |-> <<>>,      \* the causal model's factors, in order
     pending |-> None,      \* the factor that waits in the round for its harvest
     score |-> None,        \* and the score of the model with it
     skills |-> <<>>,       \* accuracy_history: hits beyond the naive guess's
     verdicts |-> <<>>,     \* of harvests and walkforwards, on record
     screened |-> <<>>,     \* the screenings on record, of the rounds that are followed
     raised |-> FALSE]      \* the round died in an exception

Tabled == PeriodOver /\ DOMAIN table = trades

-----------------------------------------------------------------------------
(* Rules and the training rows.                                            *)

\* Variant: no row is held out of the training rows.
AllRows == trades
HeldOut == {t \in trades : t.day >= HoldoutDay}
Training == trades \ HeldOut

\* A rule may name entry columns only: an outcome column is refused.
IsBad(rule) == \E t \in trades : rule.column \notin DOMAIN table[t]
Matches(rule, row) ==
    IF rule.column = "regime_label" THEN row.regime_label = rule.value
                                    ELSE AtMost(rule.value, row[rule.column])
Flagged(rule, rows) == {t \in rows : Matches(rule, table[t])}

-----------------------------------------------------------------------------
(* screen_pair.                                                            *)

Abs(n) == IF n < 0 THEN -n ELSE n

\* The excess losses among the n flagged rows: the lift is Excess/(n*|Training|).
Excess(r) == r.losses * r.rows - r.base * r.sample

LiftsEnough(r) == 100 * Abs(Excess(r)) >= MinLift * r.sample * r.rows

\* The two-proportion test: p is 1 where it is not defined.
IsSignificant(r) ==
    LET rest == r.rows - r.sample
        spread == r.sample * rest * r.base * (r.rows - r.base)
        apart == r.losses * rest - (r.base - r.losses) * r.sample
    IN  spread > 0 /\ 100 * apart * apart * r.rows >= MinZ2 * spread

PassesThresholds(r) == r.sample >= MinSample /\ LiftsEnough(r) /\ IsSignificant(r)

IsActive(f) == f.status \notin {"demoted", "refuted"}
Overlaps(flags, f) ==
    LET others == Flagged(f.rule, Training) IN
    100 * Cardinality(flags \cap others) > MaxOverlap * Cardinality(flags \cup others)
Duplicated(flags, fs) == {i \in DOMAIN fs : IsActive(fs[i]) /\ Overlaps(flags, fs[i])}

Measured(rule, losses) ==
    LET flags == IF IsBad(rule) THEN {} ELSE Flagged(rule, Training) IN
    [rule |-> rule, rows |-> Cardinality(Training), base |-> Cardinality(losses \cap Training),
     sample |-> Cardinality(flags), losses |-> Cardinality(losses \cap flags)]

Verdict(rule, r, fs) ==
    CASE IsBad(rule) -> "kill_bad_rule"
      [] r.sample < MinSample -> "kill_min_sample"
      [] Duplicated(Flagged(rule, Training), fs) # {} -> "kill_duplicate"
      [] ~PassesThresholds(r) -> "kill_no_lift"
      [] OTHER -> "pass"

FullScreen(rule, fs, losses) ==
    LET r == Measured(rule, losses)
        verdict == Verdict(rule, r, fs)
    IN  r @@ [verdict |-> verdict,
              overlap_with |-> IF verdict = "kill_duplicate"
                               THEN Min(Duplicated(Flagged(rule, Training), fs)) ELSE 0]

\* The competitor explains clearly more.
Beats(c, p) ==
    /\ c.verdict # "kill_bad_rule" /\ PassesThresholds(c)
    /\ 100 * Abs(Excess(p)) * c.sample + p.sample * c.sample * p.rows
         < 100 * Abs(Excess(c)) * p.sample

\* The proposal's screening and then, if there is one, the competitor's.
ScreenPair(rule, competitor, fs, losses) ==
    LET p == FullScreen(rule, fs, losses) IN
    IF competitor = None THEN <<p>>
    ELSE LET c == FullScreen(competitor, fs, losses) IN
         <<IF p.verdict = "pass" /\ Beats(c, p)
           THEN [p EXCEPT !.verdict = "kill_lost_to_competitor"] ELSE p, c>>

-----------------------------------------------------------------------------
(* The causal model: naive Bayes with one flag per active factor, in whole *)
(* numbers: both sides of the comparison are scaled by the denominators.   *)

ActiveOf(fs) == SelectSeq(fs, LAMBDA f : f.status \in {"candidate", "supported"})

\* The weight of the flags of a trade among the training rows of one outcome.
Likelihood(fs, t, rows) ==
    LET flag(f) == Cardinality(Flagged(f.rule, rows)) + 1
        term(f) == IF Matches(f.rule, table[t]) THEN flag(f)
                                                ELSE Cardinality(rows) + 2 - flag(f)
    IN  FoldSeq(LAMBDA f, product : term(f) * product, Cardinality(rows) + 1, fs)

PredictsLoss(fs, t, losses) ==
    LET lost == Training \cap losses
        won == Training \ losses
        k == Len(fs)
    IN  Likelihood(fs, t, lost) * (Cardinality(won) + 2) ^ k
          > Likelihood(fs, t, won) * (Cardinality(lost) + 2) ^ k

\* residual_map: what the active factors say of the training rows, and what happened.
Residuals(active, losses) ==
    [t \in Training |-> [predicted |-> PredictsLoss(active, t, losses), actual |-> t \in losses]]

\* score_on_holdout: the hits beyond those of always guessing the majority.
Skill(fs, losses) ==
    LET hits == {t \in HeldOut : PredictsLoss(ActiveOf(fs), t, losses) <=> t \in losses}
        majority == 2 * Cardinality(Training \cap losses) > Cardinality(Training)
        naive == {t \in HeldOut : majority <=> t \in losses}
    IN  Cardinality(hits) - Cardinality(naive)

-----------------------------------------------------------------------------
ScreeningInit ==
    /\ MarketInit
    /\ world = [w \in Worlds |-> World]
    /\ round = 0

\* The bars of the period and the trades, each with any outcome.
Backtest ==
    /\ Market
    /\ IF Tabled'
       THEN \E losses \in SUBSET trades :
                world' = [w \in Worlds |->
                    [world[w] EXCEPT !.losses = IF w = "this" THEN losses ELSE losses \ HeldOut]]
       ELSE UNCHANGED world
    /\ UNCHANGED round

\* Bound: sessions of worlds that settled their factors otherwise read different
\* corpora, so what they propose is not compared any further.
SettledAlike == world["this"].verdicts = world["other"].verdicts

\* _screen_mechanism_proposal: both screenings are on record before the verdict
\* counts, and a model that cannot be scored raises after that.  The factor of a rule
\* that only was recorded is in the model at once, a compiled one's waits in its round.
Screened(s, rule, competitor, compiled) ==
    LET result == ScreenPair(rule, competitor, s.factors, s.losses)
        factor == [rule |-> rule, direction |-> IF Excess(result[1]) >= 0 THEN "loss" ELSE "win",
                   status |-> "candidate", lesson |-> None]
        extended == Append(s.factors, factor)
        passes == result[1].verdict = "pass"
        scored == passes /\ HeldOut # {}
        score == Skill(extended, s.losses)
    IN  [s EXCEPT !.screened = result, !.raised = passes /\ ~scored,
                  !.pending = IF scored /\ compiled THEN factor ELSE None,
                  !.score = IF scored /\ compiled THEN score ELSE None,
                  !.factors = IF scored /\ ~compiled THEN extended ELSE @,
                  !.skills = IF scored /\ ~compiled THEN Append(@, score) ELSE @]

\* Bound: what follows a screening that fails is what follows without it, as the
\* model is the same, so only those that pass are followed.
Screen ==
    LET s == world["this"] IN
    /\ Tabled /\ SettledAlike /\ ~s.raised
    /\ round < MaxScreens
    /\ s.screened # <<>> => s.screened[1].verdict = "pass"
    /\ \E rule \in Rules, competitor \in Rules \cup {None}, compiled \in BOOLEAN :
        world' = [w \in Worlds |-> Screened(world[w], rule, competitor, compiled)]
    /\ round' = round + 1
    /\ UNCHANGED market

\* apply_registered_verdict_to_causal_factor: the pending factor takes the place of
\* those of the model with its rule, and its score is on record.  An inconclusive
\* prediction may be tested again.
Merged(fs, factor) ==
    IF \E i \in DOMAIN fs : fs[i].rule = factor.rule
    THEN [i \in DOMAIN fs |-> IF fs[i].rule = factor.rule THEN factor ELSE fs[i]]
    ELSE Append(fs, factor)
Recorded(s, rule, v) ==
    [s EXCEPT !.verdicts = Append(@, [rule |-> rule, status |-> v.status, lesson |-> v.lesson])]
Harvested(s, v) ==
    LET status == IF v.status = "supported" THEN "harvested" ELSE "refuted"
        factor == [s.pending EXCEPT !.status = status, !.lesson = v.lesson]
        recorded == Recorded(s, s.pending.rule, v)
    IN  IF v.status = "inconclusive" THEN recorded
        ELSE [recorded EXCEPT !.pending = None, !.score = None,
                              !.factors = Merged(@, factor), !.skills = Append(@, s.score)]

\* The predictions of a compiled round are judged on the metrics of the whole period,
\* the held out part of it included: each world has its own verdict.
Harvest ==
    /\ SettledAlike /\ world["this"].pending # None
    /\ Len(world["this"].verdicts) < MaxVerdicts
    /\ \E v \in [Worlds -> [status : {"supported", "refuted", "inconclusive"}, lesson : Lessons]] :
        world' = [w \in Worlds |-> Harvested(world[w], v[w])]
    /\ UNCHANGED <<market, round>>

\* _demote_factor: of the factor's windows, which cover the whole period too, too few
\* hold.  The report is on record whatever it says.
Walked(s, rule, v) ==
    LET demoted(f) == [f EXCEPT !.status = "demoted", !.lesson = v.lesson] IN
    IF v.status # "demoted" THEN Recorded(s, rule, v)
    ELSE [Recorded(s, rule, v) EXCEPT
            !.factors = [i \in DOMAIN @ |-> IF @[i].rule = rule THEN demoted(@[i]) ELSE @[i]]]
Walkforward ==
    /\ SettledAlike
    /\ Len(world["this"].verdicts) < MaxVerdicts
    /\ \E i \in DOMAIN world["this"].factors,
         v \in [Worlds -> [status : {"graduated", "demoted"}, lesson : Lessons]] :
        world' = [w \in Worlds |-> Walked(world[w], world["this"].factors[i].rule, v[w])]
    /\ UNCHANGED <<market, round>>

ScreeningNext == Backtest \/ Screen \/ Harvest \/ Walkforward

ScreeningSpec == ScreeningInit /\ [][ScreeningNext]_screeningVars

-----------------------------------------------------------------------------
(* The corpus that the next session is given.                              *)

\* _residual_summary: the residuals, each with the entry features of its trade; none
\* where there is no table.
ResidualSummary(s) ==
    LET residuals == Residuals(ActiveOf(s.factors), s.losses) IN
    IF Tabled THEN [t \in Training |-> residuals[t] @@ table[t]] ELSE <<>>

\* _persist_rejection_feedback: the figures of a screening that failed.
RejectionFeedback(s) ==
    IF s.screened # <<>> /\ s.screened[1].verdict # "pass" THEN s.screened[1] ELSE None

\* build_corpus: the factors of the model with their lessons, but not its
\* accuracy_history.  What it takes of other families, and statistics of the summary,
\* are left out.
Corpus(s) ==
    [factors |-> s.factors,
     residual_summary |-> ResidualSummary(s),
     screening_history |-> s.screened,
     verdicts |-> s.verdicts,               \* harvest_verdicts and walkforward_reports
     rejection_feedback |-> RejectionFeedback(s)]

-----------------------------------------------------------------------------
(* Properties.                                                             *)

\* Two worlds that differ in the outcomes of held out trades only, and in which
\* harvests and walkforwards came to the same verdicts, give a session the same
\* corpus: the screenings, the residuals and the feedback show the search nothing of
\* the holdout, and a score on it stays a test.  Where the verdicts differ, the
\* residuals still tell no more than which factors they left active.
HoldoutStaysUnseen ==
    LET this == world["this"]
        other == world["other"]
    IN  /\ this.verdicts = other.verdicts => Corpus(this) = Corpus(other)
        /\ ActiveOf(this.factors) = ActiveOf(other.factors) =>
              ResidualSummary(this) = ResidualSummary(other)
=============================================================================
