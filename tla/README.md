# A TLA+ verification of the auto-research controller

The repository runs trading-strategy research without supervision: a
controller asks a conductor agent for a thesis, compiles it to a config (or has
a builder write the missing code), backtests it, records the verdict, and goes
on until the causal model stops learning, then runs a walkforward. It is
deployed to a VPS, killed, redeployed and resumed, and everything it knows
between two launches is in a JSON state file and a SQLite database. This
directory models that control loop, its durable state and the parts around it,
checks them with TLC on small instances and proves the safety properties of every part
with TLAPS, for all instances.

## The system

| component | state | operations | modelled in |
|---|---|---|---|
| controller (`autoresearch_controller.py`, `autoresearch_state.py`) | the state file: state, job, round, `research_round_in_progress`, `next_action`, blockers, halted thesis, `finished_reason`, `walkforward_status` | `main` (fresh launch, six resume shapes, run current state), `_run_controller_loop`, `execute_once`, `reconcile_state` | `Controller` |
| planning, orchestration | none of its own | `resolve_next_action`, `plan_next_action`, `apply_forced_baseline_rerun`, `try_resume_halted_thesis`, `build_missing_primitives_for_state` | `Controller` |
| research round (`autoresearch_research.py`) | `research_rounds`, `research_thesis_attempts`, round directories | `run_research`, `execute_research_sdk` with its retry loop, four outcome handlers | `Controller`, `ResearchRound` |
| conductor and subagents (`research_conductor.py`, `research_subagents.py`) | sessions, tool-call budgets, refinement sessions | an agent loop with a timeout, analysts, Python programs in worker threads | `Conductor` |
| screening and features (`screening.py`, `feature_table*.py`, `causal_rule.py`, `evidence_pack.py`) | the feature table, screenings on record | `build_feature_table`, `screen_pair`, residuals, the corpus of the next session | `Features`, `Screening` |
| causal harvest, causal model | pending and family causal models | verdicts, the one retest of an inconclusive prediction, promotion | `CausalLedger` |
| walkforward | `walkforward_status`, window cache | `run_walkforward_queue`, demotion | `Controller`, `CausalLedger` |
| backtest round (`autoresearch_experiment.py`) | `backtest_runs`, artifacts, checkpoints | `run_experiment`, its blocking failures, duplicates, drift, `_finalize_round` | `Controller`, `RunRecords` |
| run database (`backtest_run_db.py`) | three tables, baseline checkpoints in SQLite and JSON | upserts on ids, `BaselineTracker`, `best` and `parent` of a run | `RunRecords` |
| builder (`compiler_builder.py`) | workspace, source tree, promotion bundles | `build_missing_primitives` with one retry | `Builder`, `Controller` |
| strategies and backtest engine | positions, trades | signals and exits of `ema` and `orb` over price bars | `Trading` |
| VPS runner | releases, `current` link, virtual environment, runtime env | probe, status, checkout, upload, prepare, run | `VpsRunner`; `Controller` has a deploy |
| self-improvement, evaluation | apply lock, `eval_results`, ratchet log, exports, report batches | hooks at the end of a round, `eval_cli` | `Improvement` |
| tracing, usage | events and their prompts, counters | fail-open hooks | `Conductor` |
| validation, memory, compiler, command line | rejection rules, prior theses | pure functions over a proposal | choices of the modules above |

The controller is one process and calls the others one after another: planning
picks the next action, the research round asks the conductor, screens its
proposal against the feature table of an earlier backtest and the family's causal
model, and compiles a config or calls the builder; the backtest round runs the
config in a subprocess, files the row and the verdict, and plans again. They meet
in the state file, the tables, the round's directory and the family's model file.
Real concurrency is at the edges: the runner's remote commands against each other,
an analyst's programs in worker threads against their cancelled session, and the
hooks of several controllers in one code root.

What is hard here: the process can die between any two of its durable writes
(round row, state file, run row, checkpoint, request flag) and be launched again
in several shapes; the same round number is held in three places (`research_round`,
`research_round_in_progress`, the row); retries rewind it and forced reruns reset
it; a halted thesis waits in the state file while other rounds run; a deploy
changes the commit under a job; files of a round's directory outlive the execution
that wrote them; a remote command outlives the session that started it; and every
handler must leave a state that `write_state` accepts and that some launch can
continue. `PROJECT.json` lists each hazard at its line with the properties that
watch it.

What makes each part correct, in short: the *controller* never rejects its own
writes, strands a job or reuses a job number; *planning* runs the baseline before
research, on this commit; the *research round* numbers its rounds consecutively and
works under the number it logs; the *conductor* ends, within the budgets of its
analysts; *screening* sees nothing of the future, nor of the held out trades but the
verdicts on them; a
*causal factor* enters the model with its verdict only, once; the *backtest round*
accepts only what improves; the *database* loses no accepted result but to a
repetition; the *builder* completes only what was asked for; a *strategy* holds
nothing over night and loses no more than its risk but at an open beyond its stop; the *runner* never starts two
controllers, nor one on the wrong commit; the *improvement hooks* keep only what was
measured better and never hold a round up.

## Modules

Each component has a module of its own and, beside it, an `MC...` module with its
instance for TLC. Some operators have a variant next to them, commented as such:
the same definition with a slip that a change to the code could make.
`PROJECT.json` pairs each property with the variant that breaks it.

| module | what it is |
|---|---|
| `Controller` | the control loop over its durable state: launches, faults, resolution, research round, builder, backtest round, walkforward; the inductive invariant |
| `ControllerProofs` | the inductive proof and the theorems |
| `ResearchRound` | the inside of a research round: the retry loop, its budgets, the attempt rows, screening and the saved factor, executed again after interruptions, crashes and reruns |
| `RoundLedger` | what the rounds promise to a reader of `research_rounds`, as a specification of its own that `ResearchRound` implements |
| `ResearchRoundProofs` | that refinement, the selected attempts, the traces of rejections and the factors' numbers |
| `Conductor` | one round's sessions with the agent, their analysts and the programs these run |
| `Features`, `Screening` | the feature table over bars as they form; the statistics of a rule on it, the model's fit, harvests and walkforwards, and two worlds that differ in the held out outcomes (`Screening` EXTENDS `Features`) |
| `SessionProofs` | of `Conductor`: late events find their prompt, failed programs are bounded; of `Screening`: held out trades stay unseen but for the verdicts; of `Features`: no row looks ahead |
| `CausalLedger` | the life of a causal factor over the rounds and jobs of a family |
| `CausalLedgerProofs` | what a factor in the model owes its verdict |
| `RunRecords` | rows, checkpoints, drift and duplicates of backtests |
| `RunRecordsProofs` | that accepted runs improve and checkpoints are stored |
| `Builder` | a build in its workspace, with the promotion of its files |
| `Trading` | signals, exits and fills of the two strategy families, bar by bar |
| `StrategyProofs` | of `Trading`: what a trade can lose and when it is closed; of `Builder`: what a build that completes has delivered |
| `VpsRunner` | deployments to one host and the remote commands they leave running |
| `VpsRunnerProofs` | that at most one controller runs, and that it runs what its session deployed |
| `Improvement` | the hooks at the end of a round, over two controllers |
| `ImprovementProofs` | whom a lock belongs to, and that what is kept was measured |

Two modules of proofs extend two components each, so the names of `Builder` and `Screening`
that another component has too are theirs alone: `BuilderSpec`, `ScreeningSpec`, `Nothing`.

### Controller

`st` is the state file; an action is one atomic write of it (`write_state` is a
write to a temporary file and a rename) or one commit of a table. `proc` is the
process: the place between two durable writes, and what it holds in memory (the
conductor's answer, who called the builder, whether the result asks for a
retest). A `Crash` forgets `proc` and nothing else.

| actions | code |
|---|---|
| `FreshLaunch`, `ResumeInterruptedResearch`, `ResumeBlockedResearch`, `ResumeRunning`, `RunCurrentState` | `main` and `normalize_controller_launch_state`; each may stop after the write (`--prepare-launch-state-only`) or enter the loop |
| `ForceBaselineRerun`, `KeepRetest`, `ReconcileState`, `ResumeHaltedThesis`, `RebuildHaltedThesis` | the branches of `resolve_next_action` in their order |
| `Dispatch`, `Loop` | `execute_once`, `_run_controller_loop` |
| `FinishMaxRounds`, `BeginRound`, `LogResearchRound`, the four `Handle...` | `run_research`: limit, `research_round_in_progress` and `ensure_round_started`, the row, the handlers |
| `MarkBuilderRunning`, `ActivateBuilderConfig`, `BuilderAsksResearchRetry`, `BuilderFails`, `BuilderNeedsReview`, `BuilderActivationFails` | `build_missing_primitives_for_state` |
| `BeginBacktest`, `CommandFails`, `MetricParseFails`, `EvaluateTimesOut`, `LogResult`, `LogInconclusive`, `RecordCheckpoint`, `ClearRerunRequest`, `FinalizeRetest`, `FinalizeRound` | `run_experiment` from `_validate_backtest_request` to `_finalize_round` |
| `WalkforwardCompletes`, `WalkforwardFails` | `run_walkforward_queue` |
| `Deploy`, `LoseStateFile`, `Crash` | the runner (it refuses while a round is active), a missing file, a dead process |

Abstractions. A thesis is the ordinal of its proposal, so two proposals are never
confused. A metric is the choice whether it beats the best kept one, with the
code's exception for the first row of a job. The plateau verdict of
`should_terminate` is a choice once `PlateauRounds` rounds are logged. `BeginRound`
takes the state write and `ensure_round_started` together: both are idempotent and
nothing reads one between them. Manual-review and builder-failure histories,
rejection feedback, heartbeats, activity, usage and current-best fields are left
out: no branch of the loop reads them. The guard that stops the loop when a hash of
the blocked state repeats is left out because an iteration that stays blocked has
changed the round, so the hash; termination is shown without its help. An
exception nobody catches, such as a missing benchmark command, is a `Crash`.

### ResearchRound

`Controller` takes a round as one answer of the conductor; `ResearchRound` follows
one job's rounds from `ensure_round_started` to the handler, one commit at a time.
`loop` is the three counters of `execute_research_sdk`, which a crash forgets;
`rows`, `tries`, `screened` and `factors` are the tables and the family's causal model,
which it does not. A proposal is named by the execution of the round and the attempt
that made it, so that two proposals under one thesis id stay apart.

| actions | code |
|---|---|
| `BeginRound`, `ConductorProposes`, `ConductorFails`, `GiveUp` | `execute_research_sdk`, its loop condition and its two terminal results |
| `RejectAtStage1`, `RejectAtCompile`, then `LogRejectedAttempt` | `_log_validation_rejection`: two commits, the round's row and the attempt's |
| `ScreeningKills`, `ScreeningRaises`, `SaveModel`, `Compiles` | `_screen_mechanism_proposal` and what follows it, for a rule without and with a change to the strategy |
| `LogRound`, `LogAttempt`, `Handle` | `run_research`: `log_research_round` in its two commits, then the handler's state write |
| `Relaunch`, `EvaluateTimesOut`, `ForcedBaselineRerun`, `BacktestEnds`, `Crash` | what makes a round be executed again, as `Controller` has it in detail |

The tool-call gate, the schema, the allowed keys and the deduplication against prior
theses are one choice, rejection at stage 1: they return through the same call. The
statistics of screening are its verdict. A compiled thesis's factor waits in the round
directory for the harvest and is not in `factors`; a harvested factor is not scored
by `score_on_holdout`. The rejection file, the feedback file and the rule proposals are best-effort
records no branch of the round reads. `LogResearchRound` of `Controller` is `LogRound`
and `LogAttempt` here; there the attempts table does not exist.


### Conductor

`Controller` and `ResearchRound` take the conductor's answer as one step. `Conductor`
opens it: a round is a sequence of attempts (`sessions`), an attempt is
`run_research_conductor` under `asyncio.timeout`, an analyst is a call of
`analyze_trades`, and its tools run in worker threads. What lies between two awaits is
one action. A timeout cancels coroutines and drops what no thread has taken up; a
program that runs goes on (`EndProgram` has no guard on `at`) and reports into the
trace and the budget of an analyst that is gone, and `asyncio.run` waits for it
(`Close`).

| actions | code |
|---|---|
| `BeginRound`, `StartAttempt`, `EndRound` | `run_research` and `_invoke_conductor_round`: usage, trace and refinement session of a round |
| `Connect`, `AskAnalysts`, `Answer`, `ConductorFails`, `Timeout`, `Close` | `run_research_conductor`, its outputs and its three exception handlers |
| `RefuseCall`, `RaiseInCall`, `BeginCall`, `AnalystEnds` | `analyze_trades` and `_call_analyst` |
| `AskTools`, `ReadArtifact`, `BeginProgram`, `RefuseProgram`, `EndProgram` | the analysts' tools, `before_call_message` and `record` of the failure budget |

`trace` is the runtime state of `trace_sdk`: the ids it has given out and the span each
stands for; `astray` remembers an event filed under another agent's prompt. Assumed of
the libraries: plain function tools run in worker threads, `asyncio.timeout` raises
`TimeoutError`, `asyncio.run` joins its executor.

### Features and Screening

`Features` lets bars form one by one: a trade is entered while its bar is open and keeps,
in `trades`, the row of what could be known at that moment; `BuildTable` computes the
rows afterwards from the whole period, as `build_feature_table` does, and the two must
agree (`NoLookAhead`). The bars are a set, each with its day and its place in it, instead
of the rows of a data frame: where the code takes a slice, the module takes those before.
Fractions stand for percentages, a NaN is a fraction over 0. The
columns of both families are there except stop distances and event columns; the EMA
has the least span and entry is at the forming bar's open.

`Screening` takes a finished table and screens rules on it (`screen_pair`: missing and
outcome columns, sample, lift, z-score, overlap, competitor), fits the model's factors to
the training rows, scores it on the held out ones and computes residuals. It runs two
worlds side by side that differ only in how held out trades ended, and compares what
the next session's corpus says in each. Each world has a record of its own (`world[w]`):
its losses, its model, the factor that waits for its harvest, its screenings. Thresholds
are the code's, scaled to samples of a few trades.

`Harvest` and `Walkforward` judge a factor on metrics of the whole period
(causal_harvest.py:118, walkforward.py), the held out part included, so each world comes
to a verdict and a lesson of its own; they change the factor's status (`Merged`, `Walked`),
hence the overlaps, the fit and the residuals after it, and reach the corpus. What the module
claims of the holdout is what is left: the verdicts are all that a session learns of it
(`HoldoutStaysUnseen`: equal verdicts give equal corpora, and equal active factors give equal
residuals). Once the verdicts differ, the two sessions propose different things, and the
comparison ends (`SettledAlike`). `"supported"`, a status the types describe, is set by no
code, and a harvested factor is not among the active ones that fit the model.

### CausalLedger

The life of a factor: `Note` (a mechanism that gives no config goes into the model at
once), `Propose` (an actionable one waits in the round's `pending_causal_model.json`),
`RunBacktest`, `RerunBaseline`, `JudgePredictions`, `Harvest`, `LogResult`, `Finalize` are
`run_experiment` in the order of its writes, with the one retest of an inconclusive
verdict; `StartWalkforward`, `JudgeCandidate`, `CandidateFails` are `run_walkforward_queue`
with `_demote_factor`; `Crash` and `CrashInWalkforward` are deaths between any two of these,
`EndJob` the next job on the same model. A retest survives its process: it is the next action
of the state on disk until it has been finalized, so a relaunch executes it again and promotes
the same artifact once more (`NextActionAgain`, autoresearch_orchestration.py:766), perhaps with
another verdict (`reversed`); a first test does not, and its config is lost. `outcomes` is what
the executions of one round's backtest came to. A deployment, which plans the baseline first and
forgets a retest, is `Controller`'s. `Evaluate` and `Survival` are
`evaluate_predictions` and `evaluate_walkforward` over what each prediction came to in
a window. A rule is a name, the identity of the trades it flags.

### RunRecords

What `Controller` has as one row is here the row with its result, the files in the
round's directory, both stores of checkpoints and the drift report. `BenchmarkRuns` writes
the files, `CommandFails`, `ResultUnreadable` and `MetricParseFails` block the round after
a part of them may have been written, `LogResult` decides and replaces the row of the
round, then come `RecordInDatabase`, `RecordInLedger`, `ReportDrift`, `ClearRerunRequest` and
`FinalizeRound`, one durable write each, with `Die` between any two. `Research`,
`RunBaseline`, `RunRetest`, `ForceBaselineRerun`, `RepeatRerun` and `FreshLaunch` keep of the
resolution what decides which round is executed next, or again. A setup (config,
period, commit) has one result, found when it is first run: executing it again gives the
same trades, which is what makes duplicates. Metrics are better when higher.

### Builder

Two trees, the source tree and the workspace, each with the round's config and an
implementation. An agent may write a config of any thesis and quality, code, both or
neither, in either tree, and time out or die having done so (`AgentWorks`, `Abort`). `Collect`
brings what changed in the source tree over and takes the verdict; `Publish` and
`RecordPromotion` are the two writes of a success. `Seeds` are approved promotions copied
over a fresh workspace. The layout is the one where the runtime directory lies inside
the source tree; with split roots, as on the VPS, `_copy_file_into_workspace` raises on
the round's config, so that a build ends as a failure.

### Trading

One action, `Bar`, is one bar of the frame of one symbol: the signal it arms, the entry it
brings, then the exit. The alert and carry of `ema`, the opening range and breakouts of
`orb`, stops, targets, trailing stops, the hold limit, the end of the session, the order
of stop and target within a bar (`StopFirst`) and the fills are translated; filters,
averages and cutoffs are inputs. Prices are ticks, in units of `Unit` of them; the ratio of
reward to risk is counted in `Unit`-ths, since `validate_orb_runtime_config` admits 0.5.

### VpsRunner

A session is one call of `main`; a remote command is a record of its own in `remote` and
outlives the session. The steps of `build_git_prepare_command` (fetch, extract beside the
release, move, link) and of the bootstrap that prepare and run share (source the
environment, link, fingerprint, virtual environment, pip, mark) are separate actions,
since another session's may come between. The shared
`.venv` is removed file by file (`RemovePart`, `RemovalEnds`), interpreter, packages and mark in any
order. `RemoteFails` ends a command at any step, and inside a removal leaves a torn `.venv`. `CheckFails`,
`UploadFails`, `PrepareRefused`, `PrepareTimesOut` and `RunStreamEnds` end the session. An
interrupt or a lost connection counts as the failure of the step it hits.
`Overlap` and `Forced` say what operators do: sessions side by side, and `--force`.

### Improvement

Two controllers of two families in one code root, with `eval_cli` and an operator beside
them. `at[f]` walks the hooks in the order of `_run_improvement_hooks`: `Acquire`, `WriteLock`,
`ReadBack`, `Edit`, `Evaluate`, `Decide`, `Compare` and `Unlink` are `apply_halo_report` under
`.apply.lock`, each a step that another controller's or an operator's may precede; `Ratchet` is
`record_round_decision`, `Report` the scheduled recursive-improve reports, `Advance` the
state write after them; `StartRound` reads the reflexion. `Die` and `Relaunch` execute the
round again, since the hooks come before the state advances. `evals` is the directory
of results in the order of their times; a result is its metric with sum and sum of
squares of the suites, from which `Classified` compares by one standard deviation. `lock` is the
file with its creator and its text, which is empty until the payload is written and closed; an
operator may remove it at any moment, and `robbed` remembers whose went in a gap.

## Runs

| run | instance | states | what it shows |
|---|---|---|---|
| `resume` | 1 commit, 2 rounds, 2 launches, 1 crash, with fairness | 216 527 | safety of the state file and the tables through every resume; a launch comes to a stop |
| `faults` | 2 commits, 1 round, 3 launches, 1 crash, 1 deploy, 1 loss | 1 291 458 | the inductive invariant with all faults combined; without a death, research runs on a commit whose baseline the job has; fresh job numbers stay fresh |
| `round` | 1 round, 1 relaunch, 1 crash, 1 rerun, with fairness | 437 505 | attempts and rows stay consistent, failures leave a trace, factor ids are fresh, the ledger is refined, the budgets end every round |
| `vps` | 3 sessions, 2 commits with different dependencies, with symmetry | 681 772 | never two controllers; releases are whole; a controller runs its own session's commit, state and, unless a removal of the environment was cut short, dependencies |
| `builder` | 3 builds of 2 theses, 1 retry, with fairness | 130 175 | a completed build is the one asked for and on record; an exact delivery completes; builds end |
| `causal_ledger` | 2 jobs of 2 rounds, 2 rules, 2 windows, 1 crash, with fairness | 899 022 | verdicts are credited once and have a row, an inconclusive prediction comes to a final verdict through deaths of its retest |
| `trading` | 4 prices, 5 configs, ratios ½, 1 and 3/2, hold of 2 bars | 31 100 | flat over night, bounded loss, no trade stays open beyond its stop, fills within the bar |
| `records` | 2 jobs, 2 rounds, 4 executions, 1 death, 1 deploy, 3 results | 2 050 000 | accepted runs improve; the ledger is never ahead of the database; only a repetition lowers the best run |
| `conductor` | 2 analysts, 4 calls each, 2 per turn, 2 attempts, with fairness | 760 834 | late events find their prompt, failures are bounded, attempts end |
| `improvement` | 2 controllers under 3 sets of flags, each with its own bounds (below), with fairness | 536 632 | a kept change was measured better, memories are of the right rounds, a lock of another one is removed only in a gap, hooks end |
| `screening` | 3 days of 2 bars, 3 trades, 3 rules, 2 screenings, 2 verdicts in each world | 372 346 | no column looks ahead; held out outcomes reach a session through verdicts only |
| `round_mechanism` | 2 rounds, no fault | a counterexample | a recorded mechanism without a config ends the job (below) |

Why the bounds are enough. Two rounds are the smallest number at which a retry can
rewind to a round that is not the first and a halted thesis can outlive its round; two
launches and one crash let any write be the last before any resume, and a third launch
lets a resumed job fail again. The run `round` uses the code's own budgets (3 attempts, 3
stage-1 failures, 1 compile failure); one round suffices where only repetitions of a
round interfere, and the faults allow it to be executed four times. `vps` needs a third
session for a commit to come back after another was deployed. `builder` needs two theses,
so that one's config or files can be in the way of the other, and a third build to meet
what the second left. `causal_ledger` needs two jobs, since rounds are counted per job and
the model is per family, and two rounds for a rule to be proposed again. `records` needs
two results of one count and one without trades, and four executions for a run, a
better one, its repetition and what follows. `conductor` runs a limit of 2 with turns of 2,
so that the limit can be passed by what runs in parallel, and a second attempt while
programs of the first end. In `improvement` one controller's round is the second of its job,
the other's the first. Each set of flags asks one question: with `halo`, `halo_apply` and
`ratchet` there are two evaluations and one of `eval_cli`, so that one result may be older and
one newer than the judged one, one removal of a lock and no death; with the first two alone
every evaluation raises, but either controller may die once and two locks are removed, so that
a controller can be robbed twice, or each once, and the other's lock be there at every step of
its release; with `reflexion`, `recursive_improve` and `ratchet` the second round is executed
twice. In `trading` 4 prices of two ticks leave room for an opening range, a stop, an entry and a target, also a target
at half the risk. In `screening` the third day is held out, and the second has a day before it; with
two screenings and two verdicts a refuted rule is proposed again and merged by rule, and a
harvested factor can be demoted. Lessons are one value there, since verdicts of different statuses
already tell the worlds apart; the proof has any. The limit
`MAX_RESEARCH_ROUNDS` is 100 in the code; it is `MaxRounds` here, and the proofs hold for
any. Deadlock is checked in `conductor`, which never rests; the others rightly stop when
launches, rounds, bars or builds are used up.

Fairness is assumed of the steps of a live process only. In `Controller` it is
`WF_vars(Process)` and in `ResearchRound` `WF_vars(Work)`: a live process takes its next
step, since the code bounds every call it waits for: the conductor by `asyncio.timeout`, the
SDK retry and the builder by `BUILDER_CLI_TIMEOUT_SECONDS`, the backtest by
`COMMAND_TIMEOUT_SECONDS`. In `Conductor` only the clocks are fair (the probe, the stream's
timeout, a program's 60 seconds) and the shutdown of the loop: no agent need ever answer. In
`Builder` and `CausalLedger` the steps of a build and of a backtest are fair, in
`Improvement` the hooks, whose subprocesses have timeouts. Nothing is assumed of operators,
deploys, deaths or relaunches.

### Where code and words disagree

* `round_mechanism` (`RecordedMechanismContinues`): `run_research` reports "Mechanism was
  recorded but not actionable; research will continue." (autoresearch_research.py:2112). The
  next round looks for the feature table in the directory of the round before it
  (autoresearch_research.py:784), where no backtest has put one, and every proposal after
  it raises, in every launch. A failed backtest that is resumed leaves no table either;
  `evidence_pack` tolerates that, the screening does not.

The following were met while modelling. The properties are stated with what they
leave possible; no run is spent on them.

* A success or a builder's retry leaves `halted_thesis_id` in the state; the halted thesis
  is later rebuilt under the current round's number and its row replaces that round's
  result. And a forced rerun after a deploy drops the halted thesis.
* A redundant baseline rerun is found to be a duplicate of itself and replaces the accepted
  row by a discarded one; a forced rerun with no better metric leaves a job without an
  accepted baseline. The comment at autoresearch_experiment.py:1079 calls it benign.
* A crash between the baseline's row and its checkpoint leaves no checkpoint, and a job
  without one is never rerun when the commit changes (`ResearchOnCurrentCommit` holds while
  no process died). A death between the checkpoint and the state write loses the report of
  drift.
* A round executed again overwrites the attempts of its first execution by their numbers,
  so that a compiled thesis can be forgotten by `load_prior_theses`; it issues the ids of
  factors it saved (`FactorIdsAreFresh` holds while no process died).
* `_factor_rule_for_round` takes the first factor with the round's number, but rounds are
  numbered per job and the model is shared: a thesis that fails in a later job can demote a
  factor of an earlier one. `FactorsAreDistinct` is stated for demotions that hit the right
  factor.
* `trades.csv` of an earlier execution stays in the round's directory and is given to the
  session although the round's last backtest made no trades.
* On a host with a checkout of the older layout the checkout is skipped, and prepare makes
  a release that holds shared links alone (`CheckedOutReleasesAreWhole` exempts it). The probe
  and the checkout are two remote commands: `vps` lets no two sessions overlap.
* A config of another thesis in the source tree's round directory replaces what the agent
  wrote (`OwnGoodWorkCompletes` exempts it).
* `rm -rf` of the shared environment (vps_runner.py:569) takes the mark inside it among the other
  files. A death midway can leave the old mark beside packages that are gone, and a later
  deployment of the old commit trusts it; pip may take metadata that was left for the packages
  (`ControllerRunsItsLaunch` exempts an environment whose removal was cut short).
* A retest is lost when its command fails, when the process dies before the request is written, or
  when a deployment has the baseline run first: the prediction then stays inconclusive
  (`ThesisIsSettled` allows for it). Executed again after a death it can come to another
  verdict, which replaces the promoted one.
* `ema_alert_carry` takes the last bar of the day before for an alert, where signals.py:6 says
  that nothing is carried over night; the policy `open_when_gapped` (strategies/contract.py:31) is
  not what the kernels fill at (`FillsAreInBar` is stated for bars without a gap).
* An entry of `orb` at an open beyond the far side of the range has its stop ahead of it and its
  target past that; with a ratio below 1 the target is the nearer, and the trade ends at a
  "target" that loses more than its risk. `LossIsBounded` is stated for trades whose last bar does
  not open beyond the stop, and `InvertedTradesEnd` says that such a trade does not stay open.
* The lock of the applies is compared and unlinked in two steps (improvement_halo_apply.py:110,
  115): one that is removed and taken by another in between is unlinked all the same
  (`ReleasesAreOwn` says when).
* The failure budget of an analyst is soft: calls of one turn pass it together
  (`FailedProgramsAreBounded` has the true bound), and a late success clears it.
* After edits were measured worse and reverting raised, the verdict is lost to the ratchet,
  which may then keep; the trial runs in the controller's own process, whose modules are
  those of its launch. On the VPS recursive-improve reads where no export is.
* `walkforward_status` survives a forced rerun and settles the next plateau; the plateau is
  judged by the highest round numbers, which after such a rerun are those of before it.
* The analysts' programs get a `trades.csv` with the held out trades, and harvest verdicts and
  walkforward reports use metrics of the whole period (causal_harvest.py:118): their statuses and
  lessons are in the corpus, and over many rounds the search learns from them about the trades its
  models are scored on. `HoldoutStaysUnseen` says that beside them nothing of the corpus does.

## Proofs

Eight modules hold proofs, `StrategyProofs` and `SessionProofs` of more than one component.
Each proves an inductive invariant of its component from the assumptions on the constants
that the component declares, and draws the properties from it. The assumptions say what the
constants are (limits are numbers, a missing value such as `None`, `NoCommit`, `NoRule` or
`Nothing` is none of the values it stands in for) and leave their sizes open: `NoneIsNoRow`
and `NoneIsNoBar` say it of rows and bars, which are defined after the constants.

**Controller.** `ControllerProofs` proves `Spec => []Consistent` and from it the type
invariant, the safety properties of the run `resume` and the action property
`FreshJobIsUnused`. The one assumption is `ConstantsAssumption`: there is a commit, `NoCommit`
is none, the limits are numbers and there is at least one round.

None of the properties is inductive alone. A resume takes its new round from the
old one, so that the validity of a backtest request needs to know which rounds can carry a
halted thesis (`HaltedHasRound`): one that waits in its own round has number 1 or
more, and one that outlived it has number 2 or more, which a rewind cannot bring
to 0. `RoundsAreOnRecord` needs that the round in the state is a logged one
(`StateMatchesTables`), also after the rewind, hence that logged rounds have no gap.
`BaselineFirst` needs that a round above 0 implies a baseline row, and that each
place of the process remembers what its caller checked (`PlaceMatchesState`).
`NoStrandedJob` holds at rest only because `Continues` holds in every state a crash
can expose. There is a lemma for each part of the process, one step for each
action, and under it one for each conjunct that the action disturbs.

`ResearchOnCurrentCommit` holds only while no process has died and no state file was lost, and
needs an invariant of those runs (`OnCommit`, whose premise is `Whole`). The commit of the
checkpoint is one the baseline ran on, and between the row and the checkpoint it is the one
checked out; a rerun that is asked for runs on the commit it was asked for; and a place that goes
on to the conductor without resolving again has a baseline of this commit. What a process has
found out about its commit stays true, since a commit is deployed only while none runs.

**ResearchRound.** `ResearchRoundProofs` proves that `ResearchRound` implements `RoundLedger`
under the mapping of `Ledger` (the initial state, and each step as a step or a stutter), and
`CompiledRoundHasSelectedAttempt`. Its `Inductive` adds what a torn log leaves open: the row
of the round in progress is the result in memory while that is logged (`LoggedIsHandled`),
and a round in progress has a row (`RoundInProgress`). Most actions write no table and go
through one lemma (`QuietStep`); the six others have one each.

`TypeCorrect` bounds the attempt numbers, so that the next one exists. For `FailuresLeaveTrace`,
the trace of a rejection has its proposal's number, and only the same proposal's rejection could
write there again (`ProposalsAreTraced`). `FactorIdsAreFresh` is stated of undisturbed runs: a
factor belongs to a round that has ended or whose answer is on the way, and a round that is
executed again after a rejection or a timeout has left none (`FactorsAreBehind`).

**VpsRunner.** Types and `CheckedOutReleasesAreWhole` hold whatever the operators do.
`OneController` and `ControllerRunsItsLaunch` are proved for `Overlap = FALSE` and
`Forced = FALSE`, as an assumption of their theorems. The invariants build on each other. `Whole`
says what each step of a checkout has laid out (`Checked`). `Single` says that one session is
under way at a time and that one beyond its probe knows of no running process but its own
(`Serial`), which is what the probe is for: a command that outlives its session stops the
next one before it changes anything; the probe finds it because it runs on a host with a
checkout (`ProcessIsSeen`). `Ready` says how far the bootstrap has come
with the environment of its commit (`Equipped`), that the mark of an environment is true
(`MarkIsTrue`) and that a run finds the state its own session prepared
(`RunFollowsPrepare`); the mark must be cleared before an install begins, or a failed
install would leave one that lies. What is installed is what the mark says or less, and less only
in a torn environment (`Installed`), which no step makes whole but the end of its removal.

**Conductor** (`SessionProofs`). `EventsFindTheirPrompt` follows from two facts. An id stands for one
agent (`IdsAreUnique`), since it counts up within a round and contexts go when the count starts
again. And whoever may still file an event has a prompt among the contexts (`Prompted`): a
program that runs keeps its analyst's prompt alive although the analyst is cancelled, because
the round can end only once `asyncio.run` has joined its threads.
`FailedProgramsAreBounded` needs `Budgeted`, a bound on failures and running programs
together: a program begins below the limit only, and at most `Width` of them run.

**Screening** (`SessionProofs`). `HoldoutStaysUnseen` compares two executions, and its invariant
(`Unseen`) runs along both: their losses differ in held out trades only (`OutcomesAgree`), and
as long as their verdicts are the same they hold the same models, pending factors and screenings
(`WorldsAgree`). The worlds' verdicts are chosen apart; the invariant survives because a
verdict is put on record by the step that acts on it (`LastOnRecord`), so that records that
agree have had the same effect (`SameHarvest`, `SameWalk`). The other lemmas say of each operator in
turn (`SameMeasure`, `SamePair`, `SamePrediction`, `SameResiduals`) that it depends on the losses
through the training rows alone; nothing is assumed of rules, thresholds, lessons or data.

**Features** (`SessionProofs`). `NoLookAhead` compares a table built at the end with rows made on
the way. The invariant (`TradesKnow`) is stronger: at every moment, the row that could be made
*now* of a trade entered before is the row it was entered with. `SameRow` says what a row depends
on (`SameKnowledge`: the bars before the entry, the open of its day, the labels of the days
before), column by column; `KnowledgeStays` that no step changes any of it, since the bar that
forms is before no entry, and a new label is read by the entries of later days only. The
average is the one column that is computed over the whole period and then looked up by a
position; `PriorBarsComeFirst` shows that the position is that of the last bar before the entry.
How an average adds its closes up does not matter.

**CausalLedger.** The invariant is `Typed /\ Past /\ Tested /\ Distinct` with the properties
themselves. Nothing is known of rounds to come. A rule under test is active nowhere and its
round has no factor; an accepted one is active until the walkforward of its job. The pending
artifact is the model with the candidate until it is promoted, and after that the
factor it holds is one of the model (`Waiting`), so that promoting it again changes no thesis and
adds none. Of two factors with one rule, one is a note that nobody has tested; this is where
`FactorsAreDistinct` needs its premises: that walkforwards demote the rules of their own theses,
and that no retest executed again was reversed (`~reversed`, on which `Credible` and `Distinct` depend).
`VerdictIsCredited` needs neither.

**RunRecords.** An execution has the next time, so rows are told apart by their times, and the best
run of a job is its latest accepted one (`LatestIsBest`): that is what lets a metric be compared
with one row instead of with all. `CheckpointsAreStored` follows the order of the two writes. The
action property `OnlyRerunsLowerTheBest` is drawn from the same invariant, step by step.

**Improvement.** Payloads tell controllers and launches apart (`PayloadsDiffer`), and a lock holds
its creator's or nothing. A controller that was not robbed in a gap has its own lock file in the
gaps, and in between what it read back is its own payload (`KnowsItsLock`, in `Locked`): so it
compares with its own, and unlinks what it created (`ReleasesAreOwn`). It
has a decision only between the end of its apply and its reports (`DecisionsAreOfTheRound`).
The trial that a decision refers to has its own result and the newest one before it among those
stored (`Measured`). The totals and spreads of the results are opaque to the proof.

**Trading** (`StrategyProofs`). The invariant says what waits for the next bar. An armed alert was not
broken by the last bar; a signal closed beyond a range that is complete; an open position was
last seen between stop and target, unless it waits for its fill or trails; and a stop is never
behind the one it was entered with. From it every exit is one of a few cases (`ExitCases`), and
each case is judged. The ratio is any positive one, so a target may lie behind its stop: a bar that
opens beyond a stop hits it (`OpenHitsStop`), which gives `InvertedTradesEnd` and leaves
`LossIsBounded` the bars that open on the good side. The type invariant needs that prices are
whole ticks, and that the initial stop of `orb` is the far side of the range (`AtFarSide`): a close beyond it is
a stop first, so that no trade ends as an `opposite_break`.

**Builder** (`StrategyProofs`). A verdict of the trees lasts until the answer (`Judged`): from the
checks on, every write of the call copies what was judged. What an agent wrote is where it
wrote it until it is collected (`WorkIsThere`), which gives `OwnGoodWorkCompletes`.

Not proved, and why. Liveness (`LaunchTerminates`, `RoundEnds`, `AttemptsEnd`, `BuildEnds`,
`HooksEnd`, `ThesisIsSettled`) is out of the prover's reach and stays with TLC, as does the
divergence that `round_mechanism` shows. Recursion over data is opaque in all proofs: a sum or
a fold of equal arguments is equal, and nothing else is known of it. The least and the greatest of some
numbers, which several invariants need, come from the well-foundedness of `<` on the naturals.

## Not modelled

* **Thesis validation and memory** (`thesis_validator.py`, `research_memory.py`) and the
  **compiler** of a thesis: pure functions over texts and configs. `ResearchRound` takes each
  of their outcomes as possible, which is more than they can do; that a rejection is
  deserved is not stated.
* **Command line and artifacts**: argument parsing, rendering, file helpers. Their atomic
  renames are the steps of the modules.
* **Floating-point statistics**: p-values, trade analyses, metrics of a run and the
  arithmetic of the engine's kernels. `Screening` has means, lifts and residuals as
  fractions; the others are inputs. Also inputs in `Trading`: filters, averages, regimes.
* In `Features`: stop distances and event columns, and the quarantine of a table with many
  bad rows. In `Screening`: factors of another family and the limit on a rendered corpus.
* In `RunRecords`: metrics that are better when lower, migrations of older database files, export
  and import of entries. In `CausalLedger`: the dates of walkforward windows and the cache of
  their baselines.
* In `VpsRunner`: uploading a config, fetching results and the one-command form of prepare and
  run, which nothing in the program calls.
* In `Conductor`: the tools the program defines but gives to no agent, such as `web_search`; the
  extraction of token counts. A death of the process is `ResearchRound`'s.
* **Tracing exports, reports and rules proposed from traces**, messages and the wording of
  everything: they decide nothing in the loop. `trace_rule_proposals.py` runs offline.
* What an agent answers is always a choice among all that its caller can receive.

## Plan

Each component that keeps state has its module, and each safety property a theorem; what is
left, in this order:

1. `JobLifecycle`: what a job promises (baseline, rounds, plateau, walkforward, end) as a
   small abstract specification that `Controller` implements, with a proof of the step
   simulation; and a mapping of the round in `Controller` onto `ResearchRound`.
2. Walkforward windows against a reference definition, with the cache of baseline windows.
3. The rules of validation and compilation as operators against reference definitions.
