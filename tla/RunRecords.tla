----------------------------- MODULE RunRecords -----------------------------
(***************************************************************************)
(* What a backtest round leaves behind: the files in its directory, its    *)
(* row of backtest_runs, the checkpoint of a baseline in SQLite and in the *)
(* JSON ledger, the drift reported in the state; and what the next round   *)
(* takes from them: the bar the next metric has to beat, the earlier run   *)
(* that a result may duplicate, and the run the analyst is shown.          *)
(*                                                                         *)
(* Controller has the rounds with their launches; this module keeps of the *)
(* resolution only what decides which round is executed, and when again.   *)
(***************************************************************************)
EXTENDS Integers

CONSTANTS
    Base, Changed,      \* the base config, and the configs that theses ask for
    Commits,            \* commits the runner may check out
    Outcomes,           \* results of a backtest: [trades, shape, metric]; the shape is
                        \* the trade count with the diagnostics
    None,               \* no result, no commit, no run, no trades, no file
    MaxJobs, MaxRounds, \* bounds: jobs, and research rounds of a job
    MaxRuns,            \* bound: executions of a backtest
    MaxDeaths, MaxDeploys

VARIABLES
    head,       \* the commit checked out
    known,      \* the result of a setup; None until it is run
    job, round, \* the state file: job, research_round
    action,     \* next_action: its source, config and baseline_rerun_for_commit
    drift,      \* the state file: a baseline_drift was reported
    files,      \* what trades.csv and diagnostics.json of a round's directory hold
    rows,       \* backtest_runs
    stored,     \* baseline_checkpoints in SQLite
    ledger,     \* the JSON file of checkpoints, which latest() reads
    proc,       \* the process: where it is, and what run_experiment computed
    clock,      \* executions so far; the timestamps
    faults

vars == <<head, known, job, round, action, drift, files, rows, stored, ledger, proc,
          clock, faults>>

Jobs == 1 .. MaxJobs
Rounds == 0 .. MaxRounds
RunIds == Jobs \X Rounds
Configs == {Base} \cup Changed

ASSUME ConstantsAssumption ==
    /\ MaxJobs \in Nat \ {0} /\ MaxRounds \in Nat /\ MaxRuns \in Nat
    /\ MaxDeaths \in Nat /\ MaxDeploys \in Nat
    /\ Base \notin Changed
    /\ Commits # {} /\ None \notin Commits /\ None \notin Outcomes /\ None \notin RunIds
    /\ \A o \in Outcomes : o.metric \in Int

-----------------------------------------------------------------------------
Sources == {"none", "baseline", "thesis", "retest"}
Actions == [source : Sources, config : Configs, rerun : Commits \cup {None}]
Action(source, config, rerun) == [source |-> source, config |-> config, rerun |-> rerun]
NoAction == Action("none", Base, None)

\* A retest runs the config over a longer period.
Setups == [config : Configs, extended : BOOLEAN, commit : Commits]
Setup == [config |-> action.config, extended |-> action.source = "retest", commit |-> head]

TradesFiles == {o.trades : o \in Outcomes} \cup {None}
DiagnosticsFiles == {o.shape : o \in Outcomes} \cup {None}
NoFiles == [trades |-> None, diagnostics |-> None]

Pcs == {"idle", "backtest", "ran", "logged", "stored", "recorded", "reported", "finalize"}
Processes == [pc : Pcs, result : Outcomes \cup {None}, retest : BOOLEAN, drifted : BOOLEAN]
At(pc) == [pc |-> pc, result |-> None, retest |-> FALSE, drifted |-> FALSE]

\* BacktestRunRecord.  Its place in the list is its timestamp: add() puts a replaced
\* row at the end.  "of" is the run an invalid result was found to repeat.
Rows == [job : Jobs, round : Rounds, config : Configs, commit : Commits, outcome : Outcomes,
         accepted : BOOLEAN, of : RunIds \cup {None}, rerun : Commits \cup {None}, time : Nat]
ASSUME NoneIsNoRow == None \notin Rows
RunId(r) == <<r.job, r.round>>
RowsOf(j) == {r \in rows : r.job = j}
Accepted(j) == {r \in RowsOf(j) : r.accepted}
Latest(S) == CHOOSE r \in S : \A other \in S : other.time <= r.time
First(S) == CHOOSE r \in S : \A other \in S : r.time <= other.time

Checkpoints == [commit : Commits, metric : {o.metric : o \in Outcomes}, time : Nat]

Init ==
    /\ head \in Commits
    /\ known = [x \in Setups |-> None]
    /\ job = 1 /\ round = 0 /\ action = NoAction /\ drift = FALSE
    /\ files = [id \in RunIds |-> NoFiles]
    /\ rows = {} /\ stored = {} /\ ledger = {}
    /\ proc = At("idle") /\ clock = 0
    /\ faults = [deaths |-> 0, deploys |-> 0]

-----------------------------------------------------------------------------
(* resolve_next_action, as far as it decides what is executed: a forced    *)
(* baseline rerun, a pending retest, a rerun that was asked for and is     *)
(* still in the state, the baseline of an empty job, or research.          *)

Idle == proc.pc = "idle" /\ clock < MaxRuns

\* check_baseline_rerun
BaselineRerunDue ==
    /\ ledger # {}
    /\ Latest(ledger).commit # head
    /\ ~ \E r \in rows : r.rerun = head /\ r.time > Latest(ledger).time

Start(newRound, newAction) ==
    /\ round' = newRound /\ action' = newAction
    /\ proc' = At("backtest")
    /\ UNCHANGED <<head, known, job, drift, files, rows, stored, ledger, clock, faults>>

ForceBaselineRerun ==
    /\ Idle
    /\ BaselineRerunDue
    /\ Start(0, Action("baseline", Base, head))

RunRetest ==
    /\ Idle
    /\ ~BaselineRerunDue
    /\ action.source = "retest"
    /\ Start(round, action)

\* A rerun whose request survived a death.
RepeatRerun ==
    /\ Idle
    /\ ~BaselineRerunDue
    /\ action.rerun # None
    /\ Start(round, action)

ToPlan == Idle /\ ~BaselineRerunDue /\ action.source # "retest" /\ action.rerun = None

RunBaseline ==
    /\ ToPlan
    /\ RowsOf(job) = {}
    /\ Start(0, Action("baseline", Base, None))

\* A research round whose thesis was compiled to a config, the base config at worst.
Research ==
    /\ ToPlan
    /\ RowsOf(job) # {}
    /\ round < MaxRounds
    /\ \E c \in Configs : Start(round + 1, Action("thesis", c, None))

FreshLaunch ==
    /\ Idle
    /\ job < MaxJobs
    /\ job' = job + 1 /\ round' = 0 /\ action' = NoAction /\ drift' = FALSE
    /\ UNCHANGED <<head, known, files, rows, stored, ledger, proc, clock, faults>>

Deploy ==
    /\ Idle
    /\ faults.deploys < MaxDeploys
    /\ head' \in Commits \ {head}
    /\ faults' = [faults EXCEPT !.deploys = @ + 1]
    /\ UNCHANGED <<known, job, round, action, drift, files, rows, stored, ledger, proc,
                   clock>>

\* The process dies, or a write raises: nothing after it is done.
Die ==
    /\ proc.pc # "idle"
    /\ faults.deaths < MaxDeaths
    /\ faults' = [faults EXCEPT !.deaths = @ + 1]
    /\ proc' = At("idle")
    /\ UNCHANGED <<head, known, job, round, action, drift, files, rows, stored, ledger,
                   clock>>

-----------------------------------------------------------------------------
(* run_experiment.                                                         *)

Current == <<job, round>>
\* _compute_run_output_dir
OutputDirectory(r) == <<job, r>>

\* A backtest gives the same result for the same setup.
Results == IF known[Setup] = None THEN Outcomes ELSE {known[Setup]}

\* write_all: trades.csv, unless there are no trades, and then the diagnostics.
Written(old, o) == [trades |-> IF o.trades = None THEN old.trades ELSE o.trades,
                    diagnostics |-> o.shape]
\* Killed between two of the files, or in one of them.
PartlyWritten(old, o) == {old, [old EXCEPT !.trades = None], Written(old, o),
                          [Written(old, o) EXCEPT !.diagnostics = old.diagnostics]}

BenchmarkRuns ==
    /\ proc.pc = "backtest"
    /\ \E o \in Results :
        /\ known' = [known EXCEPT ![Setup] = o]
        /\ files' = [files EXCEPT ![OutputDirectory(round)] = Written(@, o)]
        /\ proc' = [At("ran") EXCEPT !.result = o]
    /\ clock' = clock + 1
    /\ UNCHANGED <<head, job, round, action, drift, rows, stored, ledger, faults>>

\* The job is blocked, and a resume keeps only the job and its round.
Block ==
    /\ proc' = At("idle")
    /\ action' = NoAction
    /\ UNCHANGED <<head, job, round, drift, rows, stored, ledger, faults>>

\* The command exits with an error, cannot start or is killed at its timeout.
CommandFails ==
    /\ proc.pc = "backtest"
    /\ \E o \in Results :
        /\ known' = [known EXCEPT ![Setup] = o]
        /\ \E left \in PartlyWritten(files[OutputDirectory(round)], o) :
              files' = [files EXCEPT ![OutputDirectory(round)] = left]
    /\ clock' = clock + 1
    /\ Block

\* The RESULT_JSON marker names a file that is not there or is no JSON.
ResultUnreadable ==
    /\ proc.pc = "ran"
    /\ Block
    /\ UNCHANGED <<known, files, clock>>

\* No marker, no metric in the result, or files named that are not there.
MetricParseFails ==
    /\ proc.pc = "ran"
    /\ Block
    /\ UNCHANGED <<known, files, clock>>

\* BacktestRunDB.evaluate_metric, direction "higher".
\* Variant: the first accepted run is the one to beat.
FirstKept(j) == First(Accepted(j)).outcome.metric
BestKept(j) == LET best == CHOOSE r \in Accepted(j) :
                              \A other \in Accepted(j) :
                                  other.outcome.metric <= r.outcome.metric
               IN  best.outcome.metric
Improves(metric) ==
    \/ RowsOf(job) = {}
    \/ metric > IF Accepted(job) # {} THEN BestKept(job)
                ELSE First(RowsOf(job)).outcome.metric

\* _find_duplicate_artifact_output: the latest run of the job with the same count and
\* diagnostics, whose files are what this run has just written.
Repeats(o) == {r \in RowsOf(job) : /\ r.outcome.shape = o.shape
                                   /\ r.outcome.trades # None
                                   /\ files[RunId(r)] = [trades |-> o.trades,
                                                         diagnostics |-> o.shape]}
DuplicateOf(o) == IF o.trades = None \/ Repeats(o) = {} THEN None
                  ELSE RunId(Latest(Repeats(o)))

\* The registered predictions, where there are any.
Verdicts == IF action.source = "baseline" THEN {"none"}
            ELSE {"none", "passed", "refuted", "inconclusive"}
GoesToRetest(verdict) == verdict = "inconclusive" /\ action.source # "retest"

\* The contract of a thesis is in memory or in the sidecar next to its config.
HasContract == action.source # "baseline"
\* missing_required_diagnostics: only a contract declares some.
DiagnosticGaps == IF HasContract THEN BOOLEAN ELSE {FALSE}

\* The run's metric, the diagnostics the thesis requires, and its predictions.
Keeps(o, gap, verdict) ==
    /\ Improves(o.metric)
    /\ ~gap
    /\ verdict \notin {"refuted", "inconclusive"}

\* BacktestRunDB.add: INSERT OR REPLACE by run_id.
\* Variant: by the config.
AddByConfig(row) == {r \in rows : r.job # row.job \/ r.config # row.config} \cup {row}
Add(row) == {r \in rows : RunId(r) # RunId(row)} \cup {row}

\* _build_db_record
Record(o, keeps) ==
    [job |-> job, round |-> round, config |-> action.config, commit |-> head, outcome |-> o,
     accepted |-> keeps /\ DuplicateOf(o) = None, of |-> DuplicateOf(o),
     rerun |-> action.rerun, time |-> clock]

\* From the evaluation of the metric to log_experiment_result.
LogResult ==
    /\ proc.pc = "ran"
    /\ \E gap \in DiagnosticGaps, verdict \in Verdicts :
        /\ rows' = Add(Record(proc.result, Keeps(proc.result, gap, verdict)))
        /\ proc' = [proc EXCEPT !.pc = IF action.source = "baseline" THEN "logged"
                                       ELSE "finalize",
                                !.retest = GoesToRetest(verdict)]
    /\ UNCHANGED <<head, known, job, round, action, drift, files, stored, ledger, clock,
                   faults>>

-----------------------------------------------------------------------------
(* _record_baseline_checkpoint: SQLite, then the JSON ledger, then the     *)
(* state file, twice.                                                      *)

CheckpointMetric == proc.result.metric
Checkpoint == [commit |-> head, metric |-> CheckpointMetric, time |-> clock]

Magnitude(n) == IF n < 0 THEN -n ELSE n
\* check_drift with a tolerance of 5 percent
Drifts(previous, current) ==
    IF previous = 0 THEN current # 0
    ELSE Magnitude(current - previous) * 100 > 5 * Magnitude(previous)
DriftsNow == ledger # {} /\ Drifts(Latest(ledger).metric, Checkpoint.metric)

\* Variant: the ledger is written first.
LedgerFirst == /\ ledger' = ledger \cup {Checkpoint}
               /\ UNCHANGED stored
WriteFirst == /\ stored' = stored \cup {Checkpoint}
              /\ UNCHANGED ledger

RecordInDatabase ==
    /\ proc.pc = "logged"
    /\ WriteFirst
    /\ proc' = [proc EXCEPT !.pc = "stored", !.drifted = DriftsNow]
    /\ UNCHANGED <<head, known, job, round, action, drift, files, rows, clock, faults>>

RecordInLedger ==
    /\ proc.pc = "stored"
    /\ ledger' = ledger \cup {Checkpoint} /\ stored' = stored \cup {Checkpoint}
    /\ proc' = [proc EXCEPT !.pc = "recorded"]
    /\ UNCHANGED <<head, known, job, round, action, drift, files, rows, clock, faults>>

ReportDrift ==
    /\ proc.pc = "recorded"
    /\ drift' = (drift \/ proc.drifted)
    /\ proc' = At("reported")
    /\ UNCHANGED <<head, known, job, round, action, files, rows, stored, ledger, clock,
                   faults>>

ClearRerunRequest ==
    /\ proc.pc = "reported"
    /\ action' = [action EXCEPT !.rerun = None]
    /\ proc' = At("finalize")
    /\ UNCHANGED <<head, known, job, round, drift, files, rows, stored, ledger, clock,
                   faults>>

\* _finalize_round: ask for the retest, or let the planner decide.
FinalizeRound ==
    /\ proc.pc = "finalize"
    /\ action' = IF proc.retest THEN [action EXCEPT !.source = "retest"] ELSE NoAction
    /\ proc' = At("idle")
    /\ UNCHANGED <<head, known, job, round, drift, files, rows, stored, ledger, clock,
                   faults>>

Next == \/ ForceBaselineRerun \/ RunRetest \/ RepeatRerun \/ RunBaseline \/ Research
        \/ FreshLaunch \/ Deploy \/ Die
        \/ BenchmarkRuns \/ CommandFails \/ ResultUnreadable \/ MetricParseFails
        \/ LogResult
        \/ RecordInDatabase \/ RecordInLedger \/ ReportDrift \/ ClearRerunRequest
        \/ FinalizeRound

Spec == Init /\ [][Next]_vars

-----------------------------------------------------------------------------
(* The runs an analyst sees.                                               *)

\* _build_round_index: the runs that the analyst can ask for by name.
BestOf(S) == CHOOSE r \in S : \A other \in S :
                 \/ other.outcome.metric < r.outcome.metric
                 \/ other.outcome.metric = r.outcome.metric /\ r.time <= other.time
Baselines(j) == {r \in RowsOf(j) : r.round = 0}
RoundIndex(j) ==
    [current  |-> Latest(RowsOf(j)),
     best     |-> IF Accepted(j) = {} THEN None ELSE BestOf(Accepted(j)),
     baseline |-> IF Baselines(j) = {} THEN None ELSE Latest(Baselines(j))]

-----------------------------------------------------------------------------
TypeOK ==
    /\ head \in Commits /\ known \in [Setups -> Outcomes \cup {None}]
    /\ job \in Jobs /\ round \in Rounds /\ action \in Actions /\ drift \in BOOLEAN
    /\ files \in [RunIds -> [trades : TradesFiles, diagnostics : DiagnosticsFiles]]
    /\ rows \subseteq Rows
    /\ stored \subseteq Checkpoints /\ ledger \subseteq Checkpoints
    /\ proc \in Processes /\ clock \in 0 .. MaxRuns
    /\ faults \in [deaths : 0 .. MaxDeaths, deploys : 0 .. MaxDeploys]

\* Of the runs of a job that are accepted, each was better than all accepted before
\* it: whatever was executed again, repeated, retested or cut short by a death,
\* evaluate_metric never lets two runs stand that are equally good or in the wrong
\* order.
AcceptedRunsImprove ==
    \A a, b \in rows :
        a.job = b.job /\ a.accepted /\ b.accepted /\ a.time < b.time
            => a.outcome.metric < b.outcome.metric

\* Every checkpoint that the planner may act on is in the database: a death between
\* the two writes of BaselineTracker.record leaves the JSON file behind, never ahead.
CheckpointsAreStored == ledger \subseteq stored

\* The best run of a job, as the analyst is shown it, gets worse only when the round
\* it belongs to is executed again and its row replaced.
OnlyRerunsLowerTheBest ==
    [][\A j \in Jobs :
          LET best == RoundIndex(j).best IN
          Accepted(j) # {} =>
              \/ RoundIndex(j)'.best # None
                 /\ RoundIndex(j)'.best.outcome.metric >= best.outcome.metric
              \/ RunId(best) = Current /\ best \notin rows']_vars
=============================================================================
