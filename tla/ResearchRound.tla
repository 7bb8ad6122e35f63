--------------------------- MODULE ResearchRound ---------------------------
(***************************************************************************)
(* The research rounds of one job, one durable commit at a time:           *)
(* run_research around execute_research_sdk with its retry loop, and what  *)
(* they leave in research_rounds, research_thesis_attempts, screenings and *)
(* the family's causal model, and the feature tables that screening reads. *)
(* Controller takes a round as one answer of the conductor; this module    *)
(* opens that answer.                                                      *)
(*                                                                         *)
(* What the conductor proposes and what validation, screening and the      *)
(* compiler make of it is a choice.  The process may die between any two   *)
(* commits; a relaunch executes the round again, under the same round id   *)
(* and with its attempts counted from one.                                 *)
(***************************************************************************)
EXTENDS Integers, FiniteSets, FiniteSetsExt

CONSTANTS
    MaxRounds,      \* MAX_RESEARCH_ROUNDS
    MaxRetries,     \* research_engine_max_retries of the family's config
    MaxStage1,      \* MAX_VALIDATION_RETRIES_STAGE_1
    MaxCompile,     \* MAX_VALIDATION_RETRIES_COMPILE
    MaxLaunches,    \* bound: relaunches of the controller
    MaxCrashes,     \* bound: deaths of the process inside a round
    MaxReruns       \* bound: forced baseline reruns

ASSUME ConstantsAssumption ==
    /\ MaxRounds \in Nat \ {0}
    /\ MaxRetries \in Nat \ {0} /\ MaxStage1 \in Nat \ {0} /\ MaxCompile \in Nat \ {0}
    /\ MaxLaunches \in Nat /\ MaxCrashes \in Nat /\ MaxReruns \in Nat

VARIABLES
    done,           \* research_round of the state file
    interrupted,    \* the state file says interrupted, research_failed
    rows,           \* research_rounds: the row of each round
    tries,          \* research_thesis_attempts
    screened,       \* screenings whose verdict killed the proposal
    factors,        \* candidate factors of the family's causal model
    featured,       \* rounds whose directory holds a feature table
    pc,             \* where the process is
    exec,           \* executions of a round so far
    loop,           \* the retry loop's attempt, stage_1_failures, compile_failures
    result,         \* what execute_research_sdk returned
    faults          \* launches, crashes and reruns used up

vars == <<done, interrupted, rows, tries, screened, factors, featured,
          pc, exec, loop, result, faults>>
tables == <<rows, tries, screened, factors, featured>>
stateFile == <<done, interrupted>>

\* Some operators have a variant just above them, the definition with a slip a
\* change to the code could make.  No action uses a variant.

-----------------------------------------------------------------------------
Rounds == 1 .. MaxRounds
Round == done + 1               \* the round in progress

\* _classify_round_outcome, and log_research_round's outcomes that log no attempt.
Outcomes == {"compiled", "needs_code", "completed", "rejected"}
LogsAttempt(outcome) == outcome # "rejected"

\* A thesis id is the round id and the attempt that proposed it; 0 is "unknown".
NoRow == [outcome |-> "none", thesis |-> 0]
RoundRows == [outcome : {"none", "in_progress", "rejected_attempt"} \cup Outcomes,
              thesis : Nat]

\* A row also names the execution whose proposal it holds, which the code does
\* not store: two proposals with one thesis id stay apart.
Attempts == [round : Rounds, number : Nat, thesis : Nat, exec : Nat,
             status : {"rejected_attempt", "compiled", "needs_code", "completed"}]
Selected(t) == t.status = "compiled"        \* selected_for_execution
AttemptsOf(round) == {t \in tries : t.round = round}

\* INSERT OR REPLACE on thesis_attempt_id, made of the round id and the number.
AddAttempt(row) ==
    tries' = {t \in tries : ~(t.round = row.round /\ t.number = row.number)} \cup {row}

NextAttemptNumber == Max({t.number : t \in AttemptsOf(Round)} \cup {0}) + 1

Factors == [round : Rounds, attempt : Nat, exec : Nat]
Loops == [attempt : Nat, stage1 : Nat, compile : Nat]
FreshLoop == [attempt |-> 0, stage1 |-> 0, compile |-> 0]

Results == [outcome : Outcomes, thesis : Nat]
NoResult == [outcome |-> "rejected", thesis |-> 0]

Pcs == {"down", "over", "ask", "validate", "rejected_stage_1", "rejected_compile",
        "answered", "log_attempt", "handle", "backtest"}
InRound == pc \notin {"down", "over", "backtest"}

Init ==
    /\ done = 0 /\ interrupted = FALSE
    /\ rows = [r \in Rounds |-> NoRow]
    /\ tries = {} /\ screened = {} /\ factors = {}
    /\ featured = {0}           \* the baseline round has run
    /\ pc = "over"
    /\ exec = 0 /\ loop = FreshLoop /\ result = NoResult
    /\ faults = [launches |-> 0, crashes |-> 0, reruns |-> 0]

-----------------------------------------------------------------------------
(* Around the rounds.                                                      *)

Relaunch ==
    /\ pc = "down"
    /\ faults.launches < MaxLaunches
    /\ faults' = [faults EXCEPT !.launches = @ + 1]
    /\ done' = IF interrupted /\ done > 0 THEN done - 1 ELSE done
    /\ interrupted' = FALSE
    /\ pc' = "over"
    /\ UNCHANGED <<tables, exec, loop, result>>

\* The process dies, taking the retry loop's counters and its result along.
Crash ==
    /\ InRound
    /\ faults.crashes < MaxCrashes
    /\ faults' = [faults EXCEPT !.crashes = @ + 1]
    /\ pc' = "down"
    /\ loop' = FreshLoop /\ result' = NoResult
    /\ UNCHANGED <<stateFile, tables, exec>>

\* Another commit was deployed: the job starts again from its baseline.
ForcedBaselineRerun ==
    /\ pc = "over"
    /\ faults.reruns < MaxReruns
    /\ faults' = [faults EXCEPT !.reruns = @ + 1]
    /\ done' = 0
    /\ UNCHANGED <<interrupted, tables, pc, exec, loop, result>>

\* The round's config is built and run, its trades become the round's feature
\* table, and the metric is judged: the loop goes on, or the judgement times
\* out, which interrupts the job.
Featured == featured' = featured \cup {done}

BacktestEnds ==
    /\ pc = "backtest"
    /\ Featured
    /\ pc' = "over"
    /\ UNCHANGED <<stateFile, rows, tries, screened, factors, exec, loop, result, faults>>

EvaluateTimesOut ==
    /\ pc = "backtest"
    /\ Featured
    /\ interrupted' = TRUE
    /\ pc' = "down"
    /\ UNCHANGED <<done, rows, tries, screened, factors, exec, loop, result, faults>>

\* The build or the command fails and the process ends, blocked.
BacktestFails ==
    /\ pc = "backtest"
    /\ pc' = "down"
    /\ UNCHANGED <<stateFile, tables, exec, loop, result, faults>>

-----------------------------------------------------------------------------
(* execute_research_sdk: the retry loop.                                   *)

BeginRound ==
    /\ pc = "over"
    /\ Round <= MaxRounds
    /\ rows' = [rows EXCEPT ![Round] =
                  IF @ = NoRow THEN [outcome |-> "in_progress", thesis |-> 0] ELSE @]
    /\ exec' = exec + 1
    /\ loop' = FreshLoop /\ result' = NoResult
    /\ pc' = "ask"
    /\ UNCHANGED <<stateFile, tries, screened, factors, featured, faults>>

RetryBudgetExhausted == \/ loop.attempt >= MaxRetries
                        \/ loop.stage1 >= MaxStage1
                        \/ loop.compile >= MaxCompile

Return(outcome, thesis) ==
    /\ result' = [outcome |-> outcome, thesis |-> thesis]
    /\ pc' = "answered"
    /\ UNCHANGED <<stateFile, rows, tries, screened, featured, exec, loop, faults>>

GiveUp ==
    /\ pc = "ask" /\ RetryBudgetExhausted
    /\ Return("rejected", IF loop.attempt > 1 THEN loop.attempt ELSE 1)
    /\ UNCHANGED factors

\* No parseable thesis, or a conductor error: terminal, whatever the budget.
ConductorFails ==
    /\ pc = "ask" /\ ~RetryBudgetExhausted
    /\ Return("rejected", 0)
    /\ UNCHANGED factors

ConductorProposes ==
    /\ pc = "ask" /\ ~RetryBudgetExhausted
    /\ pc' = "validate"
    /\ UNCHANGED <<stateFile, tables, exec, loop, result, faults>>

\* Screening reads the feature table of the round before, as if every round but
\* the first one had been backtested.
HasFeatures == Round - 1 \in featured

\* A rule that passes is scored in a copy of the model with its factor added;
\* scoring raises on a factor id the model already has, and nothing catches it.
FactorIdTaken == \E f \in factors : f.round = Round /\ f.attempt = loop.attempt + 1

Passes == pc = "validate" /\ HasFeatures /\ ~FactorIdTaken

\* _log_validation_rejection is two commits: the round's row, then the attempt's.
LogRejectedRound(stage) ==
    /\ rows' = [rows EXCEPT ![Round] = [outcome |-> "rejected_attempt",
                                        thesis |-> loop.attempt + 1]]
    /\ pc' = stage
    /\ UNCHANGED <<stateFile, tries, screened, factors, featured, exec, loop, result, faults>>

RejectAtStage1 == pc = "validate" /\ LogRejectedRound("rejected_stage_1")
RejectAtCompile == Passes /\ LogRejectedRound("rejected_compile")

\* Variant: a rejected thesis is numbered by the failures of its stage.
StageOrdinal == IF pc = "rejected_stage_1" THEN loop.stage1 + 1 ELSE loop.compile + 1
RejectedNumber == loop.attempt + 1

\* Variant: a failure before the compiler is retried for free.
FailedAtNoCost(stage) ==
    loop' = IF stage = "compile"
            THEN [loop EXCEPT !.attempt = @ + 1, !.compile = @ + 1] ELSE loop
Failed(stage) ==
    loop' = IF stage = "compile"
            THEN [loop EXCEPT !.attempt = @ + 1, !.compile = @ + 1]
            ELSE [loop EXCEPT !.attempt = @ + 1, !.stage1 = @ + 1]

LogRejectedAttempt ==
    /\ pc \in {"rejected_stage_1", "rejected_compile"}
    /\ AddAttempt([round |-> Round, number |-> RejectedNumber,
                   thesis |-> loop.attempt + 1, exec |-> exec,
                   status |-> "rejected_attempt"])
    /\ Failed(IF pc = "rejected_compile" THEN "compile" ELSE "stage_1")
    /\ pc' = "ask"
    /\ UNCHANGED <<stateFile, rows, screened, factors, featured, exec, result, faults>>

\* A screening that kills the rule is retry feedback and a row of screenings.
ScreeningKills ==
    /\ pc = "validate" /\ HasFeatures
    /\ screened' = screened \cup {[round |-> Round, attempt |-> loop.attempt + 1,
                                   exec |-> exec]}
    /\ Failed("stage_1")
    /\ pc' = "ask"
    /\ UNCHANGED <<stateFile, rows, tries, factors, featured, exec, result, faults>>

\* Nothing catches a missing table or a factor id that is taken.
ScreeningRaises ==
    /\ pc = "validate" /\ (~HasFeatures \/ FactorIdTaken)
    /\ pc' = "down"
    /\ loop' = FreshLoop /\ result' = NoResult
    /\ UNCHANGED <<stateFile, tables, exec, faults>>

\* Variant: a round without a config counts as rejected.
SaveModelOfRejected ==
    /\ Passes
    /\ factors' = factors \cup {[round |-> Round, attempt |-> loop.attempt + 1,
                                 exec |-> exec]}
    /\ Return("rejected", loop.attempt + 1)

\* Not actionable: the model is saved with the factor, there is no config.
SaveModel ==
    /\ Passes
    /\ factors' = factors \cup {[round |-> Round, attempt |-> loop.attempt + 1,
                                 exec |-> exec]}
    /\ Return("completed", loop.attempt + 1)

\* Actionable: the compiler's contract is ready to run, or needs code.  The
\* factor waits in the round's directory for the verdict on its predictions.
Compiles ==
    /\ Passes
    /\ \E outcome \in {"compiled", "needs_code"} : Return(outcome, loop.attempt + 1)
    /\ UNCHANGED factors

-----------------------------------------------------------------------------
(* run_research: the outcome is logged, then handled.                      *)

LogRound ==
    /\ pc = "answered"
    /\ rows' = [rows EXCEPT ![Round] = result]
    /\ pc' = IF LogsAttempt(result.outcome) THEN "log_attempt" ELSE "handle"
    /\ UNCHANGED <<stateFile, tries, screened, factors, featured, exec, loop, result, faults>>

LogAttempt ==
    /\ pc = "log_attempt"
    /\ AddAttempt([round |-> Round, number |-> NextAttemptNumber,
                   thesis |-> result.thesis, exec |-> exec, status |-> result.outcome])
    /\ pc' = "handle"
    /\ UNCHANGED <<stateFile, rows, screened, factors, featured, exec, loop, result, faults>>

\* Variants: the handler writes the state file before the outcome is logged, or
\* between the two commits that log it.
HandledFirst == pc = "answered"
HandledBetween == pc \in {"log_attempt", "handle"}
ReadyToHandle == pc = "handle"

\* A rejected round interrupts the job and ends the process.
AfterHandler(outcome) == CASE outcome = "rejected" -> "down"
                           [] outcome = "completed" -> "over"
                           [] OTHER -> "backtest"

Handle ==
    /\ ReadyToHandle
    /\ done' = Round
    /\ interrupted' = (result.outcome = "rejected")
    /\ pc' = AfterHandler(result.outcome)
    /\ loop' = FreshLoop /\ result' = NoResult
    /\ UNCHANGED <<tables, exec, faults>>

-----------------------------------------------------------------------------
Validate == RejectAtStage1 \/ RejectAtCompile \/ ScreeningKills \/ ScreeningRaises
            \/ SaveModel \/ Compiles
Work == \/ GiveUp \/ ConductorFails \/ ConductorProposes \/ Validate
        \/ LogRejectedAttempt \/ LogRound \/ LogAttempt \/ Handle

Next == \/ Relaunch \/ Crash \/ ForcedBaselineRerun
        \/ BeginRound \/ Work \/ BacktestEnds \/ EvaluateTimesOut \/ BacktestFails

Spec == Init /\ [][Next]_vars

\* A live process works on: the conductor, the compiler's operationalizer and
\* every statement of SQLite answer or raise within their timeouts.
FairSpec == Spec /\ WF_vars(Work)
-----------------------------------------------------------------------------
(* Properties.                                                             *)

\* Every variable has its type, and the loop's counters add up to its attempts.
TypeOK ==
    /\ done \in 0 .. MaxRounds /\ interrupted \in BOOLEAN
    /\ rows \in [Rounds -> RoundRows]
    /\ tries \subseteq Attempts
    /\ screened \subseteq Factors /\ factors \subseteq Factors
    /\ featured \subseteq 0 .. MaxRounds
    /\ pc \in Pcs /\ exec \in Nat
    /\ loop \in Loops /\ loop.attempt = loop.stage1 + loop.compile
    /\ result \in Results
    /\ faults \in [launches : 0 .. MaxLaunches, crashes : 0 .. MaxCrashes,
                   reruns : 0 .. MaxReruns]

\* The rounds keep the ledger's promise: the state file leaves a round only
\* behind a final outcome (log_research_round before the handlers), whatever
\* dies in between and however often a round is executed again.
Ledger == INSTANCE RoundLedger WITH
              finished <- done,
              opened <- {r \in Rounds : rows[r] # NoRow},
              closed <- {r \in Rounds : rows[r].outcome \in Outcomes}
KeepsLedger == Ledger!Spec

\* A round that the state file has left as compiled has, for the thesis its row
\* names, an attempt selected for execution: the two commits of
\* log_research_round may be torn, but never behind the state file.
CompiledRoundHasSelectedAttempt ==
    \A r \in 1 .. done :
        rows[r].outcome = "compiled" =>
            \E t \in AttemptsOf(r) : Selected(t) /\ t.thesis = rows[r].thesis

\* When the conductor is asked again, each proposal this execution has rejected
\* is in the database, as an attempt or as a screening; the numbers that
\* rejections and retries are given keep them apart.
FailuresLeaveTrace ==
    pc = "ask" =>
        \A a \in 1 .. loop.attempt :
            \/ \E t \in AttemptsOf(Round) : t.exec = exec /\ t.thesis = a
            \/ [round |-> Round, attempt |-> a, exec |-> exec] \in screened

\* Scoring never meets a factor id the causal model has: rounds interrupted by
\* rejection or by an evaluation are executed again without reissuing the id
\* of a saved factor, unless the process has died or the job was rerun.
FactorIdsAreFresh ==
    pc = "validate" /\ faults.crashes = 0 /\ faults.reruns = 0 => ~FactorIdTaken

\* A mechanism that is recorded but not actionable ends its round without a
\* backtest, and "research will continue": the next round's proposals can be
\* screened.
RecordedMechanismContinues ==
    pc = "validate" /\ done > 0 => (rows[done].outcome = "completed" => HasFeatures)

\* A round comes to its end: the budgets of the retry loop are spent whatever
\* the conductor proposes (_retry_budget_exhausted).
RoundEnds == InRound ~> ~InRound
=============================================================================
