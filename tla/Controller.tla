----------------------------- MODULE Controller -----------------------------
(***************************************************************************)
(* The control loop of one strategy family: autoresearch_controller.main,  *)
(* execute_once, the resolution of the next action, the research round,    *)
(* the builder and the backtest round, over the durable state they share:  *)
(* the JSON state file, the backtest_runs and research_rounds tables and   *)
(* the newest baseline checkpoint.                                         *)
(*                                                                         *)
(* One controller process runs at a time; it may die between any two of    *)
(* its durable writes and be launched again in any of the ways the command *)
(* line offers.  What an agent, the builder CLI or a backtest answers is a *)
(* choice; every write the controller makes in reply is an action.         *)
(***************************************************************************)
EXTENDS Integers, FiniteSets

CONSTANTS
    Commits,         \* git commits the checkout can be at
    NoCommit,        \* no commit: no checkpoint yet, no rerun requested
    MaxRounds,       \* MAX_RESEARCH_ROUNDS
    PlateauRounds,   \* research rounds a plateau verdict needs
    MaxLaunches,     \* bound: launches of the controller
    MaxCrashes,      \* bound: deaths of the process
    MaxDeploys,      \* bound: changes of the checked-out commit
    MaxLosses        \* bound: losses of the state file

ASSUME ConstantsAssumption ==
    /\ NoCommit \notin Commits
    /\ Commits # {}
    /\ MaxRounds \in Nat \ {0}
    /\ PlateauRounds \in Nat \ {0}
    /\ MaxLaunches \in Nat /\ MaxCrashes \in Nat
    /\ MaxDeploys \in Nat /\ MaxLosses \in Nat

VARIABLES
    st,         \* the JSON state file
    runs,       \* table backtest_runs: one row per (job, round)
    rounds,     \* table research_rounds: one row per (job, round)
    ckpt,       \* code_commit of the newest baseline checkpoint
    newer,      \* jobs whose baseline row is younger than that checkpoint
    dirs,       \* jobs that have a job-N directory
    commit,     \* HEAD of the checkout
    proc,       \* the controller process and the round it holds in memory
    theses,     \* number of theses the conductor has proposed so far
    faults      \* launches, crashes, deploys and losses used up

vars == <<st, runs, rounds, ckpt, newer, dirs, commit, proc, theses, faults>>
durable == <<st, runs, rounds, ckpt, newer, dirs, commit>>

\* Some operators have a variant just above them, the definition with a slip a
\* change to the code could make.  No action uses a variant; it shows which
\* property stands between that slip and the program.

-----------------------------------------------------------------------------
(* The state file.  A thesis is the ordinal of its proposal; 0 is none.    *)

NoThesis == 0
Thesis == Nat

ResearchKinds == {"research_required", "research_retry_required"}
FailedRoundKinds == {"builder_failed", "command_failed", "metric_parse_failed"}
BlockerKinds == ResearchKinds \cup FailedRoundKinds
    \cup {"research_failed", "walkforward_failed", "builder_running", "manual_review"}

ActionTypes == {"none", "run_round", "walkforward", "research", "terminated",
                "builder_running", "builder_failed", "manual_review", "blocked"}
Sources == {"none", "baseline", "research_conductor", "builder",
            "resumed_halted_thesis", "registered_prediction_retest"}

Action(type, source, thesis, rerun) ==
    [type |-> type, source |-> source, thesis |-> thesis, rerun |-> rerun]
Plain(type) == Action(type, "none", NoThesis, NoCommit)
BaselineAction(rerun) == Action("run_round", "baseline", NoThesis, rerun)

NextActions == [type : ActionTypes, source : Sources, thesis : Thesis,
                rerun : Commits \cup {NoCommit}]

StateFile ==
    [state : {"running", "blocked", "building", "halted", "interrupted", "finished"},
     job : Nat, round : Nat,
     inProgress : Nat,              \* research_round_in_progress; 0 is absent
     action : NextActions,          \* next_action
     blockers : SUBSET BlockerKinds,
     halted : Thesis,               \* halted_thesis_id, requires_code_change
     finished : {"none", "pending_walkforward", "model_plateau", "max_rounds"},
     wfDone : BOOLEAN]              \* walkforward_status is a terminal one

FreshLaunchState(job) ==
    [state |-> "running", job |-> job, round |-> 0, inProgress |-> 0,
     action |-> Plain("none"), blockers |-> {}, halted |-> NoThesis,
     finished |-> "none", wfDone |-> FALSE]

MissingState == FreshLaunchState(0)     \* read_state without a file

-----------------------------------------------------------------------------
(* The tables.  A write is INSERT OR REPLACE on the primary key, the round *)
(* id job-J-round-R.                                                       *)

RunRows == [job : Nat, round : Nat, thesis : Thesis, accepted : BOOLEAN,
            commit : Commits, rerun : Commits \cup {NoCommit}]
RoundRows == [job : Nat, round : Nat, thesis : Thesis,
              outcome : {"in_progress", "compiled", "needs_code", "completed", "rejected"}]

SameKey(a, b) == a.job = b.job /\ a.round = b.round
Upsert(table, row) == {r \in table : ~SameKey(r, row)} \cup {row}

\* Variant: read_results without its filter on the job.
ResultsOfAllJobs(job) == runs
Results(job) == {r \in runs : r.job = job}
RoundsOf(job) == {r \in rounds : r.job = job}

\* Variant: the commit is compared only for a running state.
RerunDueWhenRunning ==
    /\ st.state = "running"
    /\ ckpt # NoCommit /\ ckpt # commit
    /\ ~ \E r \in Results(st.job) : r.rerun = commit /\ r.job \in newer

BaselineRerunDue ==
    /\ ckpt # NoCommit /\ ckpt # commit
    /\ ~ \E r \in Results(st.job) : r.rerun = commit /\ r.job \in newer

-----------------------------------------------------------------------------
(* The process: where it is, what the conductor answered, who called the   *)
(* builder, and whether this backtest ends in a retest.                    *)

Pcs == {"idle", "resolve", "dispatch", "research", "conductor", "answered",
        "build", "building", "round", "backtest", "logged", "checkpointed",
        "finalize", "walkforward", "loop"}
Answers == {"none", "needs_code", "compiled", "completed", "rejected"}
Processes == [pc : Pcs, answer : Answers, caller : {"none", "resolve", "research"},
              retest : BOOLEAN]

At(pc) == [pc |-> pc, answer |-> "none", caller |-> "none", retest |-> FALSE]
Goto(pc) == proc' = At(pc)
Exit == Goto("idle")

Init ==
    /\ st = MissingState
    /\ runs = {} /\ rounds = {}
    /\ ckpt = NoCommit /\ newer = {} /\ dirs = {}
    /\ commit \in Commits
    /\ proc = At("idle")
    /\ theses = 0
    /\ faults = [launches |-> 0, crashes |-> 0, deploys |-> 0, losses |-> 0]

Idle == proc.pc = "idle"

-----------------------------------------------------------------------------
(* Launches: main() reads the state file, writes a launch state or keeps   *)
(* the one it finds, and either enters the loop or, prepared only, exits.  *)

\* Variant: next_fresh_job_id does not look at the job directories.
JobsSeenWithoutDirs == {st.job} \cup {r.job : r \in runs} \cup {r.job : r \in rounds}
JobsSeen == {st.job} \cup {r.job : r \in runs} \cup {r.job : r \in rounds} \cup dirs
IsNextFreshJob(j) == \A k \in JobsSeen : k < j      \* j is a k + 1

HasBlocker(kinds) == st.blockers \cap kinds # {}

InterruptedResumable == st.state = "interrupted" /\ HasBlocker({"research_failed"})
ResearchResumable == /\ st.state = "blocked" /\ st.action.type = "research"
                     /\ HasBlocker(ResearchKinds)
\* Variant: a failed build is not a failed round.
CommandFailureResumable == /\ st.state = "blocked" /\ st.action.type = "blocked"
                           /\ HasBlocker(FailedRoundKinds)
FailedRoundResumable == /\ st.state = "blocked"
                        /\ st.action.type \in {"blocked", "builder_failed"}
                        /\ HasBlocker(FailedRoundKinds)
ManualReviewResumable == st.state = "blocked" /\ st.action.type = "manual_review"
HaltedResumable == st.state = "halted" /\ st.halted # NoThesis
BuilderRunningResumable == /\ st.state = "building" /\ st.halted # NoThesis
                           /\ st.action.type = "builder_running"

CanResume == InterruptedResumable \/ ResearchResumable \/ FailedRoundResumable
             \/ ManualReviewResumable \/ HaltedResumable \/ BuilderRunningResumable
CanRunCurrent == st.job >= 1 /\ (st.state = "running" \/ ResearchResumable)

Launch ==
    /\ Idle
    /\ faults.launches < MaxLaunches
    /\ faults' = [faults EXCEPT !.launches = @ + 1]
    /\ UNCHANGED <<runs, rounds, ckpt, newer, dirs, commit, theses>>

EnterOrPrepare == Goto("resolve") \/ Exit     \* --prepare-launch-state-only exits

FreshLaunch ==
    /\ Launch
    /\ \E job \in {k + 1 : k \in JobsSeen} :
          IsNextFreshJob(job) /\ st' = FreshLaunchState(job)
    /\ EnterOrPrepare

RetryFromRound == IF st.round = 0 THEN 0 ELSE st.round - 1

ResumeInterruptedResearch ==
    /\ Launch
    /\ InterruptedResumable
    /\ st' = [st EXCEPT !.state = "blocked",
                        !.round = RetryFromRound,
                        !.inProgress = st.round,
                        !.blockers = {"research_required"},
                        !.action = Plain("research"),
                        !.finished = "none"]
    /\ EnterOrPrepare

ResumeBlockedResearch ==
    /\ Launch
    /\ ResearchResumable
    /\ EnterOrPrepare
    /\ UNCHANGED st

\* A failed round, a halt, a build or a manual review resumes into a minimal
\* running state: only the job, its round and its usage survive.
ResumeRunning ==
    /\ Launch
    /\ FailedRoundResumable \/ ManualReviewResumable \/ HaltedResumable
       \/ BuilderRunningResumable
    /\ st' = [FreshLaunchState(st.job) EXCEPT !.round = st.round]
    /\ EnterOrPrepare

RunCurrentState ==
    /\ Launch
    /\ CanRunCurrent
    /\ Goto("resolve")
    /\ UNCHANGED st

-----------------------------------------------------------------------------
(* The environment: the process dies, the runner checks out another commit *)
(* (it refuses while a round is active), the state file goes missing.      *)

Crash ==
    /\ ~Idle
    /\ faults.crashes < MaxCrashes
    /\ faults' = [faults EXCEPT !.crashes = @ + 1]
    /\ Exit
    /\ UNCHANGED <<durable, theses>>

Deploy ==
    /\ Idle
    /\ faults.deploys < MaxDeploys
    /\ faults' = [faults EXCEPT !.deploys = @ + 1]
    /\ commit' \in Commits \ {commit}
    /\ UNCHANGED <<st, runs, rounds, ckpt, newer, dirs, proc, theses>>

LoseStateFile ==
    /\ Idle
    /\ faults.losses < MaxLosses
    /\ faults' = [faults EXCEPT !.losses = @ + 1]
    /\ st' = MissingState
    /\ UNCHANGED <<runs, rounds, ckpt, newer, dirs, commit, proc, theses>>

-----------------------------------------------------------------------------
(* resolve_next_action: a forced baseline rerun first, then a pending      *)
(* retest, then the baseline of an empty job, then a halted thesis, and    *)
(* otherwise the planner.                                                  *)

OnlyState == UNCHANGED <<runs, rounds, ckpt, newer, dirs, commit, theses, faults>>

\* Variant: _baseline_branch leaves the blockers.
BaselineStateKeepingBlockers ==
    [st EXCEPT !.state = "running", !.round = 0,
               !.action = BaselineAction(NoCommit), !.finished = "none"]
BaselineState == [st EXCEPT !.state = "running", !.round = 0, !.blockers = {},
                            !.action = BaselineAction(NoCommit), !.finished = "none"]
WalkforwardState == [st EXCEPT !.state = "running", !.action = Plain("walkforward"),
                               !.blockers = {}, !.finished = "pending_walkforward"]
ResearchState == [st EXCEPT !.state = "blocked", !.action = Plain("research"),
                            !.blockers = {"research_required"}]
FinishedState == [st EXCEPT !.state = "finished", !.action = Plain("terminated"),
                            !.blockers = {}, !.finished = "model_plateau", !.wfDone = FALSE]

CanPlateau == Cardinality(RoundsOf(st.job)) >= PlateauRounds

\* reconcile_state writes what plan_next_action returns for the state it read.
PlanNextAction ==
    \/ /\ st.finished = "pending_walkforward" /\ st.wfDone
       /\ st' = FinishedState
    \/ /\ ~(st.finished = "pending_walkforward" /\ st.wfDone)
       /\ st.action.rerun # NoCommit
       /\ st' = st
    \/ /\ ~(st.finished = "pending_walkforward" /\ st.wfDone)
       /\ st.action.rerun = NoCommit
       /\ IF Results(st.job) = {}
          THEN st' = BaselineState
          ELSE st' = ResearchState \/ (CanPlateau /\ st' = WalkforwardState)

RetestPending == st.state = "running" /\ st.action.source = "registered_prediction_retest"
EmptyJob == st.state = "running" /\ Results(st.job) = {}

ForceBaselineRerun ==
    /\ proc.pc = "resolve"
    /\ BaselineRerunDue
    /\ st' = [st EXCEPT !.state = "running", !.finished = "none", !.round = 0,
                        !.inProgress = 0, !.action = BaselineAction(commit),
                        !.blockers = {}, !.halted = NoThesis]
    /\ Goto("dispatch")
    /\ OnlyState

KeepRetest ==
    /\ proc.pc = "resolve"
    /\ ~BaselineRerunDue /\ RetestPending
    /\ Goto("dispatch")
    /\ OnlyState /\ UNCHANGED st

ReconcileState ==
    /\ proc.pc = "resolve"
    /\ ~BaselineRerunDue /\ ~RetestPending
    /\ EmptyJob \/ st.halted = NoThesis
    /\ PlanNextAction
    /\ Goto("dispatch")
    /\ OnlyState

HaltedThesisIsNext ==
    /\ proc.pc = "resolve"
    /\ ~BaselineRerunDue /\ ~RetestPending /\ ~EmptyJob
    /\ st.halted # NoThesis

\* The strategy now accepts the config the halted thesis asks for.
ResumeHaltedThesis ==
    /\ HaltedThesisIsNext
    /\ st.round >= 1
    /\ st' = [st EXCEPT !.state = "running", !.finished = "none",
                        !.action = Action("run_round", "resumed_halted_thesis",
                                          st.halted, NoCommit),
                        !.blockers = {}, !.halted = NoThesis]
    /\ Goto("dispatch")
    /\ OnlyState

RebuildHaltedThesis ==
    /\ HaltedThesisIsNext
    /\ proc' = [At("build") EXCEPT !.caller = "resolve"]
    /\ OnlyState /\ UNCHANGED st

-----------------------------------------------------------------------------
(* execute_once after the resolution: research, walkforward, a backtest    *)
(* round, or back to the loop.                                             *)

Dispatch ==
    /\ proc.pc = "dispatch"
    /\ Goto(IF st.state = "blocked" /\ HasBlocker(ResearchKinds) THEN "research"
            ELSE IF st.state # "running" THEN "loop"
            ELSE IF st.action.type = "walkforward" THEN "walkforward"
            ELSE "round")
    /\ OnlyState /\ UNCHANGED st

-----------------------------------------------------------------------------
(* run_research.                                                           *)

NextRound == st.round + 1
\* Variant: compares the last round, not the next.
LimitOffByOne == st.round > MaxRounds
RoundsUsedUp == NextRound > MaxRounds

FinishMaxRounds ==
    /\ proc.pc = "research"
    /\ RoundsUsedUp
    /\ st' = [st EXCEPT !.state = "finished", !.finished = "max_rounds", !.inProgress = 0]
    /\ Goto("loop")
    /\ OnlyState

\* The round the conductor works under: the one in progress, when there is one.
ConductorRound == IF st.inProgress >= 1 THEN st.inProgress ELSE NextRound

\* execute_research_sdk: mark the round in progress, then ensure_round_started.
BeginRound ==
    /\ proc.pc = "research"
    /\ ~RoundsUsedUp
    /\ LET row == [job |-> st.job, round |-> ConductorRound, thesis |-> NoThesis,
                   outcome |-> "in_progress"]
       IN  /\ st' = [st EXCEPT !.inProgress = ConductorRound]
           /\ rounds' = IF \E r \in rounds : SameKey(r, row)
                        THEN rounds ELSE rounds \cup {row}
    /\ Goto("conductor")
    /\ UNCHANGED <<runs, ckpt, newer, dirs, commit, theses, faults>>

\* The conductor answers; the round row is logged before the state is written.
LogResearchRound(answer) ==
    /\ proc.pc = "conductor"
    /\ theses' = theses + 1
    /\ rounds' = Upsert(rounds, [job |-> st.job, round |-> NextRound,
                                 thesis |-> theses + 1, outcome |-> answer])
    /\ dirs' = dirs \cup {st.job}
    /\ proc' = [At("answered") EXCEPT !.answer = answer]
    /\ UNCHANGED <<st, runs, ckpt, newer, commit, faults>>

RoundOver == [st EXCEPT !.round = NextRound, !.inProgress = 0]

HandleNeedsCode ==
    /\ proc.pc = "answered" /\ proc.answer = "needs_code"
    /\ st' = [RoundOver EXCEPT !.state = "halted", !.halted = theses]
    /\ proc' = [At("build") EXCEPT !.caller = "research"]
    /\ OnlyState

HandleSuccess ==
    /\ proc.pc = "answered" /\ proc.answer = "compiled"
    /\ st' = [RoundOver EXCEPT !.state = "running", !.blockers = {},
                               !.action = Action("run_round", "research_conductor",
                                                 theses, NoCommit)]
    /\ Goto("round")
    /\ OnlyState

HandleCompletedWithoutConfig ==
    /\ proc.pc = "answered" /\ proc.answer = "completed"
    /\ st' = [RoundOver EXCEPT !.state = "blocked", !.action = Plain("research"),
                               !.blockers = {"research_required"}]
    /\ Goto("loop")
    /\ OnlyState

HandleRoundFailure ==
    /\ proc.pc = "answered" /\ proc.answer = "rejected"
    /\ st' = [RoundOver EXCEPT !.state = "interrupted", !.action = Plain("terminated"),
                               !.blockers = {"research_failed"}]
    /\ Goto("loop")
    /\ OnlyState

-----------------------------------------------------------------------------
(* build_missing_primitives_for_state.  Called while resolving, the state  *)
(* it returns is dispatched; called by the research round it is not.       *)

MarkBuilderRunning ==
    /\ proc.pc = "build"
    /\ st' = [st EXCEPT !.state = "building", !.finished = "none",
                        !.blockers = {"builder_running"},
                        !.action = [Plain("builder_running") EXCEPT !.thesis = st.halted]]
    /\ proc' = [proc EXCEPT !.pc = "building"]
    /\ OnlyState

AfterBuilder(newState) ==
    Goto(IF proc.caller = "resolve" THEN "dispatch"
         ELSE IF newState = "running" THEN "round" ELSE "loop")

ActivateBuilderConfig ==
    /\ proc.pc = "building"
    /\ st' = [st EXCEPT !.state = "running", !.finished = "none", !.blockers = {},
                        !.action = Action("run_round", "builder", st.halted, NoCommit),
                        !.halted = NoThesis]
    /\ AfterBuilder("running")
    /\ OnlyState

BuilderBlocks(kind, action, halted) ==
    /\ proc.pc = "building"
    /\ st' = [st EXCEPT !.state = "blocked", !.finished = "none",
                        !.blockers = {kind}, !.action = Plain(action), !.halted = halted]
    /\ AfterBuilder("blocked")
    /\ OnlyState

BuilderAsksResearchRetry == BuilderBlocks("research_retry_required", "research", st.halted)
BuilderFails == BuilderBlocks("builder_failed", "builder_failed", st.halted)
BuilderNeedsReview == BuilderBlocks("manual_review", "manual_review", st.halted)
\* The activation raised after it had already popped the halted thesis.
BuilderActivationFails == BuilderBlocks("manual_review", "manual_review", NoThesis)

-----------------------------------------------------------------------------
(* run_experiment.                                                         *)

\* _validate_backtest_request: round 0 and the base config go together, and
\* any other backtest has a thesis.
ValidBacktestRequest ==
    /\ st.job >= 1
    /\ IF st.action.source = "baseline"
       THEN st.round = 0
       ELSE st.round >= 1 /\ st.action.thesis # NoThesis

BeginBacktest ==
    /\ proc.pc = "round"
    /\ ValidBacktestRequest
    /\ dirs' = dirs \cup {st.job}
    /\ Goto("backtest")
    /\ UNCHANGED <<st, runs, rounds, ckpt, newer, commit, theses, faults>>

BlockRound(kind) ==
    /\ proc.pc = "backtest"
    /\ st' = [st EXCEPT !.state = "blocked", !.action = Plain("blocked"),
                        !.blockers = {kind}]
    /\ Exit
    /\ OnlyState

CommandFails == BlockRound("command_failed")
MetricParseFails == BlockRound("metric_parse_failed")

EvaluateTimesOut ==
    /\ proc.pc = "backtest"
    /\ st' = [st EXCEPT !.state = "interrupted", !.action = Plain("terminated"),
                        !.blockers = {"research_failed"}]
    /\ Exit
    /\ OnlyState

\* Database.evaluate_metric: the first row of a job is kept, a later one only
\* when it beats the best kept row, so the outcome is the metric's.
Decisions == IF Results(st.job) = {} THEN {TRUE} ELSE BOOLEAN

LogRun(accepted) ==
    LET row == [job |-> st.job, round |-> st.round, thesis |-> st.action.thesis,
                accepted |-> accepted, commit |-> commit,
                rerun |-> IF st.action.source = "baseline"
                          THEN st.action.rerun ELSE NoCommit]
    IN  /\ proc.pc = "backtest"
        /\ runs' = Upsert(runs, row)
        /\ newer' = IF st.round = 0 THEN newer \cup {st.job} ELSE newer
        /\ UNCHANGED <<st, rounds, ckpt, dirs, commit, theses, faults>>

\* A verdict, or an inconclusive one forced to a verdict after its retest.
LogResult ==
    /\ \E accepted \in Decisions : LogRun(accepted)
    /\ Goto(IF st.action.source = "baseline" THEN "logged" ELSE "finalize")

\* The registered predictions stay inconclusive on the first run.
LogInconclusive ==
    /\ st.action.source \notin {"baseline", "registered_prediction_retest"}
    /\ LogRun(FALSE)
    /\ proc' = [At("finalize") EXCEPT !.retest = TRUE]

\* _record_baseline_checkpoint writes the checkpoint, then clears the request.
RecordCheckpoint ==
    /\ proc.pc = "logged"
    /\ ckpt' = commit /\ newer' = {}
    /\ Goto("checkpointed")
    /\ UNCHANGED <<st, runs, rounds, dirs, commit, theses, faults>>

ClearRerunRequest ==
    /\ proc.pc = "checkpointed"
    /\ st' = [st EXCEPT !.action.rerun = NoCommit]
    /\ Goto("finalize")
    /\ OnlyState

\* _finalize_round.
FinalizeRetest ==
    /\ proc.pc = "finalize" /\ proc.retest
    /\ st' = [st EXCEPT !.state = "running", !.blockers = {},
                        !.action.source = "registered_prediction_retest"]
    /\ Goto("loop")
    /\ OnlyState

FinalizeRound ==
    /\ proc.pc = "finalize" /\ ~proc.retest
    /\ PlanNextAction
    /\ Goto("loop")
    /\ OnlyState

-----------------------------------------------------------------------------
(* run_walkforward_queue.                                                  *)

Candidates == {r \in Results(st.job) : r.accepted /\ r.round # 0}
HasBaseline == \E r \in Results(st.job) : r.accepted /\ r.round = 0

WalkforwardCompletes ==
    /\ proc.pc = "walkforward"
    /\ HasBaseline
    /\ st' = [st EXCEPT !.wfDone = TRUE]
    /\ Goto("loop")
    /\ OnlyState

WalkforwardFails ==
    /\ proc.pc = "walkforward"
    /\ ~HasBaseline \/ Candidates # {}
    /\ st' = [st EXCEPT !.state = "interrupted", !.action = Plain("terminated"),
                        !.blockers = {"walkforward_failed"}]
    /\ Exit
    /\ OnlyState

-----------------------------------------------------------------------------
(* _run_controller_loop: what the loop does with the state it reads back.  *)

\* Variant: the loop goes on in a blocked state it cannot act on.
StopsOnlyWhenOver == st.state \in {"finished", "interrupted", "halted"}
LoopStops == \/ st.state \in {"finished", "interrupted", "halted"}
             \/ st.state = "blocked" /\ ~HasBlocker(ResearchKinds)

Loop ==
    /\ proc.pc = "loop"
    /\ Goto(IF LoopStops THEN "idle" ELSE "resolve")
    /\ OnlyState /\ UNCHANGED st

-----------------------------------------------------------------------------
Operator ==
    \/ FreshLaunch \/ ResumeInterruptedResearch \/ ResumeBlockedResearch
    \/ ResumeRunning \/ RunCurrentState

Environment == Crash \/ Deploy \/ LoseStateFile

Resolve == \/ ForceBaselineRerun \/ KeepRetest \/ ReconcileState
           \/ ResumeHaltedThesis \/ RebuildHaltedThesis \/ Dispatch

Research == \/ FinishMaxRounds \/ BeginRound
            \/ \E answer \in Answers \ {"none"} : LogResearchRound(answer)
            \/ HandleNeedsCode \/ HandleSuccess
            \/ HandleCompletedWithoutConfig \/ HandleRoundFailure

Builder == \/ MarkBuilderRunning \/ ActivateBuilderConfig
           \/ BuilderAsksResearchRetry \/ BuilderFails
           \/ BuilderNeedsReview \/ BuilderActivationFails

Backtest == \/ BeginBacktest \/ CommandFails \/ MetricParseFails \/ EvaluateTimesOut
            \/ LogResult \/ LogInconclusive \/ RecordCheckpoint \/ ClearRerunRequest
            \/ FinalizeRetest \/ FinalizeRound

Walkforward == WalkforwardCompletes \/ WalkforwardFails

Process == Resolve \/ Research \/ Builder \/ Backtest \/ Walkforward \/ Loop

Next == Operator \/ Environment \/ Process

Spec == Init /\ [][Next]_vars

\* Every call the process makes has a timeout, so a live process goes on.
FairSpec == Spec /\ WF_vars(Process)
-----------------------------------------------------------------------------
(* Properties.                                                             *)

\* Every variable keeps its type.
TypeOK ==
    /\ st \in StateFile
    /\ runs \subseteq RunRows /\ rounds \subseteq RoundRows
    /\ ckpt \in Commits \cup {NoCommit}
    /\ newer \subseteq Nat /\ dirs \subseteq Nat
    /\ commit \in Commits
    /\ proc \in Processes
    /\ theses \in Nat
    /\ faults \in [launches : Nat, crashes : Nat, deploys : Nat, losses : Nat]

\* validate_controller_state_invariants never has to reject a write: whatever
\* path led to a running state, it cleared the blockers on the way.
RunningCarriesNoBlockers == st.state = "running" => st.blockers = {}

\* execute_research_sdk works under research_round_in_progress while
\* run_research logs research_round + 1: no history of retries, crashes and
\* resumes lets the two disagree.
InProgressIsNextRound == st.inProgress \in {0, st.round + 1}

\* Whatever sends the process to run_experiment is a run_round action that
\* _validate_backtest_request accepts, on every path to a backtest.
BacktestRequestIsValid ==
    proc.pc = "round" => st.action.type = "run_round" /\ ValidBacktestRequest

\* No state that is written is rejected when it is read or executed: neither
\* validate_controller_state_invariants nor _validate_backtest_request raises.
WritesAreLegal == RunningCarriesNoBlockers /\ BacktestRequestIsValid

\* The conductor is asked for a thesis only in a job whose baseline has run.
BaselineRan(job) == \E r \in runs : r.job = job /\ r.round = 0
BaselineFirst == proc.pc = "conductor" => BaselineRan(st.job)

\* A job that has stopped short of a finish can be continued by some launch
\* that keeps its number; only a failed walkforward leaves it for good.
Continues == \/ st.state = "finished"
             \/ CanRunCurrent \/ CanResume
             \/ st.state = "interrupted" /\ HasBlocker({"walkforward_failed"})
NoStrandedJob == Idle /\ st.job >= 1 => Continues

\* A backtest of a research round is filed under a round the table of rounds
\* knows, whatever crash separated the two writes.
RoundIsKnown(job, n) == \E q \in rounds : q.job = job /\ q.round = n
RunRowsHaveRoundRow == \A r \in runs : r.round >= 1 => RoundIsKnown(r.job, r.round)

\* The rounds of a job are 1..n without a gap and never more than
\* MAX_RESEARCH_ROUNDS, though retries rewind the counter and reruns reset it.
RoundsAreConsecutive ==
    \A q \in rounds :
        /\ q.round \in 1..MaxRounds
        /\ q.round = 1 \/ RoundIsKnown(q.job, q.round - 1)

\* The state file's rounds, the table of rounds and the table of runs tell one
\* history: the round under way is the next, and backtests are of known rounds.
RoundsAreOnRecord == InProgressIsNextRound /\ RunRowsHaveRoundRow /\ RoundsAreConsecutive

\* "If commit changes, rerun baseline" (docs/vps-git-deploy-provenance-plan.md):
\* as long as no process died and no state was lost, research is only asked for on a
\* commit this job's baseline ran on.
ResearchOnCurrentCommit ==
    proc.pc = "conductor" /\ faults.crashes = 0 /\ faults.losses = 0 =>
        \E r \in Results(st.job) : r.round = 0 /\ r.commit = commit

\* next_fresh_job_id: a fresh launch takes a job number that no run, round or
\* directory has, even after the state file was lost.
FreshJobIsUnused ==
    [][st'.job > st.job /\ Idle =>
          st'.job \notin {r.job : r \in runs} \cup {r.job : r \in rounds} \cup dirs]_vars

\* A launched controller comes to a stop: nothing in the loop goes round for
\* ever without using up research rounds.
LaunchTerminates == ~Idle ~> Idle
-----------------------------------------------------------------------------
(* The inductive invariant.  The properties above are not inductive: a     *)
(* crash can expose any state the process leaves between two writes, and a *)
(* resume rewinds the round, so what makes them true is how the pending    *)
(* action, the blockers, the halted thesis and the tables go together in   *)
(* every state, and what each place of the process knows of them.          *)

\* A run_round action can be executed as it stands, however it got there.
ActionIsExecutable ==
    /\ st.action.type = "run_round" => ValidBacktestRequest
    /\ st.action.source # "none" => st.action.type = "run_round"
    /\ st.action.rerun # NoCommit => st.action.source = "baseline"

BlockedForResearch ==
    HasBlocker(ResearchKinds) =>
        st.blockers \subseteq ResearchKinds /\ st.action.type = "research"

\* A halted thesis has a round, and one that outlived its round has a later one
\* under way, so that rewinding an interrupted round never takes it to round 0.
HaltedHasRound ==
    st.halted # NoThesis =>
        /\ st.round >= 1
        /\ HasBlocker({"research_failed"}) \/ st.action.type = "run_round" => st.round >= 2

StateShape ==
    /\ RunningCarriesNoBlockers /\ InProgressIsNextRound
    /\ st.job >= 1 => Continues
    /\ ActionIsExecutable /\ BlockedForResearch /\ HaltedHasRound

TablesAgree ==
    /\ RunRowsHaveRoundRow /\ RoundsAreConsecutive
    /\ \A r \in runs : BaselineRan(r.job)

StateMatchesTables ==
    /\ st.round >= 1 \/ st.inProgress >= 1 => BaselineRan(st.job)
    /\ st.round >= 1 => RoundIsKnown(st.job, st.round)

PlaceMatchesState ==
    /\ st.job = 0 => Idle /\ st.state = "running"
    /\ proc.pc = "dispatch" /\ st.state = "running" =>
          st.action.type \in {"run_round", "walkforward"}
    /\ proc.pc = "dispatch" /\ st.state = "blocked" /\ HasBlocker(ResearchKinds) =>
          BaselineRan(st.job)
    /\ proc.pc \in {"research", "conductor", "answered"} =>
          st.state = "blocked" /\ HasBlocker(ResearchKinds) /\ BaselineRan(st.job)
    /\ proc.pc \in {"conductor", "answered"} => ~RoundsUsedUp
    /\ proc.pc = "answered" => theses >= 1 /\ RoundIsKnown(st.job, NextRound)
    /\ proc.pc \in {"build", "building"} => st.halted # NoThesis
    /\ proc.pc \in {"round", "backtest", "logged", "checkpointed", "finalize"} =>
          st.action.type = "run_round"
    /\ proc.retest => st.action.source # "baseline"

\* What every reachable state satisfies: the properties and what they rest on.
Consistent == TypeOK /\ StateShape /\ TablesAgree /\ StateMatchesTables /\ PlaceMatchesState
=============================================================================
