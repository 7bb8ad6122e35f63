---------------------------- MODULE Improvement ----------------------------
(***************************************************************************)
(* The self-improvement loop around the research rounds: _run_improvement_ *)
(* _hooks after every round (HALO mining, the automatic apply and its      *)
(* evaluation, the ratchet, the recursive-improve reports), the exports of *)
(* the round and the reflexion the next round reads from them.             *)
(*                                                                         *)
(* The controllers of several families work in one code root: they share   *)
(* the apply lock and the directory of evaluation results, to which        *)
(* eval_cli writes too.  A controller may die anywhere and be launched     *)
(* again, which executes its round again, since the hooks come before the  *)
(* state advances.                                                         *)
(***************************************************************************)
EXTENDS Integers, Sequences, FiniteSets, FiniteSetsExt

CONSTANTS
    Families,      \* one controller, and one job, for each
    FlagSets,      \* the sets of improvement flags a run may be under
    Suites,        \* what an evaluation may measure: compiled tasks per suite
    Repeat,        \* suites of one evaluation
    Interval,      \* AUTORESEARCH_RECURSIVE_IMPROVE_INTERVAL
    FirstRound,    \* [Families -> the job's next round when its controller starts]
    LastRound,     \* bound: [Families -> the last round of the job]
    CliResults,    \* what eval_cli may measure, under either metric
    Bounds,        \* bounds, by the flags: results before every evaluation raises and
                   \* before eval_cli stops, removals of a lock, launches per family
    None

KnownFlags == {"halo", "halo_apply", "reflexion", "recursive_improve", "ratchet"}

\* What a lock file holds: nothing yet, or the payload (pid, host, start) of the
\* controller that created it.
Payloads == Families \X Nat \X Nat
Empty == <<>>
Texts == {Empty} \cup Payloads
Locks == [by : Payloads, text : Texts]

ASSUME ConstantsAssumption ==
    /\ FlagSets \subseteq SUBSET KnownFlags
    /\ Repeat \in Nat \ {0} /\ Suites \subseteq [1..Repeat -> Nat]
    /\ Interval \in Nat \ {0}
    /\ FirstRound \in [Families -> Nat \ {0}] /\ LastRound \in [Families -> Nat]
    /\ DOMAIN Bounds = FlagSets
    /\ \A fs \in FlagSets :
            /\ {Bounds[fs].evals, Bounds[fs].cliEvals, Bounds[fs].removals} \subseteq Nat
            /\ Bounds[fs].launches \in [Families -> Nat]
    /\ None \notin {"keep", "inconclusive", "revert", "aborted"} \cup Payloads \cup Locks

VARIABLES
    flags,      \* the improvement flags in the environment
    lock,       \* .apply.lock: who created it and the payload in it, or None
    evals,      \* eval_results/, in the order of the files' mtimes
    at,         \* [Families -> where its controller is]
    round,      \* [Families -> the round under way, or the next one]
    launch,     \* [Families -> launches so far]
    own,        \* [Families -> lock_owner_payload, None when it was not read]
    robbed,     \* history: [Families -> its lock was removed in a gap, see Gaps]
    exported,   \* [Families -> rounds of the job that left their exports]
    fed,        \* [Families -> round whose reflexion the conductor was given]
    trial,      \* [Families -> the decision of apply_halo_report, in memory]
    verdict,    \* [Families -> the row of this round in the ratchet's log]
    batches,    \* [Families -> report batches: last round |-> rounds in it]
    removals    \* locks removed by an operator

vars == <<flags, lock, evals, at, round, launch, own, robbed, exported, fed,
          trial, verdict, batches, removals>>
lockVars == <<lock, own, robbed>>
hookVars == <<lockVars, evals, trial>>
roundVars == <<flags, round, launch, exported, fed, batches, removals>>

-----------------------------------------------------------------------------
(* Evaluation results: eval_metrics.py.                                    *)

\* The total is Repeat times the mean, the spread Repeat * (Repeat - 1) times
\* the variance.
Total(suites) == MapThenSumSet(LAMBDA i : suites[i], 1..Repeat)
Squares(suites) == MapThenSumSet(LAMBDA i : suites[i] * suites[i], 1..Repeat)
Result(metric, suites) ==
    [metric |-> metric, total |-> Total(suites),
     spread |-> Repeat * Squares(suites) - Total(suites) * Total(suites)]

\* What a trial measures: run_eval under its default metric.
Trialled == {Result("compiled_rate", s) : s \in Suites}

\* The variance a difference is measured in: the prior's, if it has one.
RefSpread(current, prior) ==
    IF prior.spread > 0 THEN prior.spread ELSE current.spread

\* The means are at least one (positive) standard deviation apart.
OneStdevApart(current, prior) ==
    LET delta == current.total - prior.total
    IN  /\ RefSpread(current, prior) > 0
        /\ delta * delta * (Repeat - 1) >= Repeat * RefSpread(current, prior)

Better(current, prior) ==
    /\ current.metric = prior.metric
    /\ OneStdevApart(current, prior)
    /\ current.total > prior.total

Classified(current, prior) ==
    IF ~OneStdevApart(current, prior) THEN "inconclusive"
    ELSE IF current.total > prior.total THEN "keep" ELSE "revert"

-----------------------------------------------------------------------------
NotRun == [status |-> None, mine |-> 0, prior |-> 0, path |-> 0]
NoVerdict == [decision |-> None, trial |-> NotRun]
Aborted(f) == [trial[f] EXCEPT !.status = "aborted", !.path = 0]

On(flag) == flag \in flags
Payload(f) == <<f, round[f], launch[f]>>
IsTheOne(f) == lock # None /\ lock.by = Payload(f)

\* latest_eval_result_path: 0 when the directory is empty.
LatestEval == Len(evals)

Goes(f, place) == at' = [at EXCEPT ![f] = place]
Tries(f, t) == trial' = [trial EXCEPT ![f] = t]

\* build_reflexion_feedback: the newest export of the job's last round, if any.
FeedbackOfLatest(f) ==
    LET rounds == exported[f] IN IF rounds = {} THEN 0 ELSE Max(rounds)
Feedback(f) ==
    IF round[f] > 1 /\ round[f] - 1 \in exported[f] THEN round[f] - 1 ELSE 0

Init ==
    /\ flags \in FlagSets
    /\ lock = None /\ evals = <<>> /\ removals = 0
    /\ at = [f \in Families |-> "idle"]
    /\ round = FirstRound /\ launch = [f \in Families |-> 1]
    /\ own = [f \in Families |-> None] /\ robbed = [f \in Families |-> FALSE]
    /\ exported = [f \in Families |-> 1..FirstRound[f] - 1]
    /\ fed = [f \in Families |-> 0]
    /\ trial = [f \in Families |-> NotRun]
    /\ verdict = [f \in Families |-> NoVerdict]
    /\ batches = [f \in Families |-> <<>>]

-----------------------------------------------------------------------------
(* A round: run_research up to its hooks.                                  *)

StartRound(f) ==
    /\ at[f] = "idle" /\ round[f] <= LastRound[f]
    /\ Goes(f, "round")
    /\ fed' = [fed EXCEPT ![f] = IF On("reflexion") THEN Feedback(f) ELSE 0]
    /\ UNCHANGED <<flags, round, launch, exported, batches, removals, verdict,
                   hookVars>>

\* run_halo_after_round: a report for the apply, or None whatever goes wrong.
Mine(f) ==
    \/ {"halo", "halo_apply"} \subseteq flags /\ Goes(f, "acquire")
    \/ Goes(f, "ratchet")

\* _record_round_quality_and_bridges may fail: the round goes on without the
\* exports of this execution.
EndRound(f) ==
    /\ at[f] = "round"
    /\ \/ exported' = [exported EXCEPT ![f] = @ \cup {round[f]}]
       \/ UNCHANGED exported
    /\ Mine(f)
    /\ fed' = [fed EXCEPT ![f] = 0]
    /\ UNCHANGED <<flags, round, launch, batches, removals, verdict, hookVars>>

-----------------------------------------------------------------------------
(* apply_halo_report.                                                      *)

\* Where a controller does not know whether the lock file is its own: until it
\* read back what it wrote, and once it compared what it finds with that.
Gaps == {"write", "read", "unlink"}

\* The lock file goes, whoever created it.
FileGoes(others) ==
    /\ lock' = None
    /\ robbed' = [g \in Families |->
            g \in others /\ (robbed[g] \/ (IsTheOne(g) /\ at[g] \in Gaps))]

\* open("x"), which leaves an empty file until the payload is written and closed.
CreateLock(f) ==
    /\ lock = None /\ lock' = [by |-> Payload(f), text |-> Empty]
    /\ robbed' = [robbed EXCEPT ![f] = FALSE]
    /\ Goes(f, "write") /\ UNCHANGED <<own, trial>>

LockHeld(f) ==
    /\ lock # None
    /\ Goes(f, "ratchet") /\ Tries(f, Aborted(f)) /\ UNCHANGED lockVars

AcquireOrWait(f) ==
    /\ at[f] = "acquire"
    /\ CreateLock(f) /\ UNCHANGED <<evals, roundVars, verdict>>

Acquire(f) ==
    /\ at[f] = "acquire"
    /\ CreateLock(f) \/ LockHeld(f)
    /\ UNCHANGED <<evals, roundVars, verdict>>

\* The write goes to the file that was created, wherever that is by now; when it
\* fails, the hook unlinks the lock file that is there and raises.
WriteLock(f) ==
    /\ at[f] = "write"
    /\ \/ /\ lock' = IF IsTheOne(f) THEN [lock EXCEPT !.text = Payload(f)] ELSE lock
          /\ Goes(f, "read") /\ UNCHANGED robbed
       \/ FileGoes(Families \ {f}) /\ Goes(f, "ratchet")
    /\ UNCHANGED <<own, trial, evals, roundVars, verdict>>

\* apply_halo_report reads back its payload: what the lock file holds by now,
\* and None if it cannot.
ReadBack(f) ==
    /\ at[f] = "read"
    /\ \/ own' = [own EXCEPT ![f] = None]
       \/ lock # None /\ own' = [own EXCEPT ![f] = lock.text]
    /\ Goes(f, "edit")
    /\ UNCHANGED <<lock, robbed, trial, evals, roundVars, verdict>>

\* The end of the try block, with the decision it returns.
Release(f, decision) ==
    /\ Tries(f, decision) /\ Goes(f, "release") /\ UNCHANGED lockVars

\* _release_lock leaves a lock that is not its own, if it knows its own.
AnyLock(f) == TRUE
OwnLock(f) == own[f] = None \/ (lock # None /\ lock.text = own[f])

\* (A lock that it cannot read stays as well.)
Compare(f) ==
    /\ at[f] = "release"
    /\ \/ OwnLock(f) /\ Goes(f, "unlink") /\ UNCHANGED <<own, robbed>>
       \/ /\ own[f] # None /\ Goes(f, "ratchet")
          /\ own' = [own EXCEPT ![f] = None] /\ robbed' = [robbed EXCEPT ![f] = FALSE]
    /\ UNCHANGED <<lock, trial, evals, roundVars, verdict>>

Unlink(f) ==
    /\ at[f] = "unlink"
    /\ FileGoes(Families \ {f}) /\ own' = [own EXCEPT ![f] = None]
    /\ Goes(f, "ratchet")
    /\ UNCHANGED <<trial, evals, roundVars, verdict>>

\* Claude edits the code and ends well, and the latest result is looked up; or
\* it is missing, fails or times out, and the edits it made stay.
Edit(f) ==
    /\ at[f] = "edit"
    /\ \/ /\ Goes(f, "eval") /\ Tries(f, [trial[f] EXCEPT !.prior = LatestEval])
          /\ UNCHANGED lockVars
       \/ Release(f, Aborted(f))
    /\ UNCHANGED <<evals, roundVars, verdict>>

\* run_eval stores its result, or raises before it did.
Evaluate(f) ==
    /\ at[f] = "eval"
    /\ \/ /\ Len(evals) < Bounds[flags].evals
          /\ \E r \in Trialled : evals' = Append(evals, r)
          /\ Goes(f, "decide")
          /\ Tries(f, [trial[f] EXCEPT !.mine = LatestEval + 1])
          /\ UNCHANGED lockVars
       \/ Release(f, Aborted(f)) /\ UNCHANGED evals
    /\ UNCHANGED <<roundVars, verdict>>

\* _decide_against_prior.
Comparison(current, prior) ==
    IF prior = 0 THEN "inconclusive"
    ELSE IF evals[current].metric # evals[prior].metric THEN "aborted"
    ELSE Classified(evals[current], evals[prior])

\* The path handed to the ratchet is that of the newest result by now.
Decided(f) ==
    LET status == Comparison(trial[f].mine, trial[f].prior)
    IN  [trial[f] EXCEPT !.status = status,
            !.path = IF status = "aborted" THEN 0 ELSE LatestEval]

\* The prior may not be readable.  Where the decision cannot be written to
\* decisions.jsonl the hook raises, and the round knows of no decision.
Decide(f) ==
    /\ at[f] = "decide"
    /\ \E t \in {Decided(f), Aborted(f), NotRun} : Release(f, t)
    /\ UNCHANGED <<evals, roundVars, verdict>>

-----------------------------------------------------------------------------
(* The ratchet: record_round_decision.                                     *)

Rank == [revert |-> 0, inconclusive |-> 1, keep |-> 2]

KeptIfCompiled(compiled) == IF compiled THEN "keep" ELSE "revert"

\* _decision_benchmark: the newest of the other results, written before or
\* after the one it judges.
Benchmark(path) ==
    LET others == (1..Len(evals)) \ {path}
    IN  IF others = {} \/ evals[path].metric # evals[Max(others)].metric
        THEN "inconclusive"
        ELSE Classified(evals[path], evals[Max(others)])

\* _apply_verdict_contribution and _combine_verdicts.
Contribution(status) == IF status = "aborted" THEN "inconclusive" ELSE status
RatchetAlone(own_verdict, status) == own_verdict
Combined(own_verdict, status) ==
    IF status # None /\ Rank[Contribution(status)] < Rank[own_verdict]
    THEN Contribution(status) ELSE own_verdict

\* An evaluation result that cannot be read makes the benchmark inconclusive; a
\* row that cannot be written is missing.
Ratchet(f) ==
    /\ at[f] = "ratchet"
    /\ Goes(f, "report")
    /\ \/ /\ On("ratchet")
          /\ \E v \in IF trial[f].path = 0
                      THEN {KeptIfCompiled(c) : c \in BOOLEAN}
                      ELSE {Benchmark(trial[f].path), "inconclusive"} :
                verdict' = [verdict EXCEPT ![f] =
                    [decision |-> Combined(v, trial[f].status), trial |-> trial[f]]]
       \/ UNCHANGED verdict
    /\ UNCHANGED <<hookVars, roundVars>>

-----------------------------------------------------------------------------
(* The recursive-improve reports, and the end of the round.                *)

FirstOfBatch(n) == n - Interval + 1
Traces(f, n) == FirstOfBatch(n)..n \cap exported[f]

\* A batch of rounds that left no trace is skipped; its manifest names the
\* rounds whether or not the agents' report commands fail afterwards.
WritesBatch(f) ==
    /\ On("recursive_improve") /\ round[f] % Interval = 0
    /\ Traces(f, round[f]) # {}
    /\ batches' = [batches EXCEPT ![f] =
            [n \in DOMAIN @ \cup {round[f]} |->
                IF n = round[f] THEN Traces(f, n) ELSE @[n]]]

Report(f) ==
    /\ at[f] = "report"
    /\ WritesBatch(f) \/ UNCHANGED batches
    /\ Goes(f, "advance")
    /\ Tries(f, NotRun) /\ verdict' = [verdict EXCEPT ![f] = NoVerdict]
    /\ UNCHANGED <<flags, round, launch, exported, fed, removals, evals, lockVars>>

\* The controller stores that its next round is the next one.
Advance(f) ==
    /\ at[f] = "advance"
    /\ Goes(f, "idle") /\ round' = [round EXCEPT ![f] = @ + 1]
    /\ UNCHANGED <<flags, launch, exported, fed, batches, removals, verdict,
                   hookVars>>

-----------------------------------------------------------------------------
(* Around the controllers.                                                 *)

\* eval_cli adds a result, of either metric, whenever it ends.
EvalCli ==
    /\ Len(evals) < Bounds[flags].cliEvals
    /\ \E r \in CliResults : evals' = Append(evals, r)
    /\ UNCHANGED <<at, lockVars, trial, roundVars, verdict>>

\* "wait or remove the stale lock manually": of a controller that died, or that
\* is busy with an edit or an evaluation of hours, or is taking or releasing it.
RemoveLock ==
    /\ lock # None /\ removals < Bounds[flags].removals
    /\ FileGoes(Families) /\ removals' = removals + 1
    /\ UNCHANGED <<flags, evals, at, round, launch, own, exported, fed, trial,
                   verdict, batches>>

Die(f) ==
    /\ at[f] \notin {"idle", "dead"} /\ launch[f] < Bounds[flags].launches[f]
    /\ Goes(f, "dead")
    /\ own' = [own EXCEPT ![f] = None] /\ robbed' = [robbed EXCEPT ![f] = FALSE]
    /\ Tries(f, NotRun)
    /\ fed' = [fed EXCEPT ![f] = 0] /\ verdict' = [verdict EXCEPT ![f] = NoVerdict]
    /\ UNCHANGED <<flags, lock, evals, round, launch, exported, batches, removals>>

Relaunch(f) ==
    /\ at[f] = "dead"
    /\ Goes(f, "idle")
    /\ launch' = [launch EXCEPT ![f] = @ + 1]
    /\ UNCHANGED <<flags, round, exported, fed, batches, removals, verdict,
                   hookVars>>

Hook(f) ==
    \/ Acquire(f) \/ WriteLock(f) \/ ReadBack(f) \/ Edit(f) \/ Evaluate(f)
    \/ Decide(f) \/ Compare(f) \/ Unlink(f) \/ Ratchet(f) \/ Report(f) \/ Advance(f)

Next ==
    \/ \E f \in Families :
        StartRound(f) \/ EndRound(f) \/ Hook(f) \/ Die(f) \/ Relaunch(f)
    \/ EvalCli \/ RemoveLock

Spec == Init /\ [][Next]_vars

\* Every subprocess of a hook has a timeout, and an evaluation's conductor too.
FairSpec == Spec /\ \A f \in Families : WF_vars(Hook(f))

-----------------------------------------------------------------------------
(* Properties.                                                             *)

Places == {"idle", "round", "acquire", "write", "read", "edit", "eval", "decide",
           "release", "unlink", "ratchet", "report", "advance", "dead"}
Statuses == {None, "aborted"} \cup DOMAIN Rank
Trials == [status : Statuses, mine : Nat, prior : Nat, path : Nat]

TypeOK ==
    /\ flags \in FlagSets
    /\ evals \in Seq(Trialled \cup CliResults)
    /\ at \in [Families -> Places]
    /\ round \in [Families -> Nat] /\ launch \in [Families -> Nat]
    /\ lock \in {None} \cup Locks
    /\ own \in [Families -> {None} \cup Texts] /\ robbed \in [Families -> BOOLEAN]
    /\ exported \in [Families -> SUBSET Nat] /\ fed \in [Families -> Nat]
    /\ trial \in [Families -> Trials]
    /\ verdict \in [Families -> [decision : {None} \cup DOMAIN Rank, trial : Trials]]
    /\ removals \in Nat

\* A controller removes the lock of another one only if its own went in a gap:
\* before it read back its payload, or between the comparison and the unlink;
\* or if it could not read back a payload.  Where an operator takes its lock
\* away at any other time, during the hours of its edit and its evaluation, it
\* leaves the lock that another one has taken since (_acquire_lock,
\* _release_lock).
ReleasesAreOwn ==
    [][\A f \in Families :
            at[f] # at'[f] /\ at'[f] = "ratchet" /\ lock # None /\ lock' = None =>
                \/ IsTheOne(f) \/ robbed[f]
                \/ (at[f] = "unlink" /\ own[f] = None)]_vars

\* Where the round knows of an apply, the ratchet logs "keep" only if that
\* apply measured its edits and found them at least a standard deviation above
\* the newest result stored before them, whatever eval_cli and the other
\* controllers stored since (record_round_decision, _combine_verdicts).
KeepIsEarned ==
    \A f \in Families : LET t == verdict[f].trial IN
        verdict[f].decision = "keep" /\ t.status # None =>
            /\ t.status = "keep"
            /\ t.prior > 0 /\ t.prior < t.mine
            /\ Better(evals[t.mine], evals[t.prior])

\* A conductor's reflexion is of the round just before its own, and a report
\* batch holds every export of the rounds since the batch before and no other,
\* but for its own round, whose later executions may leave an export and no new
\* batch: a round without exports, or executed again after a death, shifts
\* none of them (build_reflexion_feedback,
\* run_scheduled_recursive_improve_reports).
MemoriesMatchRounds ==
    \A f \in Families :
        /\ at[f] = "round" /\ fed[f] > 0 => fed[f] = round[f] - 1
        /\ \A n \in DOMAIN batches[f] :
                LET rounds == {r \in exported[f] : r > n - Interval /\ r <= n}
                IN  batches[f][n] \in {rounds, rounds \ {n}}

\* Whoever holds the lock, dead or alive, the hooks of a round end, or its
\* controller died: a stale lock costs the apply, never the research.
HooksEnd ==
    \A f \in Families :
        at[f] \in {"acquire", "ratchet"} ~> at[f] \in {"idle", "dead"}
=============================================================================
