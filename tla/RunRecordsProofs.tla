-------------------------- MODULE RunRecordsProofs --------------------------
(***************************************************************************)
(* What the records of a job say, for any configs, commits and outcomes,   *)
(* any number of jobs, rounds and executions, and deaths between any two   *)
(* writes.                                                                 *)
(***************************************************************************)
EXTENDS RunRecords, WellFoundedInduction, TLAPS

\* The least element of a set of naturals: < is well-founded.
LEMMA LeastNatural ==
    ASSUME NEW S, S \subseteq Nat, S # {}
    PROVE  \E n \in S : \A m \in S : n <= m
<1> DEFINE R == OpToRel(<, Nat)
<1>1. IsWellFoundedOn(R, Nat)
  BY NatLessThanWellFounded
<1>a. \A x, y \in Nat : <<y, x>> \in R <=> y < x
  BY DEF OpToRel
<1> HIDE DEF R
<1>2. PICK n \in S : \A m \in S : <<m, n>> \notin R
  BY <1>1, WFMin
<1>3. \A m \in S : m \in Nat /\ ~ (m < n)
  BY <1>2, <1>a
<1>4. \A m \in S : n <= m
  BY <1>3
<1> QED
  BY <1>4

-----------------------------------------------------------------------------
(* The latest of some runs or checkpoints, and the best of some runs.      *)

\* Times up to a bound have a latest, whatever else is timed with them.
LEMMA LatestExists ==
    ASSUME NEW S, S # {}, NEW bound \in Nat, \A r \in S : r.time \in Nat /\ r.time <= bound
    PROVE  Latest(S) \in S /\ \A other \in S : other.time <= Latest(S).time
<1> DEFINE Ages == {bound - r.time : r \in S}
<1>1. Ages \subseteq Nat /\ Ages # {}
  OBVIOUS
<1>2. PICK least \in Ages : \A age \in Ages : least <= age
  BY <1>1, LeastNatural
<1>3. PICK r \in S : least = bound - r.time
  BY <1>2
<1>4. ASSUME NEW other \in S PROVE other.time <= r.time
  <2>1. bound - other.time \in Ages
    OBVIOUS
  <2> HIDE DEF Ages
  <2>2. bound - r.time <= bound - other.time
    BY <1>2, <1>3, <2>1
  <2>3. r.time \in Nat /\ other.time \in Nat
    OBVIOUS
  <2> QED
    BY <2>2, <2>3
<1> HIDE DEF Ages
<1>5. \E x \in S : \A other \in S : other.time <= x.time
  BY <1>4
<1> QED
  BY <1>5 DEF Latest

\* Runs of which each later one is better: the best of them is the latest.
Improving(S) ==
    \A a, b \in S : /\ a.time = b.time => a = b
                    /\ a.time < b.time => a.outcome.metric < b.outcome.metric

IsBest(r, S) ==
    /\ r \in S
    /\ \A other \in S : \/ other.outcome.metric < r.outcome.metric
                        \/ other.outcome.metric = r.outcome.metric /\ r.time <= other.time

LEMMA RowsAreNumbered ==
    ASSUME NEW r \in Rows
    PROVE  r.time \in Nat /\ r.outcome.metric \in Int /\ r.outcome \in Outcomes
BY ConstantsAssumption DEF Rows

LEMMA LatestIsBest ==
    ASSUME NEW S, S \subseteq Rows, S # {}, NEW bound \in Nat, Improving(S),
           \A r \in S : r.time <= bound
    PROVE  IsBest(Latest(S), S)
<1>1. \A r \in S : r.time \in Nat /\ r.outcome.metric \in Int
  BY RowsAreNumbered
<1>2. Latest(S) \in S /\ \A other \in S : other.time <= Latest(S).time
  BY <1>1, LatestExists
<1>3. ASSUME NEW other \in S
      PROVE  \/ other.outcome.metric < Latest(S).outcome.metric
             \/ other.outcome.metric = Latest(S).outcome.metric /\ Latest(S).time <= other.time
  BY <1>1, <1>2 DEF Improving
<1> QED
  BY <1>2, <1>3 DEF IsBest

LEMMA BestOfIsBest ==
    ASSUME NEW S, S \subseteq Rows, S # {}, NEW bound \in Nat, Improving(S),
           \A r \in S : r.time <= bound
    PROVE  IsBest(BestOf(S), S)
<1>1. IsBest(Latest(S), S)
  BY LatestIsBest
<1> QED
  BY <1>1 DEF IsBest, BestOf

\* What evaluate_metric compares with is the metric of no accepted run below any other.
LEMMA BestKeptIsBest ==
    ASSUME NEW j, Accepted(j) \subseteq Rows, Accepted(j) # {}, NEW bound \in Nat,
           Improving(Accepted(j)), \A r \in Accepted(j) : r.time <= bound
    PROVE  BestKept(j) \in Int /\ \A r \in Accepted(j) : r.outcome.metric <= BestKept(j)
<1> DEFINE S == Accepted(j)
           Tops(r) == \A other \in S : other.outcome.metric <= r.outcome.metric
           best == CHOOSE r \in S : Tops(r)
<1>1. \A r \in S : r.outcome.metric \in Int
  BY RowsAreNumbered
<1>2. IsBest(Latest(S), S)
  BY LatestIsBest
<1>3. Latest(S) \in S /\ Tops(Latest(S))
  BY <1>1, <1>2 DEF IsBest
<1>4. best \in S /\ Tops(best)
  BY <1>3
<1>5. BestKept(j) = best.outcome.metric
  BY DEF BestKept
<1> QED
  BY <1>1, <1>4, <1>5

-----------------------------------------------------------------------------
(* Types and times.                                                        *)

\* The timestamps: an execution has the next one, and its row and its checkpoint have it.
Timed ==
    /\ \A r \in rows : r.time <= clock
    /\ proc.pc = "ran" => \A r \in rows : r.time < clock
    /\ \A a, b \in rows : a.time = b.time => a = b
    /\ \A c \in ledger : c.time <= clock

Typed ==
    /\ TypeOK
    /\ proc.pc = "backtest" => clock < MaxRuns
    /\ proc.pc \in {"ran", "logged", "stored"} => proc.result \in Outcomes

LEMMA NothingIsTyped ==
    /\ NoAction \in Actions
    /\ At("idle") \in Processes /\ At("idle").pc = "idle"
    /\ NoFiles \in [trades : TradesFiles, diagnostics : DiagnosticsFiles]
BY DEF Action, NoAction, Actions, Sources, Configs, At, Processes, Pcs, NoFiles, TradesFiles,
   DiagnosticsFiles

LEMMA InitTyped == Init => Typed /\ Timed
<1> SUFFICES ASSUME Init PROVE Typed /\ Timed
  OBVIOUS
<1>1. job \in Jobs /\ round \in Rounds /\ clock \in 0 .. MaxRuns
      /\ faults \in [deaths : 0 .. MaxDeaths, deploys : 0 .. MaxDeploys]
  BY ConstantsAssumption DEF Init, Jobs, Rounds
<1>2. head \in Commits /\ known \in [Setups -> Outcomes \cup {None}] /\ action \in Actions
      /\ drift \in BOOLEAN /\ proc \in Processes /\ proc.pc = "idle"
      /\ files \in [RunIds -> [trades : TradesFiles, diagnostics : DiagnosticsFiles]]
  BY NothingIsTyped DEF Init
<1>3. TypeOK
  BY <1>1, <1>2 DEF Init, TypeOK
<1> QED
  BY <1>2, <1>3 DEF Init, Typed, Timed

LEMMA ResultsAreOutcomes == ASSUME TypeOK PROVE Results \subseteq Outcomes
<1>1. Setup \in Setups
  BY DEF Setup, Setups, TypeOK, Actions
<1> QED
  BY <1>1 DEF Results, TypeOK

LEMMA WrittenIsTyped ==
    ASSUME NEW o \in Outcomes,
           NEW old \in [trades : TradesFiles, diagnostics : DiagnosticsFiles]
    PROVE  /\ Written(old, o) \in [trades : TradesFiles, diagnostics : DiagnosticsFiles]
           /\ PartlyWritten(old, o) \subseteq [trades : TradesFiles, diagnostics : DiagnosticsFiles]
<1>1. Written(old, o) \in [trades : TradesFiles, diagnostics : DiagnosticsFiles]
  BY DEF Written, TradesFiles, DiagnosticsFiles
<1>2. None \in TradesFiles /\ None \in DiagnosticsFiles
  BY DEF TradesFiles, DiagnosticsFiles
<1> QED
  BY <1>1, <1>2 DEF PartlyWritten

LEMMA DuplicateIsARun ==
    ASSUME TypeOK, Timed, NEW o
    PROVE  DuplicateOf(o) \in RunIds \cup {None}
<1>1. CASE o.trades # None /\ Repeats(o) # {}
  <2>1. Repeats(o) \subseteq rows
    BY DEF Repeats, RowsOf
  <2>2. clock \in Nat /\ \A r \in Repeats(o) : r.time \in Nat /\ r.time <= clock
    BY <2>1, RowsAreNumbered, ConstantsAssumption DEF TypeOK, Timed
  <2>3. Latest(Repeats(o)) \in rows
    BY <1>1, <2>1, <2>2, LatestExists
  <2>4. RunId(Latest(Repeats(o))) \in RunIds
    BY <2>3 DEF TypeOK, Rows, RunId, RunIds
  <2> QED
    BY <1>1, <2>4 DEF DuplicateOf
<1> QED
  BY <1>1 DEF DuplicateOf

LEMMA RecordIsARow ==
    ASSUME TypeOK, Timed, NEW o \in Outcomes, NEW keeps \in BOOLEAN
    PROVE  Record(o, keeps) \in Rows
<1>1. DuplicateOf(o) \in RunIds \cup {None} /\ (keeps /\ DuplicateOf(o) = None) \in BOOLEAN
  BY DuplicateIsARun
<1>2. action.config \in Configs /\ action.rerun \in Commits \cup {None} /\ clock \in Nat
  BY ConstantsAssumption DEF TypeOK, Actions
<1> HIDE DEF DuplicateOf
<1> QED
  BY <1>1, <1>2 DEF Record, Rows, TypeOK

LEMMA CheckpointIsTyped ==
    ASSUME TypeOK, proc.result \in Outcomes
    PROVE  Checkpoint \in Checkpoints
BY ConstantsAssumption DEF Checkpoint, CheckpointMetric, Checkpoints, TypeOK

LEMMA StepTyped == ASSUME Typed, Timed, [Next]_vars PROVE Typed'
<1> USE DEF Typed
<1>1. clock \in Nat /\ MaxRuns \in Nat
  BY ConstantsAssumption DEF TypeOK
<1>2. ASSUME NEW r \in Rounds, NEW a \in Actions, Start(r, a), Idle PROVE Typed'
  <2>1. At("backtest") \in Processes /\ At("backtest").pc = "backtest"
    BY DEF At, Processes, Pcs
  <2> QED
    BY <1>2, <2>1 DEF Start, Idle, TypeOK
<1>3. round \in Rounds /\ 0 \in Rounds /\ action \in Actions
      /\ Action("baseline", Base, head) \in Actions /\ Action("baseline", Base, None) \in Actions
      /\ \A c \in Configs : Action("thesis", c, None) \in Actions
  BY ConstantsAssumption DEF TypeOK, Rounds, Actions, Action, Sources, Configs
<1>4. CASE ForceBaselineRerun \/ RunRetest \/ RepeatRerun \/ RunBaseline
  BY <1>2, <1>3, <1>4 DEF ForceBaselineRerun, RunRetest, RepeatRerun, RunBaseline, ToPlan
<1>5. CASE Research
  <2>1. round + 1 \in Rounds
    BY <1>5, ConstantsAssumption DEF Research, TypeOK, Rounds
  <2> QED
    BY <1>2, <1>3, <1>5, <2>1 DEF Research, ToPlan
<1>6. CASE FreshLaunch
  <2>1. job + 1 \in Jobs /\ 0 \in Rounds
    BY <1>6, ConstantsAssumption DEF FreshLaunch, TypeOK, Jobs, Rounds
  <2> QED
    BY <1>6, <2>1, NothingIsTyped DEF FreshLaunch, Idle, TypeOK
<1>7. CASE Deploy
  <2>1. faults' \in [deaths : 0 .. MaxDeaths, deploys : 0 .. MaxDeploys]
    BY <1>7, ConstantsAssumption DEF Deploy, TypeOK
  <2> QED
    BY <1>7, <2>1 DEF Deploy, Idle, TypeOK
<1>8. CASE Die
  <2>1. faults' \in [deaths : 0 .. MaxDeaths, deploys : 0 .. MaxDeploys]
    BY <1>8, ConstantsAssumption DEF Die, TypeOK
  <2> QED
    BY <1>8, <2>1, NothingIsTyped DEF Die, TypeOK
<1>9. OutputDirectory(round) \in RunIds
  BY DEF OutputDirectory, RunIds, TypeOK
<1>10. CASE BenchmarkRuns
  <2>1. PICK o \in Results :
          /\ known' = [known EXCEPT ![Setup] = o]
          /\ files' = [files EXCEPT ![OutputDirectory(round)] = Written(@, o)]
          /\ proc' = [At("ran") EXCEPT !.result = o]
    BY <1>10 DEF BenchmarkRuns
  <2>2. o \in Outcomes
    BY ResultsAreOutcomes
  <2>3. files' \in [RunIds -> [trades : TradesFiles, diagnostics : DiagnosticsFiles]]
    BY <1>9, <2>1, <2>2, WrittenIsTyped DEF TypeOK
  <2>4. proc' \in Processes /\ proc'.pc = "ran" /\ proc'.result = o
    BY <2>1, <2>2 DEF At, Processes, Pcs
  <2>5. clock' \in 0 .. MaxRuns
    BY <1>1, <1>10 DEF BenchmarkRuns
  <2>6. known' \in [Setups -> Outcomes \cup {None}]
    BY <2>1, <2>2 DEF TypeOK
  <2> QED
    BY <1>10, <2>2, <2>3, <2>4, <2>5, <2>6 DEF BenchmarkRuns, TypeOK
<1>11. CASE CommandFails
  <2>1. PICK o \in Results :
          /\ known' = [known EXCEPT ![Setup] = o]
          /\ \E left \in PartlyWritten(files[OutputDirectory(round)], o) :
                files' = [files EXCEPT ![OutputDirectory(round)] = left]
    BY <1>11 DEF CommandFails
  <2>2. o \in Outcomes
    BY ResultsAreOutcomes
  <2>3. files' \in [RunIds -> [trades : TradesFiles, diagnostics : DiagnosticsFiles]]
    BY <1>9, <2>1, <2>2, WrittenIsTyped DEF TypeOK
  <2>4. clock' \in 0 .. MaxRuns
    BY <1>1, <1>11 DEF CommandFails
  <2>5. known' \in [Setups -> Outcomes \cup {None}]
    BY <2>1, <2>2 DEF TypeOK
  <2> QED
    BY <1>11, <2>3, <2>4, <2>5, NothingIsTyped DEF CommandFails, Block, TypeOK
<1>12. CASE ResultUnreadable \/ MetricParseFails
  BY <1>12, NothingIsTyped DEF ResultUnreadable, MetricParseFails, Block, TypeOK
<1>13. CASE LogResult
  <2>1. PICK gap \in DiagnosticGaps, verdict \in Verdicts :
          /\ rows' = Add(Record(proc.result, Keeps(proc.result, gap, verdict)))
          /\ proc' = [proc EXCEPT !.pc = IF action.source = "baseline" THEN "logged"
                                         ELSE "finalize",
                                  !.retest = GoesToRetest(verdict)]
    BY <1>13 DEF LogResult
  <2>2. proc.result \in Outcomes
    BY <1>13 DEF LogResult
  <2>3. Keeps(proc.result, gap, verdict) \in BOOLEAN /\ GoesToRetest(verdict) \in BOOLEAN
    BY DEF Keeps, GoesToRetest
  <2>4. rows' \subseteq Rows
    BY <2>1, <2>2, <2>3, RecordIsARow DEF Add, TypeOK
  <2>5. proc' \in Processes /\ proc'.result = proc.result
    BY <2>1, <2>3 DEF TypeOK, Processes, Pcs
  <2>6. proc'.pc \in {"logged", "finalize"}
    BY <2>1 DEF TypeOK, Processes
  <2> QED
    BY <1>13, <2>2, <2>4, <2>5, <2>6 DEF LogResult, TypeOK
<1>14. CASE RecordInDatabase
  <2>1. DriftsNow \in BOOLEAN
    BY DEF DriftsNow, Drifts
  <2>2. proc' \in Processes /\ proc'.result = proc.result /\ proc'.pc = "stored"
    BY <1>14, <2>1 DEF RecordInDatabase, TypeOK, Processes, Pcs
  <2> QED
    BY <1>14, <2>2, CheckpointIsTyped DEF RecordInDatabase, WriteFirst, TypeOK
<1>15. CASE RecordInLedger
  <2>1. proc' \in Processes /\ proc'.pc = "recorded"
    BY <1>15 DEF RecordInLedger, TypeOK, Processes, Pcs
  <2> QED
    BY <1>15, <2>1, CheckpointIsTyped DEF RecordInLedger, TypeOK
<1>16. CASE ReportDrift
  <2>1. At("reported") \in Processes /\ At("reported").pc = "reported"
    BY DEF At, Processes, Pcs
  <2>2. drift' \in BOOLEAN
    BY <1>16 DEF ReportDrift
  <2> QED
    BY <1>16, <2>1, <2>2 DEF ReportDrift, TypeOK
<1>17. CASE ClearRerunRequest
  <2>1. At("finalize") \in Processes /\ At("finalize").pc = "finalize"
    BY DEF At, Processes, Pcs
  <2>2. action' \in Actions
    BY <1>17 DEF ClearRerunRequest, TypeOK, Actions
  <2> QED
    BY <1>17, <2>1, <2>2 DEF ClearRerunRequest, TypeOK
<1>18. CASE FinalizeRound
  <2>1. action' \in Actions
    BY <1>18, NothingIsTyped DEF FinalizeRound, TypeOK, Actions, Sources
  <2> QED
    BY <1>18, <2>1, NothingIsTyped DEF FinalizeRound, TypeOK
<1>19. CASE UNCHANGED vars
  BY <1>19 DEF vars, TypeOK
<1> QED
  BY <1>4, <1>5, <1>6, <1>7, <1>8, <1>10, <1>11, <1>12, <1>13, <1>14, <1>15, <1>16, <1>17, <1>18,
     <1>19 DEF Next

\* A step that logs no result changes no row, and one that executes no backtest no time.
Logs == /\ proc.pc = "ran" /\ proc'.pc # "ran"
        /\ UNCHANGED <<clock, ledger, job, round>>
        /\ \E keeps \in BOOLEAN :
              /\ keeps => Improves(proc.result.metric)
              /\ rows' = Add(Record(proc.result, keeps))

LEMMA RowsChangeByLogging == ASSUME TypeOK, [Next]_vars PROVE UNCHANGED rows \/ Logs
<1>1. CASE LogResult
  <2>1. PICK gap \in DiagnosticGaps, verdict \in Verdicts :
          /\ rows' = Add(Record(proc.result, Keeps(proc.result, gap, verdict)))
          /\ proc' = [proc EXCEPT !.pc = IF action.source = "baseline" THEN "logged"
                                         ELSE "finalize",
                                  !.retest = GoesToRetest(verdict)]
    BY <1>1 DEF LogResult
  <2>2. proc'.pc \in {"logged", "finalize"}
    BY <2>1 DEF TypeOK, Processes
  <2>3. /\ Keeps(proc.result, gap, verdict) \in BOOLEAN
        /\ Keeps(proc.result, gap, verdict) => Improves(proc.result.metric)
    BY DEF Keeps
  <2> QED
    BY <1>1, <2>1, <2>2, <2>3 DEF LogResult, Logs
<1> QED
  BY <1>1
  DEF Next, ForceBaselineRerun, RunRetest, RepeatRerun, RunBaseline, Research, Start, FreshLaunch,
      Deploy, Die, BenchmarkRuns, CommandFails, ResultUnreadable, MetricParseFails, Block,
      RecordInDatabase, RecordInLedger, ReportDrift, ClearRerunRequest, FinalizeRound, vars

LEMMA StepTimed == ASSUME Typed, Timed, [Next]_vars PROVE Timed'
<1>1. clock \in Nat
  BY ConstantsAssumption DEF Typed, TypeOK
<1>2. \A r \in rows : r.time \in Nat
  BY RowsAreNumbered DEF Typed, TypeOK
<1>3. CASE Logs
  <2>1. PICK keeps : rows' = Add(Record(proc.result, keeps))
    BY <1>3 DEF Logs
  <2>2. ASSUME NEW r \in rows' PROVE r \in rows \/ r = Record(proc.result, keeps)
    BY <2>1 DEF Add
  <2>3. Record(proc.result, keeps).time = clock
    BY DEF Record
  <2>4. \A r \in rows : r.time < clock
    BY <1>3 DEF Logs, Timed
  <2>5. \A r \in rows' : r.time <= clock
    BY <1>1, <1>2, <2>2, <2>3, <2>4
  <2>6. ASSUME NEW a \in rows', NEW b \in rows', a.time = b.time PROVE a = b
    BY <1>1, <1>2, <2>2, <2>3, <2>4, <2>6 DEF Timed
  <2> QED
    BY <1>3, <2>5, <2>6 DEF Logs, Timed
<1>4. CASE UNCHANGED <<rows, ledger>> /\ clock' = clock + 1
  <2>1. \A r \in rows : r.time <= clock' /\ r.time < clock'
    BY <1>1, <1>2, <1>4 DEF Timed
  <2>2. \A c \in ledger : c.time \in Nat
    BY DEF Typed, TypeOK, Checkpoints
  <2>3. \A c \in ledger : c.time <= clock'
    BY <1>1, <1>4, <2>2 DEF Timed
  <2> QED
    BY <1>4, <2>1, <2>3 DEF Timed
<1>5. CASE UNCHANGED <<rows, clock>> /\ ledger' \subseteq ledger \cup {Checkpoint}
           /\ (proc'.pc = "ran" => proc.pc = "ran")
  <2>1. Checkpoint.time = clock
    BY DEF Checkpoint
  <2> QED
    BY <1>1, <1>5, <2>1 DEF Timed
<1>6. CASE ForceBaselineRerun \/ RunRetest \/ RepeatRerun \/ RunBaseline \/ Research
  <2>1. proc' = At("backtest") /\ UNCHANGED <<rows, clock, ledger>>
    BY <1>6 DEF ForceBaselineRerun, RunRetest, RepeatRerun, RunBaseline, Research, Start
  <2> QED
    BY <1>5, <2>1 DEF At
<1>7. CASE FreshLaunch \/ Deploy
  BY <1>5, <1>7 DEF FreshLaunch, Deploy
<1>8. CASE Die \/ ResultUnreadable \/ MetricParseFails \/ FinalizeRound
  <2>1. proc' = At("idle") /\ UNCHANGED <<rows, clock, ledger>>
    BY <1>8 DEF Die, ResultUnreadable, MetricParseFails, Block, FinalizeRound
  <2> QED
    BY <1>5, <2>1 DEF At
<1>9. CASE BenchmarkRuns \/ CommandFails
  BY <1>4, <1>9 DEF BenchmarkRuns, CommandFails, Block
<1>10. CASE RecordInDatabase \/ RecordInLedger
  <2>1. UNCHANGED <<rows, clock>> /\ ledger' \subseteq ledger \cup {Checkpoint}
        /\ proc'.pc \in {"stored", "recorded"}
    BY <1>10 DEF RecordInDatabase, WriteFirst, RecordInLedger, Typed, TypeOK, Processes
  <2> QED
    BY <1>5, <2>1
<1>11. CASE ReportDrift \/ ClearRerunRequest
  <2>1. proc' \in {At("reported"), At("finalize")} /\ UNCHANGED <<rows, clock, ledger>>
    BY <1>11 DEF ReportDrift, ClearRerunRequest
  <2> QED
    BY <1>5, <2>1 DEF At
<1>12. CASE LogResult
  <2>1. CASE UNCHANGED rows
    <3>1. UNCHANGED <<clock, ledger>> /\ proc'.pc \in {"logged", "finalize"}
      BY <1>12 DEF LogResult, Typed, TypeOK, Processes
    <3> QED
      BY <1>5, <2>1, <3>1
  <2> QED
    BY <1>3, <2>1, RowsChangeByLogging DEF Typed
<1>13. CASE UNCHANGED vars
  BY <1>5, <1>13 DEF vars
<1> QED
  BY <1>6, <1>7, <1>8, <1>9, <1>10, <1>11, <1>12, <1>13 DEF Next

-----------------------------------------------------------------------------
(* Accepted runs.                                                          *)

Inv == Typed /\ Timed /\ AcceptedRunsImprove

LEMMA InitInv == Init => Inv
BY InitTyped DEF Inv, Init, AcceptedRunsImprove

LEMMA AcceptedRunsAreImproving ==
    ASSUME Inv, NEW j
    PROVE  /\ Accepted(j) \subseteq Rows /\ Improving(Accepted(j))
           /\ clock \in Nat /\ \A r \in Accepted(j) : r.time <= clock
BY ConstantsAssumption
DEF Inv, Typed, TypeOK, Timed, AcceptedRunsImprove, Accepted, RowsOf, Improving

\* What improves is better than every accepted run of its job.
LEMMA ImprovesOnAccepted ==
    ASSUME Inv, NEW metric \in Int, Improves(metric), NEW r \in Accepted(job)
    PROVE  r.outcome.metric < metric
<1>1. r \in RowsOf(job)
  BY DEF Accepted
<1>2. metric > BestKept(job)
  BY <1>1 DEF Improves
<1>3. BestKept(job) \in Int /\ r.outcome.metric <= BestKept(job)
  BY AcceptedRunsAreImproving, BestKeptIsBest
<1>4. r.outcome.metric \in Int
  BY AcceptedRunsAreImproving, RowsAreNumbered
<1> QED
  BY <1>2, <1>3, <1>4

LEMMA StepInv == ASSUME Inv, [Next]_vars PROVE Inv'
<1>1. Typed' /\ Timed'
  BY StepTyped, StepTimed DEF Inv
<1>2. CASE UNCHANGED rows
  BY <1>1, <1>2 DEF Inv, AcceptedRunsImprove
<1>3. CASE Logs
  <2>1. PICK keeps \in BOOLEAN : /\ keeps => Improves(proc.result.metric)
                                 /\ rows' = Add(Record(proc.result, keeps))
    BY <1>3 DEF Logs
  <2> DEFINE new == Record(proc.result, keeps)
  <2>2. /\ new.job = job /\ new.time = clock /\ new.outcome = proc.result
        /\ new.accepted => keeps
    BY DEF Record
  <2> HIDE DEF new
  <2>3. proc.result.metric \in Int
    BY <1>3, ConstantsAssumption DEF Logs, Inv, Typed
  <2>4. \A r \in rows : r.time \in Nat /\ r.time < clock
    BY <1>3, RowsAreNumbered DEF Logs, Inv, Timed, Typed, TypeOK
  <2>5. clock \in Nat
    BY ConstantsAssumption DEF Inv, Typed, TypeOK
  <2>6. ASSUME NEW a \in rows', NEW b \in rows',
               a.job = b.job, a.accepted, b.accepted, a.time < b.time
        PROVE  a.outcome.metric < b.outcome.metric
    <3>1. (a \in rows \/ a = new) /\ (b \in rows \/ b = new)
      BY <2>1 DEF Add, new
    <3>2. CASE a \in rows /\ b \in rows
      BY <2>6, <3>2 DEF Inv, AcceptedRunsImprove
    <3>3. CASE a \in rows /\ b = new
      <4>1. a \in Accepted(job)
        BY <2>2, <2>6, <3>3 DEF Accepted, RowsOf
      <4>2. Improves(proc.result.metric)
        BY <2>1, <2>2, <2>6, <3>3
      <4> QED
        BY <2>2, <2>3, <3>3, <4>1, <4>2, ImprovesOnAccepted
    <3>4. CASE a = new
      BY <2>2, <2>4, <2>5, <2>6, <3>1, <3>4
    <3> QED
      BY <3>1, <3>2, <3>3, <3>4
  <2> QED
    BY <1>1, <2>6 DEF Inv, AcceptedRunsImprove
<1> QED
  BY <1>2, <1>3, RowsChangeByLogging DEF Inv, Typed

LEMMA AlwaysInv == Spec => []Inv
BY InitInv, StepInv, PTL DEF Spec

\* The state, the records and the files keep their types; the times never pass the clock.
THEOREM TypeCorrect == Spec => []TypeOK
<1>1. Inv => TypeOK
  BY DEF Inv, Typed
<1> QED
  BY <1>1, AlwaysInv, PTL

\* evaluate_metric lets no run stand that is not better than all accepted before it.
THEOREM ImprovementTheorem == Spec => []AcceptedRunsImprove
<1>1. Inv => AcceptedRunsImprove
  BY DEF Inv
<1> QED
  BY <1>1, AlwaysInv, PTL

\* The JSON file of checkpoints is never ahead of the database.
THEOREM CheckpointTheorem == Spec => []CheckpointsAreStored
<1>1. Init => CheckpointsAreStored
  BY DEF Init, CheckpointsAreStored
<1>2. CheckpointsAreStored /\ [Next]_vars => CheckpointsAreStored'
  BY DEF CheckpointsAreStored, Next, ForceBaselineRerun, RunRetest, RepeatRerun, RunBaseline,
     Research, Start, FreshLaunch, Deploy, Die, BenchmarkRuns, CommandFails, ResultUnreadable,
     MetricParseFails, Block, LogResult, RecordInDatabase, WriteFirst, RecordInLedger,
     ReportDrift, ClearRerunRequest, FinalizeRound, vars
<1> QED
  BY <1>1, <1>2, PTL DEF Spec

-----------------------------------------------------------------------------
(* The best run.                                                           *)

LEMMA IndexedBest ==
    ASSUME Inv, NEW j, Accepted(j) # {}
    PROVE  IsBest(RoundIndex(j).best, Accepted(j))
<1>1. IsBest(BestOf(Accepted(j)), Accepted(j))
  BY AcceptedRunsAreImproving, BestOfIsBest
<1>2. RoundIndex(j).best = BestOf(Accepted(j))
  BY DEF RoundIndex
<1> QED
  BY <1>1, <1>2

LEMMA IndexedBestAfter ==
    ASSUME Inv', NEW j, Accepted(j)' # {}
    PROVE  IsBest(RoundIndex(j)'.best, Accepted(j)')
<1>1. /\ Accepted(j)' \subseteq Rows /\ Improving(Accepted(j)')
      /\ clock' \in Nat /\ \A r \in Accepted(j)' : r.time <= clock'
  BY ConstantsAssumption
  DEF Inv, Typed, TypeOK, Timed, AcceptedRunsImprove, Accepted, RowsOf, Improving
<1> DEFINE After == Accepted(j)'
<1>2. IsBest(BestOf(After), After)
  <2> HIDE DEF After
  <2>1. /\ After \subseteq Rows /\ Improving(After) /\ After # {}
        /\ clock' \in Nat /\ \A r \in After : r.time <= clock'
    BY <1>1 DEF After
  <2> QED
    BY <2>1, BestOfIsBest
<1>3. RoundIndex(j)'.best = BestOf(After)
  BY DEF RoundIndex
<1> QED
  BY <1>2, <1>3

\* The best run of a job is replaced by a better one, or by executing its round again.
THEOREM BestRunTheorem == Spec => OnlyRerunsLowerTheBest
<1>1. ASSUME Inv, Inv', [Next]_vars, NEW j \in Jobs, Accepted(j) # {}
      PROVE  \/ /\ RoundIndex(j)'.best # None
                /\ RoundIndex(j)'.best.outcome.metric >= RoundIndex(j).best.outcome.metric
             \/ RunId(RoundIndex(j).best) = Current /\ RoundIndex(j).best \notin rows'
  <2> DEFINE best == RoundIndex(j).best
             next == RoundIndex(j)'.best
  <2>1. best \in Accepted(j)
    BY <1>1, IndexedBest DEF IsBest
  <2>2. best \in rows /\ best.job = j /\ best.accepted
    BY <2>1 DEF Accepted, RowsOf
  <2>3. CASE best \in rows'
    <3>1. best \in Accepted(j)'
      BY <2>2, <2>3 DEF Accepted, RowsOf
    <3>2. IsBest(next, Accepted(j)')
      BY <1>1, <3>1, IndexedBestAfter
    <3> HIDE DEF best, next
    <3>3. next \in Accepted(j)'
          /\ (best.outcome.metric < next.outcome.metric
              \/ best.outcome.metric = next.outcome.metric)
      BY <3>1, <3>2 DEF IsBest
    <3>4. next \in Rows /\ best \in Rows
      BY <1>1, <2>3, <3>3 DEF Inv, Typed, TypeOK, Accepted, RowsOf
    <3>5. next # None /\ next.outcome.metric >= best.outcome.metric
      BY <3>3, <3>4, RowsAreNumbered, NoneIsNoRow
    <3> QED
      BY <3>5 DEF best, next
  <2>4. CASE best \notin rows'
    <3>1. Logs
      BY <1>1, <2>2, <2>4, RowsChangeByLogging DEF Inv, Typed
    <3>2. PICK keeps : rows' = Add(Record(proc.result, keeps))
      BY <3>1 DEF Logs
    <3>3. RunId(best) = RunId(Record(proc.result, keeps))
      BY <2>2, <2>4, <3>2 DEF Add
    <3>4. RunId(Record(proc.result, keeps)) = Current
      BY DEF RunId, Record, Current
    <3> QED
      BY <2>4, <3>3, <3>4
  <2> QED
    BY <2>3, <2>4
<1>2. Inv /\ Inv' /\ [Next]_vars =>
        [\A j \in Jobs :
          LET best == RoundIndex(j).best IN
          Accepted(j) # {} =>
              \/ RoundIndex(j)'.best # None
                 /\ RoundIndex(j)'.best.outcome.metric >= best.outcome.metric
              \/ RunId(best) = Current /\ best \notin rows']_vars
  BY <1>1
<1> QED
  BY <1>2, AlwaysInv, PTL DEF Spec, OnlyRerunsLowerTheBest
=============================================================================
