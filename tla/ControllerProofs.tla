-------------------------- MODULE ControllerProofs --------------------------
(***************************************************************************)
(* Consistent is an inductive invariant of Controller, for any commits,    *)
(* any MAX_RESEARCH_ROUNDS and any number of launches, crashes, deploys    *)
(* and losses; the safety properties follow from it, the commit of the     *)
(* research from one more invariant about the checkpoint.                  *)
(***************************************************************************)
EXTENDS Controller, TLAPS

\* An action built from typed parts has the type of an action.
LEMMA ActionType ==
    ASSUME NEW type \in ActionTypes, NEW source \in Sources, NEW thesis \in Nat,
           NEW rerun \in Commits \cup {NoCommit}
    PROVE  Action(type, source, thesis, rerun) \in NextActions
  BY DEF Action, NextActions, Thesis

\* An action without a source has the type of an action.
LEMMA PlainType ==
    ASSUME NEW type \in ActionTypes PROVE Plain(type) \in NextActions
  BY ActionType DEF Plain, Sources, NoThesis

\* A place of the process has the type of a process.
LEMMA AtType == ASSUME NEW pc \in Pcs PROVE At(pc) \in Processes
  BY DEF At, Processes, Answers

\* The builder remembers who called it.
LEMMA BuildType ==
    ASSUME NEW caller \in {"resolve", "research"}
    PROVE  [At("build") EXCEPT !.caller = caller] \in Processes
  BY DEF At, Processes, Pcs, Answers

\* A step that writes no table row leaves the tables in agreement.
LEMMA TablesKept ==
    ASSUME UNCHANGED <<runs, rounds>>
    PROVE  /\ TablesAgree => TablesAgree'
           /\ \A j, n : RoundIsKnown(j, n)' = RoundIsKnown(j, n)
           /\ \A j : BaselineRan(j)' = BaselineRan(j)
  BY DEF TablesAgree, RunRowsHaveRoundRow, RoundsAreConsecutive, RoundIsKnown, BaselineRan

\* A step that leaves the state file and the tables alone only moves the process.
LEMMA StateKept ==
    ASSUME Consistent, UNCHANGED <<st, runs, rounds>>, TypeOK', PlaceMatchesState'
    PROVE  Consistent'
<1>1. StateShape'
  BY DEF Consistent, StateShape, RunningCarriesNoBlockers, InProgressIsNextRound,
         Continues, CanRunCurrent, CanResume, InterruptedResumable, ResearchResumable,
         FailedRoundResumable, ManualReviewResumable, HaltedResumable,
         BuilderRunningResumable, ActionIsExecutable, ValidBacktestRequest,
         BlockedForResearch, HaltedHasRound, HasBlocker
<1>2. TablesAgree' /\ StateMatchesTables'
  BY TablesKept DEF Consistent, StateMatchesTables
<1> QED BY <1>1, <1>2 DEF Consistent

\* At these places the process knows nothing of the state but that it has a job.
LEMMA FreePlace ==
    ASSUME NEW pc \in {"idle", "resolve", "loop", "walkforward"}, proc' = At(pc),
           st'.job >= 1, st'.job \in Nat
    PROVE  PlaceMatchesState'
  BY DEF PlaceMatchesState, At, Idle

\* run_research preserves the invariant: the round it logs is the one in
\* progress, and whatever the conductor answers closes it.
LEMMA ResearchStep ==
    ASSUME Consistent, Research PROVE Consistent'
<1> USE ConstantsAssumption
<1> USE DEF Consistent, TypeOK, StateFile, Idle, NoThesis, HasBlocker, ResearchKinds
<1>0. RoundOver \in StateFile
  <2>1. NextRound \in Nat
    BY DEF NextRound
  <2>2. ASSUME NEW n \in Nat PROVE [st EXCEPT !.round = n, !.inProgress = 0] \in StateFile
    OBVIOUS
  <2> QED BY <2>1, <2>2 DEF RoundOver
<1>1. CASE FinishMaxRounds
  <2>1. st' \in StateFile
    BY <1>1, ActionType, PlainType DEF FinishMaxRounds, OnlyState
  <2>2. TypeOK'
    BY <1>1, <2>1, AtType DEF FinishMaxRounds, OnlyState, Goto, Pcs
  <2>3. StateShape'
    BY <1>1 DEF FinishMaxRounds, StateShape, RunningCarriesNoBlockers,
           InProgressIsNextRound, Continues, CanRunCurrent, CanResume,
           InterruptedResumable, ResearchResumable, FailedRoundResumable,
           FailedRoundKinds, ManualReviewResumable, HaltedResumable,
           BuilderRunningResumable, ActionIsExecutable, ValidBacktestRequest,
           BlockedForResearch, HaltedHasRound, PlaceMatchesState
  <2>4. TablesAgree' /\ StateMatchesTables'
    BY <1>1, TablesKept DEF FinishMaxRounds, OnlyState, StateMatchesTables,
           PlaceMatchesState
  <2>5. PlaceMatchesState'
    BY <1>1, TablesKept DEF FinishMaxRounds, OnlyState, PlaceMatchesState, Goto, At,
           NextRound, RoundsUsedUp
  <2> QED BY <2>2, <2>3, <2>4, <2>5
<1>2. CASE BeginRound
  <2> DEFINE row == [job |-> st.job, round |-> ConductorRound, thesis |-> NoThesis,
                     outcome |-> "in_progress"]
  <2>1. ConductorRound = NextRound /\ NextRound \in Nat /\ NextRound >= 1
    BY DEF ConductorRound, NextRound, StateShape, InProgressIsNextRound
  <2>2. /\ st' = [st EXCEPT !.inProgress = NextRound]
        /\ rounds' = IF \E r \in rounds : SameKey(r, row) THEN rounds ELSE rounds \cup {row}
        /\ runs' = runs
    BY <1>2, <2>1 DEF BeginRound
  <2>3. /\ \E r \in rounds' : r.job = st.job /\ r.round = NextRound
        /\ rounds \subseteq rounds' /\ rounds' \subseteq rounds \cup {row}
    <3>1. CASE \E r \in rounds : SameKey(r, row)
      BY <2>1, <2>2, <3>1 DEF SameKey
    <3>2. CASE ~ \E r \in rounds : SameKey(r, row)
      <4>1. rounds' = rounds \cup {row} /\ row.job = st.job /\ row.round = NextRound
        BY <2>1, <2>2, <3>2
      <4> QED BY <4>1
    <3> QED BY <3>1, <3>2
  <2>4. row \in RoundRows
    BY <2>1 DEF RoundRows, Thesis
  <2>5. TypeOK'
    <3>1. st' \in StateFile
      BY <2>1, <2>2
    <3> QED BY <1>2, <2>2, <2>3, <2>4, <3>1, AtType DEF BeginRound, Goto, Pcs
  <2>6. StateShape'
    BY <2>1, <2>2 DEF NextRound, StateShape, RunningCarriesNoBlockers,
           InProgressIsNextRound, Continues, CanRunCurrent, CanResume,
           InterruptedResumable, ResearchResumable, FailedRoundResumable,
           FailedRoundKinds, ManualReviewResumable, HaltedResumable,
           BuilderRunningResumable, ActionIsExecutable, ValidBacktestRequest,
           BlockedForResearch, HaltedHasRound, PlaceMatchesState
  <2>7. TablesAgree'
    <3>1. NextRound \in 1..MaxRounds
      BY <1>2, <2>1 DEF BeginRound, RoundsUsedUp
    <3>2. row.job = st.job /\ row.round = NextRound
      BY <2>1
    <3>3. RoundIsKnown(st.job, NextRound - 1) \/ NextRound = 1
      BY <2>1 DEF NextRound, StateMatchesTables
    <3>4. RoundsAreConsecutive'
      <4> SUFFICES ASSUME NEW q \in rounds'
                   PROVE  /\ q.round \in 1..MaxRounds
                          /\ \/ q.round = 1
                             \/ \E p \in rounds' : p.job = q.job /\ p.round = q.round - 1
        BY DEF RoundsAreConsecutive, RoundIsKnown
      <4>1. CASE q \in rounds
        BY <2>3, <4>1 DEF TablesAgree, RoundsAreConsecutive, RoundIsKnown
      <4>2. CASE q = row
        BY <2>3, <3>1, <3>2, <3>3, <4>2 DEF RoundIsKnown
      <4> QED BY <2>3, <4>1, <4>2
    <3>5. RunRowsHaveRoundRow' /\ (\A r \in runs' : BaselineRan(r.job)')
      BY <2>2, <2>3 DEF TablesAgree, RunRowsHaveRoundRow, RoundIsKnown, BaselineRan
    <3> QED BY <3>4, <3>5 DEF TablesAgree
  <2>8. StateMatchesTables' /\ PlaceMatchesState'
    BY <1>2, <2>1, <2>2, <2>3 DEF BeginRound, RoundsUsedUp, NextRound,
           StateMatchesTables, PlaceMatchesState, BaselineRan, RoundIsKnown, Goto, At
  <2> QED BY <2>5, <2>6, <2>7, <2>8
<1>3. ASSUME NEW answer \in Answers \ {"none"}, LogResearchRound(answer) PROVE Consistent'
  <2> DEFINE row == [job |-> st.job, round |-> NextRound, thesis |-> theses + 1,
                     outcome |-> answer]
  <2>1. NextRound \in Nat /\ NextRound >= 1 /\ NextRound =< MaxRounds
    BY <1>3 DEF LogResearchRound, PlaceMatchesState, RoundsUsedUp, NextRound
  <2>2. rounds' = Upsert(rounds, row) /\ runs' = runs /\ st' = st
    BY <1>3 DEF LogResearchRound
  <2>3. row \in RoundRows
    BY <2>1 DEF RoundRows, Thesis, Answers
  <2>4. TypeOK'
    <3>1. [At("answered") EXCEPT !.answer = answer] \in Processes
      BY <1>3 DEF At, Processes, Pcs
    <3>2. rounds' \subseteq RoundRows
      BY <2>2, <2>3 DEF Upsert
    <3> QED BY <1>3, <2>2, <3>1, <3>2 DEF LogResearchRound
  <2>5. /\ \A j, n : RoundIsKnown(j, n) => \E q \in rounds' : q.job = j /\ q.round = n
        /\ \E q \in rounds' : q.job = st.job /\ q.round = NextRound
        /\ \A q \in rounds' : q \in rounds \/ q = row
    <3>1. row \in rounds' /\ row.job = st.job /\ row.round = NextRound
      BY <2>2 DEF Upsert
    <3>2. ASSUME NEW q \in rounds
          PROVE  \E p \in rounds' : p.job = q.job /\ p.round = q.round
      BY <2>2, <3>1 DEF Upsert, SameKey
    <3> QED BY <2>2, <3>1, <3>2 DEF Upsert, RoundIsKnown
  <2>6. TablesAgree'
    <3>1. row.job = st.job /\ row.round = NextRound
      OBVIOUS
    <3>2. RoundIsKnown(st.job, NextRound - 1) \/ NextRound = 1
      BY <2>1 DEF NextRound, StateMatchesTables
    <3>3. RoundsAreConsecutive'
      <4> SUFFICES ASSUME NEW q \in rounds'
                   PROVE  /\ q.round \in 1..MaxRounds
                          /\ \/ q.round = 1
                             \/ \E p \in rounds' : p.job = q.job /\ p.round = q.round - 1
        BY DEF RoundsAreConsecutive, RoundIsKnown
      <4>1. CASE q \in rounds
        BY <2>5, <4>1 DEF TablesAgree, RoundsAreConsecutive
      <4>2. CASE q = row
        BY <2>1, <2>5, <3>1, <3>2, <4>2
      <4> QED BY <2>5, <4>1, <4>2
    <3>4. RunRowsHaveRoundRow' /\ (\A r \in runs' : BaselineRan(r.job)')
      <4>1. \A r \in runs : r.round >= 1 => RoundIsKnown(r.job, r.round)'
        BY <2>5 DEF TablesAgree, RunRowsHaveRoundRow, RoundIsKnown
      <4> QED BY <2>2, <4>1 DEF TablesAgree, RunRowsHaveRoundRow, BaselineRan
    <3> QED BY <3>3, <3>4 DEF TablesAgree
  <2>7. StateShape'
    BY <2>2 DEF StateShape, RunningCarriesNoBlockers, InProgressIsNextRound, Continues,
           CanRunCurrent, CanResume, InterruptedResumable, ResearchResumable,
           FailedRoundResumable, FailedRoundKinds, ManualReviewResumable,
           HaltedResumable, BuilderRunningResumable, ActionIsExecutable,
           ValidBacktestRequest, BlockedForResearch, HaltedHasRound, PlaceMatchesState
  <2>8. StateMatchesTables' /\ PlaceMatchesState'
    BY <1>3, <2>2, <2>5 DEF LogResearchRound, StateMatchesTables, PlaceMatchesState,
           BaselineRan, RoundIsKnown, RoundsUsedUp, NextRound, At
  <2> QED BY <2>4, <2>6, <2>7, <2>8
<1>4. CASE HandleNeedsCode
  <2>1. st' \in StateFile
    BY <1>4, <1>0 DEF HandleNeedsCode, Thesis, RoundOver
  <2>2. TypeOK'
    BY <1>4, <2>1, BuildType DEF HandleNeedsCode, RoundOver, OnlyState, Goto, Pcs
  <2>3. StateShape'
    BY <1>4 DEF HandleNeedsCode, RoundOver, NextRound, Plain, Action, StateShape,
           RunningCarriesNoBlockers, InProgressIsNextRound, Continues, CanRunCurrent,
           CanResume, InterruptedResumable, ResearchResumable, FailedRoundResumable,
           FailedRoundKinds, ManualReviewResumable, HaltedResumable,
           BuilderRunningResumable, ActionIsExecutable, ValidBacktestRequest,
           BlockedForResearch, HaltedHasRound, PlaceMatchesState
  <2>4. TablesAgree' /\ StateMatchesTables'
    BY <1>4, TablesKept DEF HandleNeedsCode, RoundOver, OnlyState, NextRound,
           StateMatchesTables, PlaceMatchesState
  <2>5. PlaceMatchesState'
    BY <1>4, TablesKept DEF HandleNeedsCode, RoundOver, OnlyState, Action, Plain,
           PlaceMatchesState, Goto, At, NextRound, RoundsUsedUp
  <2> QED BY <2>2, <2>3, <2>4, <2>5
<1>5. CASE HandleSuccess
  <2>1. st' \in StateFile
    <3>1. Action("run_round", "research_conductor", theses, NoCommit) \in NextActions
      BY ActionType DEF ActionTypes, Sources
    <3> QED BY <1>5, <1>0, <3>1 DEF HandleSuccess
  <2>2. TypeOK'
    BY <1>5, <2>1, AtType DEF HandleSuccess, RoundOver, OnlyState, Goto, Pcs
  <2>3. StateShape'
    BY <1>5 DEF HandleSuccess, RoundOver, NextRound, Plain, Action, StateShape,
           RunningCarriesNoBlockers, InProgressIsNextRound, Continues, CanRunCurrent,
           CanResume, InterruptedResumable, ResearchResumable, FailedRoundResumable,
           FailedRoundKinds, ManualReviewResumable, HaltedResumable,
           BuilderRunningResumable, ActionIsExecutable, ValidBacktestRequest,
           BlockedForResearch, HaltedHasRound, PlaceMatchesState
  <2>4. TablesAgree' /\ StateMatchesTables'
    BY <1>5, TablesKept DEF HandleSuccess, RoundOver, OnlyState, NextRound,
           StateMatchesTables, PlaceMatchesState
  <2>5. PlaceMatchesState'
    BY <1>5, TablesKept DEF HandleSuccess, RoundOver, OnlyState, Action, Plain,
           PlaceMatchesState, Goto, At, NextRound, RoundsUsedUp
  <2> QED BY <2>2, <2>3, <2>4, <2>5
<1>6. CASE HandleCompletedWithoutConfig
  <2>1. st' \in StateFile
    <3>1. Plain("research") \in NextActions /\ {"research_required"} \in SUBSET BlockerKinds
      BY PlainType DEF ActionTypes, BlockerKinds
    <3> QED BY <1>6, <1>0, <3>1 DEF HandleCompletedWithoutConfig
  <2>2. TypeOK'
    BY <1>6, <2>1, AtType DEF HandleCompletedWithoutConfig, RoundOver, OnlyState, Goto, Pcs
  <2>3. StateShape'
    BY <1>6 DEF HandleCompletedWithoutConfig, RoundOver, NextRound, Plain, Action,
           StateShape, RunningCarriesNoBlockers, InProgressIsNextRound, Continues,
           CanRunCurrent, CanResume, InterruptedResumable, ResearchResumable,
           FailedRoundResumable, FailedRoundKinds, ManualReviewResumable,
           HaltedResumable, BuilderRunningResumable, ActionIsExecutable,
           ValidBacktestRequest, BlockedForResearch, HaltedHasRound, PlaceMatchesState
  <2>4. TablesAgree' /\ StateMatchesTables'
    BY <1>6, TablesKept DEF HandleCompletedWithoutConfig, RoundOver, OnlyState,
           NextRound, StateMatchesTables, PlaceMatchesState
  <2>5. PlaceMatchesState'
    BY <1>6, TablesKept DEF HandleCompletedWithoutConfig, RoundOver, OnlyState, Action,
           Plain, PlaceMatchesState, Goto, At, NextRound, RoundsUsedUp
  <2> QED BY <2>2, <2>3, <2>4, <2>5
<1>7. CASE HandleRoundFailure
  <2>1. st' \in StateFile
    <3>1. Plain("terminated") \in NextActions /\ {"research_failed"} \in SUBSET BlockerKinds
      BY PlainType DEF ActionTypes, BlockerKinds
    <3> QED BY <1>7, <1>0, <3>1 DEF HandleRoundFailure
  <2>2. TypeOK'
    BY <1>7, <2>1, AtType DEF HandleRoundFailure, RoundOver, OnlyState, Goto, Pcs
  <2>3. StateShape'
    BY <1>7 DEF HandleRoundFailure, RoundOver, NextRound, Plain, Action, StateShape,
           RunningCarriesNoBlockers, InProgressIsNextRound, Continues, CanRunCurrent,
           CanResume, InterruptedResumable, ResearchResumable, FailedRoundResumable,
           FailedRoundKinds, ManualReviewResumable, HaltedResumable,
           BuilderRunningResumable, ActionIsExecutable, ValidBacktestRequest,
           BlockedForResearch, HaltedHasRound, PlaceMatchesState
  <2>4. TablesAgree' /\ StateMatchesTables'
    BY <1>7, TablesKept DEF HandleRoundFailure, RoundOver, OnlyState, NextRound,
           StateMatchesTables, PlaceMatchesState
  <2>5. PlaceMatchesState'
    BY <1>7, TablesKept DEF HandleRoundFailure, RoundOver, OnlyState, Action, Plain,
           PlaceMatchesState, Goto, At, NextRound, RoundsUsedUp
  <2> QED BY <2>2, <2>3, <2>4, <2>5
<1> QED BY <1>1, <1>2, <1>3, <1>4, <1>5, <1>6, <1>7 DEF Research

\* So does every launch: a resume keeps the job and rewinds at most one round.
LEMMA LaunchStep ==
    ASSUME Consistent, Operator PROVE Consistent'
<1> USE ConstantsAssumption
<1> USE DEF Consistent, TypeOK, StateFile, Idle, NoThesis, HasBlocker, ResearchKinds
<1>1. CASE FreshLaunch
  <2>1. PICK job \in {k + 1 : k \in JobsSeen} : st' = FreshLaunchState(job)
    BY <1>1 DEF FreshLaunch
  <2>2. job \in Nat /\ job >= 1
    <3>1. JobsSeen \subseteq Nat
      <4>1. \A r \in runs : r.job \in Nat
        BY DEF RunRows
      <4>2. \A r \in rounds : r.job \in Nat
        BY DEF RoundRows
      <4> QED BY <4>1, <4>2 DEF JobsSeen
    <3> QED BY <3>1
  <2>3. TypeOK'
    <3>1. Plain("none") \in NextActions
      BY PlainType DEF ActionTypes
    <3>2. st' \in StateFile
      BY <2>1, <2>2, <3>1 DEF FreshLaunchState, Thesis
    <3> QED BY <1>1, <3>2, AtType DEF FreshLaunch, Launch, EnterOrPrepare, Exit, Goto, Pcs
  <2>4. StateShape'
    BY <2>1, <2>2 DEF FreshLaunchState, Plain, Action, StateShape,
           RunningCarriesNoBlockers, InProgressIsNextRound, Continues, CanRunCurrent,
           CanResume, InterruptedResumable, ResearchResumable, FailedRoundResumable,
           FailedRoundKinds, ManualReviewResumable, HaltedResumable,
           BuilderRunningResumable, ActionIsExecutable, ValidBacktestRequest,
           BlockedForResearch, HaltedHasRound, PlaceMatchesState
  <2>5. TablesAgree' /\ StateMatchesTables'
    BY <1>1, <2>1, TablesKept DEF FreshLaunch, Launch, FreshLaunchState, StateMatchesTables
  <2>6. PlaceMatchesState'
    BY <1>1, <2>1, <2>2, FreePlace DEF FreshLaunch, EnterOrPrepare, Exit, Goto,
           FreshLaunchState
  <2> QED BY <2>3, <2>4, <2>5, <2>6
<1>2. CASE ResumeInterruptedResearch
  <2>1. st' \in StateFile
    <3>1. Plain("research") \in NextActions /\ {"research_required"} \in SUBSET BlockerKinds
      BY PlainType DEF ActionTypes, BlockerKinds
    <3>2. RetryFromRound \in Nat
      BY DEF RetryFromRound
    <3> QED BY <1>2, <3>1, <3>2 DEF ResumeInterruptedResearch
  <2>2. TypeOK'
    BY <1>2, <2>1, AtType DEF ResumeInterruptedResearch, Launch, EnterOrPrepare, Exit,
           Goto, Pcs
  <2>3. StateShape'
    BY <1>2 DEF ResumeInterruptedResearch, RetryFromRound, Plain, Action, StateShape,
           RunningCarriesNoBlockers, InProgressIsNextRound, Continues, CanRunCurrent,
           CanResume, InterruptedResumable, ResearchResumable, FailedRoundResumable,
           FailedRoundKinds, ManualReviewResumable, HaltedResumable,
           BuilderRunningResumable, ActionIsExecutable, ValidBacktestRequest,
           BlockedForResearch, HaltedHasRound, PlaceMatchesState
  <2>4. TablesAgree' /\ StateMatchesTables'
    BY <1>2, TablesKept DEF ResumeInterruptedResearch, Launch, EnterOrPrepare, Exit,
           RetryFromRound, TablesAgree, RoundsAreConsecutive, RoundIsKnown,
           StateMatchesTables, PlaceMatchesState
  <2>5. PlaceMatchesState'
    <3>1. st'.job \in Nat /\ st'.job >= 1
      BY <1>2, <2>1 DEF ResumeInterruptedResearch, InterruptedResumable, PlaceMatchesState
    <3> QED BY <1>2, <3>1, FreePlace DEF ResumeInterruptedResearch, Launch,
                   EnterOrPrepare, Exit, Goto
  <2> QED BY <2>2, <2>3, <2>4, <2>5
<1>3. CASE ResumeBlockedResearch
  <2>1. TypeOK'
    BY <1>3, AtType DEF ResumeBlockedResearch, Launch, EnterOrPrepare, Exit, Pcs, Goto
  <2>2. PlaceMatchesState'
    BY <1>3, FreePlace DEF ResumeBlockedResearch, Launch, EnterOrPrepare, Exit,
           ResearchResumable, PlaceMatchesState, Goto
  <2> QED BY <1>3, <2>1, <2>2, StateKept DEF ResumeBlockedResearch, Launch,
                 EnterOrPrepare, Exit
<1>4. CASE ResumeRunning
  <2>1. st' \in StateFile
    <3>1. Plain("none") \in NextActions
      BY PlainType DEF ActionTypes
    <3> QED BY <1>4, <3>1 DEF ResumeRunning, FreshLaunchState, Thesis
  <2>2. TypeOK'
    BY <1>4, <2>1, AtType DEF ResumeRunning, Launch, EnterOrPrepare, Exit, Goto, Pcs
  <2>3. StateShape'
    BY <1>4 DEF ResumeRunning, FreshLaunchState, Plain, Action, StateShape,
           RunningCarriesNoBlockers, InProgressIsNextRound, Continues, CanRunCurrent,
           CanResume, InterruptedResumable, ResearchResumable, FailedRoundResumable,
           FailedRoundKinds, ManualReviewResumable, HaltedResumable,
           BuilderRunningResumable, ActionIsExecutable, ValidBacktestRequest,
           BlockedForResearch, HaltedHasRound, PlaceMatchesState
  <2>4. TablesAgree' /\ StateMatchesTables'
    BY <1>4, TablesKept DEF ResumeRunning, Launch, EnterOrPrepare, Exit,
           FreshLaunchState, StateMatchesTables, PlaceMatchesState
  <2>5. PlaceMatchesState'
    <3>1. st'.job \in Nat /\ st'.job >= 1
      BY <1>4, <2>1 DEF ResumeRunning, FreshLaunchState, FailedRoundResumable,
             ManualReviewResumable, HaltedResumable, BuilderRunningResumable,
             PlaceMatchesState
    <3> QED BY <1>4, <3>1, FreePlace DEF ResumeRunning, Launch, EnterOrPrepare, Exit, Goto
  <2> QED BY <2>2, <2>3, <2>4, <2>5
<1>5. CASE RunCurrentState
  <2>1. TypeOK'
    BY <1>5, AtType DEF RunCurrentState, Launch, CanRunCurrent, Pcs, Goto
  <2>2. PlaceMatchesState'
    BY <1>5, FreePlace DEF RunCurrentState, Launch, CanRunCurrent, PlaceMatchesState, Goto
  <2> QED BY <1>5, <2>1, <2>2, StateKept DEF RunCurrentState, Launch, CanRunCurrent
<1> QED BY <1>1, <1>2, <1>3, <1>4, <1>5 DEF Operator

\* A crash, a deploy and a lost state file leave the tables in agreement.
LEMMA EnvironmentStep ==
    ASSUME Consistent, Environment PROVE Consistent'
<1> USE ConstantsAssumption
<1> USE DEF Consistent, TypeOK, StateFile, Idle, NoThesis, HasBlocker, ResearchKinds
<1>1. CASE Crash
  <2>1. TypeOK'
    BY <1>1, AtType DEF Crash, durable, Exit, Pcs, Goto
  <2>2. PlaceMatchesState'
    BY <1>1 DEF Crash, durable, Exit, Goto, At, PlaceMatchesState, NextRound,
           RoundsUsedUp, BaselineRan, RoundIsKnown
  <2> QED BY <1>1, <2>1, <2>2, StateKept DEF Crash, durable, Exit
<1>2. CASE Deploy
  <2>1. TypeOK'
    BY <1>2, AtType DEF Deploy, Idle, Pcs, Goto
  <2>2. PlaceMatchesState'
    BY <1>2 DEF Deploy, Idle, Goto, At, PlaceMatchesState, NextRound, RoundsUsedUp,
           BaselineRan, RoundIsKnown
  <2> QED BY <1>2, <2>1, <2>2, StateKept DEF Deploy, Idle
<1>3. CASE LoseStateFile
  <2>1. st' \in StateFile
    <3>1. Plain("none") \in NextActions
      BY PlainType DEF ActionTypes
    <3> QED BY <1>3, <3>1 DEF LoseStateFile, MissingState, FreshLaunchState, Thesis
  <2>2. TypeOK'
    BY <1>3, <2>1, AtType DEF LoseStateFile, Idle, Goto, Pcs
  <2>3. StateShape'
    BY <1>3 DEF LoseStateFile, MissingState, FreshLaunchState, Plain, Action,
           StateShape, RunningCarriesNoBlockers, InProgressIsNextRound, Continues,
           CanRunCurrent, CanResume, InterruptedResumable, ResearchResumable,
           FailedRoundResumable, FailedRoundKinds, ManualReviewResumable,
           HaltedResumable, BuilderRunningResumable, ActionIsExecutable,
           ValidBacktestRequest, BlockedForResearch, HaltedHasRound, PlaceMatchesState
  <2>4. TablesAgree' /\ StateMatchesTables'
    BY <1>3, TablesKept DEF LoseStateFile, Idle, MissingState, FreshLaunchState,
           StateMatchesTables, PlaceMatchesState
  <2>5. PlaceMatchesState'
    BY <1>3, TablesKept DEF LoseStateFile, Idle, MissingState, FreshLaunchState, Plain,
           Action, PlaceMatchesState, Goto, At, NextRound, RoundsUsedUp
  <2> QED BY <2>2, <2>3, <2>4, <2>5
<1> QED BY <1>1, <1>2, <1>3 DEF Environment

\* Whatever plan_next_action decides fits the tables, and what it leaves to run
\* is a backtest or a walkforward.
LEMMA PlanStep ==
    ASSUME Consistent, PlanNextAction, UNCHANGED <<runs, rounds>>, st.job >= 1
    PROVE  /\ st' \in StateFile /\ st'.job = st.job
           /\ StateShape' /\ TablesAgree' /\ StateMatchesTables'
           /\ st'.state = "running" => st'.action.type \in {"run_round", "walkforward"}
           /\ st'.state = "blocked" /\ HasBlocker(ResearchKinds)' => BaselineRan(st.job)
<1> USE ConstantsAssumption
<1> USE DEF Consistent, TypeOK, StateFile, Idle, NoThesis, HasBlocker, ResearchKinds
<1>1. TablesAgree'
  BY TablesKept
<1>2. Results(st.job) # {} => BaselineRan(st.job)
  BY DEF Results, TablesAgree
<1>3. Results(st.job) = {} => st.round = 0 /\ st.inProgress = 0 /\ st.halted = NoThesis
  BY DEF Results, StateMatchesTables, BaselineRan, StateShape, HaltedHasRound
<1>4. CASE st' = FinishedState
  <2>1. Plain("terminated") \in NextActions
    BY PlainType DEF ActionTypes
  <2>2. st' \in StateFile
    BY <1>4, <2>1 DEF FinishedState
  <2>3. StateShape'
    BY <1>4 DEF FinishedState, Plain, Action, StateShape, RunningCarriesNoBlockers,
           InProgressIsNextRound, Continues, CanRunCurrent, CanResume,
           InterruptedResumable, ResearchResumable, FailedRoundResumable,
           FailedRoundKinds, ManualReviewResumable, HaltedResumable,
           BuilderRunningResumable, ActionIsExecutable, ValidBacktestRequest,
           BlockedForResearch, HaltedHasRound, PlaceMatchesState
  <2> QED BY <1>1, <1>4, <2>2, <2>3, TablesKept DEF FinishedState,
                 StateMatchesTables, BaselineRan, RoundIsKnown
<1>5. CASE st' = st /\ st.action.rerun # NoCommit
  <2>1. StateShape'
    BY <1>5 DEF StateShape, RunningCarriesNoBlockers, InProgressIsNextRound, Continues,
           CanRunCurrent, CanResume, InterruptedResumable, ResearchResumable,
           FailedRoundResumable, FailedRoundKinds, ManualReviewResumable,
           HaltedResumable, BuilderRunningResumable, ActionIsExecutable,
           ValidBacktestRequest, BlockedForResearch, HaltedHasRound, PlaceMatchesState
  <2>2. st.action.type = "run_round"
    BY <1>5 DEF StateShape, ActionIsExecutable
  <2> QED BY <1>1, <1>5, <2>1, <2>2, TablesKept DEF StateShape,
                 BlockedForResearch, StateMatchesTables, BaselineRan, RoundIsKnown
<1>6. CASE Results(st.job) = {} /\ st' = BaselineState
  <2>1. BaselineAction(NoCommit) \in NextActions
    BY ActionType DEF BaselineAction, ActionTypes, Sources
  <2>2. st' \in StateFile
    BY <1>6, <2>1 DEF BaselineState
  <2>3. StateShape'
    <3>1. /\ st'.state = "running" /\ st'.blockers = {} /\ st'.job = st.job
          /\ st'.round = 0 /\ st'.inProgress = 0 /\ st'.halted = NoThesis
          /\ st'.action = BaselineAction(NoCommit)
      BY <1>3, <1>6 DEF BaselineState
    <3>2. Continues'
      BY <3>1 DEF Continues, CanRunCurrent
    <3>3. ActionIsExecutable'
      BY <3>1 DEF BaselineAction, Action, ActionIsExecutable, ValidBacktestRequest
    <3>4. /\ RunningCarriesNoBlockers' /\ InProgressIsNextRound'
          /\ BlockedForResearch' /\ HaltedHasRound'
      BY <3>1 DEF RunningCarriesNoBlockers, InProgressIsNextRound, BlockedForResearch,
             HaltedHasRound
    <3> QED BY <3>2, <3>3, <3>4 DEF StateShape
  <2> QED BY <1>1, <1>3, <1>6, <2>2, <2>3 DEF BaselineState, BaselineAction,
                 Action, StateMatchesTables, BaselineRan, RoundIsKnown
<1>7. CASE Results(st.job) # {} /\ st' = ResearchState
  <2>1. Plain("research") \in NextActions /\ {"research_required"} \in SUBSET BlockerKinds
    BY PlainType DEF ActionTypes, BlockerKinds
  <2>2. st' \in StateFile
    BY <1>7, <2>1 DEF ResearchState
  <2>3. StateShape'
    BY <1>7 DEF ResearchState, Plain, Action, StateShape, RunningCarriesNoBlockers,
           InProgressIsNextRound, Continues, CanRunCurrent, CanResume,
           InterruptedResumable, ResearchResumable, FailedRoundResumable,
           FailedRoundKinds, ManualReviewResumable, HaltedResumable,
           BuilderRunningResumable, ActionIsExecutable, ValidBacktestRequest,
           BlockedForResearch, HaltedHasRound, PlaceMatchesState
  <2> QED BY <1>1, <1>2, <1>7, <2>2, <2>3 DEF ResearchState, StateMatchesTables,
                 BaselineRan, RoundIsKnown
<1>8. CASE Results(st.job) # {} /\ st' = WalkforwardState
  <2>1. Plain("walkforward") \in NextActions
    BY PlainType DEF ActionTypes
  <2>2. st' \in StateFile
    BY <1>8, <2>1 DEF WalkforwardState
  <2>3. StateShape'
    BY <1>8 DEF WalkforwardState, Plain, Action, StateShape, RunningCarriesNoBlockers,
           InProgressIsNextRound, Continues, CanRunCurrent, CanResume,
           InterruptedResumable, ResearchResumable, FailedRoundResumable,
           FailedRoundKinds, ManualReviewResumable, HaltedResumable,
           BuilderRunningResumable, ActionIsExecutable, ValidBacktestRequest,
           BlockedForResearch, HaltedHasRound, PlaceMatchesState
  <2> QED BY <1>1, <1>8, <2>2, <2>3 DEF WalkforwardState, Plain, Action,
                 StateMatchesTables, BaselineRan, RoundIsKnown
<1> QED BY <1>4, <1>5, <1>6, <1>7, <1>8 DEF PlanNextAction

\* resolve_next_action and the dispatch hand on a state their branch can execute.
LEMMA ResolveStep ==
    ASSUME Consistent, Resolve PROVE Consistent'
<1> USE ConstantsAssumption
<1> USE DEF Consistent, TypeOK, StateFile, Idle, NoThesis, HasBlocker, ResearchKinds
<1>1. CASE ForceBaselineRerun
  <2>1. st' \in StateFile
    <3>1. BaselineAction(commit) \in NextActions
      BY ActionType DEF BaselineAction, ActionTypes, Sources
    <3> QED BY <1>1, <3>1 DEF ForceBaselineRerun, Thesis
  <2>2. TypeOK'
    BY <1>1, <2>1, AtType DEF ForceBaselineRerun, OnlyState, Goto, Pcs
  <2>3. StateShape'
    BY <1>1 DEF ForceBaselineRerun, BaselineAction, Action, StateShape,
           RunningCarriesNoBlockers, InProgressIsNextRound, Continues, CanRunCurrent,
           CanResume, InterruptedResumable, ResearchResumable, FailedRoundResumable,
           FailedRoundKinds, ManualReviewResumable, HaltedResumable,
           BuilderRunningResumable, ActionIsExecutable, ValidBacktestRequest,
           BlockedForResearch, HaltedHasRound, PlaceMatchesState
  <2>4. TablesAgree' /\ StateMatchesTables'
    BY <1>1, TablesKept DEF ForceBaselineRerun, OnlyState, StateMatchesTables,
           PlaceMatchesState
  <2>5. PlaceMatchesState'
    BY <1>1, TablesKept DEF ForceBaselineRerun, OnlyState, BaselineAction, Action,
           PlaceMatchesState, Goto, At, NextRound, RoundsUsedUp
  <2> QED BY <2>2, <2>3, <2>4, <2>5
<1>2. CASE KeepRetest
  <2>1. TypeOK'
    BY <1>2, AtType DEF KeepRetest, RetestPending, OnlyState, StateShape,
           ActionIsExecutable, Pcs, Goto
  <2>2. PlaceMatchesState'
    BY <1>2 DEF KeepRetest, RetestPending, OnlyState, StateShape, ActionIsExecutable,
           Goto, At, PlaceMatchesState, NextRound, RoundsUsedUp, BaselineRan,
           RoundIsKnown
  <2> QED BY <1>2, <2>1, <2>2, StateKept DEF KeepRetest, RetestPending, OnlyState,
                 StateShape, ActionIsExecutable
<1>3. CASE ReconcileState
  <2>1. st.job >= 1 /\ UNCHANGED <<runs, rounds>> /\ PlanNextAction
    BY <1>3 DEF ReconcileState, OnlyState, PlaceMatchesState
  <2>3. /\ st' \in StateFile /\ st'.job = st.job
        /\ StateShape' /\ TablesAgree' /\ StateMatchesTables'
        /\ st'.state = "running" => st'.action.type \in {"run_round", "walkforward"}
        /\ st'.state = "blocked" /\ HasBlocker(ResearchKinds)' => BaselineRan(st.job)
    BY <2>1, PlanStep
  <2>4. TypeOK'
    BY <1>3, <2>3, AtType DEF ReconcileState, OnlyState, Goto, Pcs
  <2>5. PlaceMatchesState'
    BY <1>3, <2>1, <2>3 DEF ReconcileState, PlaceMatchesState, BaselineRan, Goto, At
  <2> QED BY <2>3, <2>4, <2>5
<1>4. CASE ResumeHaltedThesis
  <2>1. st' \in StateFile
    <3>1. Action("run_round", "resumed_halted_thesis", st.halted, NoCommit) \in NextActions
      BY ActionType DEF ActionTypes, Sources, Thesis
    <3> QED BY <1>4, <3>1 DEF ResumeHaltedThesis, Thesis
  <2>2. TypeOK'
    BY <1>4, <2>1, AtType DEF ResumeHaltedThesis, HaltedThesisIsNext, OnlyState, Goto, Pcs
  <2>3. StateShape'
    BY <1>4 DEF ResumeHaltedThesis, HaltedThesisIsNext, Action, StateShape,
           RunningCarriesNoBlockers, InProgressIsNextRound, Continues, CanRunCurrent,
           CanResume, InterruptedResumable, ResearchResumable, FailedRoundResumable,
           FailedRoundKinds, ManualReviewResumable, HaltedResumable,
           BuilderRunningResumable, ActionIsExecutable, ValidBacktestRequest,
           BlockedForResearch, HaltedHasRound, PlaceMatchesState
  <2>4. TablesAgree' /\ StateMatchesTables'
    BY <1>4, TablesKept DEF ResumeHaltedThesis, HaltedThesisIsNext, OnlyState,
           StateMatchesTables, PlaceMatchesState
  <2>5. PlaceMatchesState'
    BY <1>4, TablesKept DEF ResumeHaltedThesis, HaltedThesisIsNext, OnlyState, Action,
           PlaceMatchesState, Goto, At, NextRound, RoundsUsedUp
  <2> QED BY <2>2, <2>3, <2>4, <2>5
<1>5. CASE RebuildHaltedThesis
  <2>1. TypeOK'
    BY <1>5, BuildType DEF RebuildHaltedThesis, HaltedThesisIsNext, OnlyState, Pcs, Goto
  <2>2. PlaceMatchesState'
    BY <1>5 DEF RebuildHaltedThesis, HaltedThesisIsNext, OnlyState, Goto, At,
           PlaceMatchesState, NextRound, RoundsUsedUp, BaselineRan, RoundIsKnown
  <2> QED BY <1>5, <2>1, <2>2, StateKept DEF RebuildHaltedThesis,
                 HaltedThesisIsNext, OnlyState
<1>6. CASE Dispatch
  <2>1. TypeOK'
    BY <1>6, AtType DEF Dispatch, OnlyState, Pcs, Goto
  <2>2. PlaceMatchesState'
    BY <1>6 DEF Dispatch, OnlyState, Goto, At, PlaceMatchesState, NextRound,
           RoundsUsedUp, BaselineRan, RoundIsKnown
  <2> QED BY <1>6, <2>1, <2>2, StateKept DEF Dispatch, OnlyState
<1> QED BY <1>1, <1>2, <1>3, <1>4, <1>5, <1>6 DEF Resolve

\* The builder's five outcomes each leave a state a launch can continue.
LEMMA BuilderStep ==
    ASSUME Consistent, Builder PROVE Consistent'
<1> USE ConstantsAssumption
<1> USE DEF Consistent, TypeOK, StateFile, Idle, NoThesis, HasBlocker, ResearchKinds
<1>1. CASE MarkBuilderRunning
  <2>1. st' \in StateFile
    <3>1. /\ [Plain("builder_running") EXCEPT !.thesis = st.halted] \in NextActions
          /\ {"builder_running"} \in SUBSET BlockerKinds
      BY DEF Plain, Action, NextActions, ActionTypes, Sources, BlockerKinds, Thesis
    <3> QED BY <1>1, <3>1 DEF MarkBuilderRunning
  <2>2. TypeOK'
    BY <1>1, <2>1, AtType DEF MarkBuilderRunning, OnlyState, Goto, Pcs, Processes
  <2>3. StateShape'
    BY <1>1 DEF MarkBuilderRunning, Plain, Action, StateShape, RunningCarriesNoBlockers,
           InProgressIsNextRound, Continues, CanRunCurrent, CanResume,
           InterruptedResumable, ResearchResumable, FailedRoundResumable,
           FailedRoundKinds, ManualReviewResumable, HaltedResumable,
           BuilderRunningResumable, ActionIsExecutable, ValidBacktestRequest,
           BlockedForResearch, HaltedHasRound, PlaceMatchesState
  <2>4. TablesAgree' /\ StateMatchesTables'
    BY <1>1, TablesKept DEF MarkBuilderRunning, OnlyState, StateMatchesTables,
           PlaceMatchesState
  <2>5. PlaceMatchesState'
    BY <1>1, TablesKept DEF MarkBuilderRunning, OnlyState, Plain, Action,
           PlaceMatchesState, Goto, At, NextRound, RoundsUsedUp
  <2> QED BY <2>2, <2>3, <2>4, <2>5
<1>2. CASE ActivateBuilderConfig
  <2>1. st' \in StateFile
    <3>1. Action("run_round", "builder", st.halted, NoCommit) \in NextActions
      BY ActionType DEF ActionTypes, Sources, Thesis
    <3> QED BY <1>2, <3>1 DEF ActivateBuilderConfig, Thesis
  <2>2. TypeOK'
    BY <1>2, <2>1, AtType DEF ActivateBuilderConfig, OnlyState, AfterBuilder, Goto, Pcs
  <2>3. StateShape'
    BY <1>2 DEF ActivateBuilderConfig, Action, StateShape, RunningCarriesNoBlockers,
           InProgressIsNextRound, Continues, CanRunCurrent, CanResume,
           InterruptedResumable, ResearchResumable, FailedRoundResumable,
           FailedRoundKinds, ManualReviewResumable, HaltedResumable,
           BuilderRunningResumable, ActionIsExecutable, ValidBacktestRequest,
           BlockedForResearch, HaltedHasRound, PlaceMatchesState
  <2>4. TablesAgree' /\ StateMatchesTables'
    BY <1>2, TablesKept DEF ActivateBuilderConfig, OnlyState, AfterBuilder,
           StateMatchesTables, PlaceMatchesState
  <2>5. PlaceMatchesState'
    BY <1>2, TablesKept DEF ActivateBuilderConfig, OnlyState, AfterBuilder, Action,
           PlaceMatchesState, Goto, At, NextRound, RoundsUsedUp
  <2> QED BY <2>2, <2>3, <2>4, <2>5
<1>3. ASSUME NEW kind, NEW action, NEW halted \in {st.halted, NoThesis},
             <<kind, action>> \in {<<"research_retry_required", "research">>,
                                  <<"builder_failed", "builder_failed">>,
                                  <<"manual_review", "manual_review">>},
             BuilderBlocks(kind, action, halted)
      PROVE  Consistent'
  <2>1. st' \in StateFile
    <3>1. Plain(action) \in NextActions /\ {kind} \in SUBSET BlockerKinds
      BY <1>3, PlainType DEF ActionTypes, BlockerKinds, FailedRoundKinds
    <3>2. halted \in Thesis
      BY <1>3 DEF Thesis
    <3>3. st' = [st EXCEPT !.state = "blocked", !.finished = "none",
                           !.blockers = {kind}, !.action = Plain(action), !.halted = halted]
      BY <1>3 DEF BuilderBlocks
    <3> QED BY <3>1, <3>2, <3>3
  <2>2. TypeOK'
    BY <1>3, <2>1, AtType DEF BuilderBlocks, OnlyState, AfterBuilder, Goto, Pcs
  <2>3. StateShape'
    BY <1>3 DEF BuilderBlocks, Plain, Action, StateShape, RunningCarriesNoBlockers,
           InProgressIsNextRound, Continues, CanRunCurrent, CanResume,
           InterruptedResumable, ResearchResumable, FailedRoundResumable,
           FailedRoundKinds, ManualReviewResumable, HaltedResumable,
           BuilderRunningResumable, ActionIsExecutable, ValidBacktestRequest,
           BlockedForResearch, HaltedHasRound, PlaceMatchesState
  <2>4. TablesAgree' /\ StateMatchesTables'
    BY <1>3, TablesKept DEF BuilderBlocks, OnlyState, StateMatchesTables, PlaceMatchesState
  <2>5. BaselineRan(st.job)
    BY <1>3 DEF BuilderBlocks, StateMatchesTables, StateShape, HaltedHasRound,
           PlaceMatchesState
  <2>6. PlaceMatchesState'
    BY <1>3, <2>5 DEF BuilderBlocks, OnlyState, AfterBuilder, PlaceMatchesState,
           BaselineRan, Goto, At
  <2> QED BY <2>2, <2>3, <2>4, <2>6
<1> QED BY <1>1, <1>2, <1>3 DEF Builder, BuilderAsksResearchRetry, BuilderFails,
               BuilderNeedsReview, BuilderActivationFails

\* A run row replaces at most the row of its own round: what was known stays known.
LEMMA LogRunStep ==
    ASSUME Consistent, NEW accepted \in BOOLEAN, LogRun(accepted),
           proc' \in Processes, proc'.pc \in {"logged", "finalize"},
           proc'.retest => st.action.source # "baseline"
    PROVE  Consistent'
<1> USE ConstantsAssumption
<1> USE DEF Consistent, TypeOK, StateFile, Idle, NoThesis, HasBlocker, ResearchKinds
<1> DEFINE row == [job |-> st.job, round |-> st.round, thesis |-> st.action.thesis,
                   accepted |-> accepted, commit |-> commit,
                   rerun |-> IF st.action.source = "baseline"
                             THEN st.action.rerun ELSE NoCommit]
<1>1. runs' = Upsert(runs, row) /\ rounds' = rounds /\ st' = st
  BY DEF LogRun
<1>2. row \in RunRows
  BY DEF RunRows, NextActions, Thesis
<1>3. TypeOK'
  <2>1. runs' \subseteq RunRows
    BY <1>1, <1>2 DEF Upsert
  <2>2. newer' \subseteq Nat
    BY DEF LogRun
  <2> QED BY <1>1, <2>1, <2>2 DEF LogRun
<1>4. row \in runs' /\ row.job = st.job /\ row.round = st.round
      /\ \A r \in runs' : r \in runs \/ r = row
  BY <1>1 DEF Upsert
<1>5. \A r \in runs : \E q \in runs' : q.job = r.job /\ q.round = r.round
  BY <1>1, <1>4 DEF Upsert, SameKey
<1>6. \A j : BaselineRan(j) => \E q \in runs' : q.job = j /\ q.round = 0
  BY <1>5 DEF BaselineRan
<1>7. \E q \in runs' : q.job = st.job /\ q.round = 0
  <2>1. CASE st.round = 0
    BY <1>4, <2>1
  <2>2. CASE st.round >= 1
    BY <1>6, <2>2 DEF StateMatchesTables
  <2> QED BY <2>1, <2>2
<1>8. TablesAgree'
  <2>1. RoundsAreConsecutive'
    BY <1>1 DEF TablesAgree, RoundsAreConsecutive, RoundIsKnown
  <2>2. RunRowsHaveRoundRow'
    <3> SUFFICES ASSUME NEW r \in runs', r.round >= 1
                 PROVE  \E q \in rounds : q.job = r.job /\ q.round = r.round
      BY <1>1 DEF RunRowsHaveRoundRow, RoundIsKnown
    <3>1. CASE r \in runs
      BY <3>1 DEF TablesAgree, RunRowsHaveRoundRow, RoundIsKnown
    <3>2. CASE r = row
      BY <1>4, <3>2 DEF StateMatchesTables, RoundIsKnown
    <3> QED BY <1>4, <3>1, <3>2
  <2>3. \A r \in runs' : BaselineRan(r.job)'
    <3> SUFFICES ASSUME NEW r \in runs' PROVE \E q \in runs' : q.job = r.job /\ q.round = 0
      BY DEF BaselineRan
    <3>1. CASE r \in runs
      BY <1>6, <3>1 DEF TablesAgree
    <3>2. CASE r = row
      BY <1>4, <1>7, <3>2
    <3> QED BY <1>4, <3>1, <3>2
  <2> QED BY <2>1, <2>2, <2>3 DEF TablesAgree
<1>9. StateShape'
  BY <1>1 DEF StateShape, RunningCarriesNoBlockers, InProgressIsNextRound, Continues,
         CanRunCurrent, CanResume, InterruptedResumable, ResearchResumable,
         FailedRoundResumable, FailedRoundKinds, ManualReviewResumable, HaltedResumable,
         BuilderRunningResumable, ActionIsExecutable, ValidBacktestRequest,
         BlockedForResearch, HaltedHasRound, PlaceMatchesState
<1>10. StateMatchesTables' /\ PlaceMatchesState'
  BY <1>1, <1>7 DEF LogRun, StateMatchesTables, PlaceMatchesState, BaselineRan, RoundIsKnown
<1> QED BY <1>3, <1>8, <1>9, <1>10

\* run_experiment preserves the invariant, from the request to _finalize_round.
LEMMA BacktestStep ==
    ASSUME Consistent, Backtest PROVE Consistent'
<1> USE ConstantsAssumption
<1> USE DEF Consistent, TypeOK, StateFile, Idle, NoThesis, HasBlocker, ResearchKinds
<1>1. CASE BeginBacktest
  <2>1. TypeOK'
    BY <1>1, AtType DEF BeginBacktest, ValidBacktestRequest, Pcs, Goto
  <2>2. PlaceMatchesState'
    BY <1>1 DEF BeginBacktest, ValidBacktestRequest, Goto, At, PlaceMatchesState,
           NextRound, RoundsUsedUp, BaselineRan, RoundIsKnown
  <2> QED BY <1>1, <2>1, <2>2, StateKept DEF BeginBacktest, ValidBacktestRequest
<1>2. ASSUME NEW kind \in {"command_failed", "metric_parse_failed"}, BlockRound(kind)
      PROVE  Consistent'
  <2>1. st' \in StateFile
    <3>1. Plain("blocked") \in NextActions /\ {kind} \in SUBSET BlockerKinds
      BY PlainType DEF ActionTypes, BlockerKinds, FailedRoundKinds
    <3> QED BY <1>2, <3>1 DEF BlockRound
  <2>2. TypeOK'
    BY <1>2, <2>1, AtType DEF BlockRound, OnlyState, Exit, Goto, Pcs
  <2>3. StateShape'
    BY <1>2 DEF BlockRound, Plain, Action, StateShape, RunningCarriesNoBlockers,
           InProgressIsNextRound, Continues, CanRunCurrent, CanResume,
           InterruptedResumable, ResearchResumable, FailedRoundResumable,
           FailedRoundKinds, ManualReviewResumable, HaltedResumable,
           BuilderRunningResumable, ActionIsExecutable, ValidBacktestRequest,
           BlockedForResearch, HaltedHasRound, PlaceMatchesState
  <2>4. TablesAgree' /\ StateMatchesTables'
    BY <1>2, TablesKept DEF BlockRound, OnlyState, StateMatchesTables
  <2>5. PlaceMatchesState'
    BY <1>2, FreePlace DEF BlockRound, PlaceMatchesState, Exit, Goto
  <2> QED BY <2>2, <2>3, <2>4, <2>5
<1>3. CASE EvaluateTimesOut
  <2>1. st' \in StateFile
    <3>1. Plain("terminated") \in NextActions /\ {"research_failed"} \in SUBSET BlockerKinds
      BY PlainType DEF ActionTypes, BlockerKinds
    <3> QED BY <1>3, <3>1 DEF EvaluateTimesOut
  <2>2. TypeOK'
    BY <1>3, <2>1, AtType DEF EvaluateTimesOut, OnlyState, Exit, Goto, Pcs
  <2>3. StateShape'
    BY <1>3 DEF EvaluateTimesOut, Plain, Action, StateShape, RunningCarriesNoBlockers,
           InProgressIsNextRound, Continues, CanRunCurrent, CanResume,
           InterruptedResumable, ResearchResumable, FailedRoundResumable,
           FailedRoundKinds, ManualReviewResumable, HaltedResumable,
           BuilderRunningResumable, ActionIsExecutable, ValidBacktestRequest,
           BlockedForResearch, HaltedHasRound, PlaceMatchesState
  <2>4. TablesAgree' /\ StateMatchesTables'
    BY <1>3, TablesKept DEF EvaluateTimesOut, OnlyState, Exit, StateMatchesTables,
           PlaceMatchesState
  <2>5. PlaceMatchesState'
    <3>1. st'.job \in Nat /\ st'.job >= 1
      BY <1>3, <2>1 DEF EvaluateTimesOut, PlaceMatchesState
    <3> QED BY <1>3, <3>1, FreePlace DEF EvaluateTimesOut, OnlyState, Exit, Goto
  <2> QED BY <2>2, <2>3, <2>4, <2>5
<1>4. CASE LogResult
  <2>1. PICK accepted \in BOOLEAN : LogRun(accepted)
    BY <1>4 DEF LogResult, Decisions
  <2>2. proc' \in Processes /\ proc'.pc \in {"logged", "finalize"} /\ ~proc'.retest
    BY <1>4 DEF LogResult, Goto, At, Processes, Pcs, Answers
  <2> QED BY <2>1, <2>2, LogRunStep
<1>5. CASE LogInconclusive
  <2>1. proc' \in Processes /\ proc'.pc = "finalize" /\ st.action.source # "baseline"
    BY <1>5 DEF LogInconclusive, At, Processes, Pcs, Answers
  <2> QED BY <1>5, <2>1, LogRunStep DEF LogInconclusive
<1>6. CASE RecordCheckpoint
  <2>1. TypeOK'
    BY <1>6, AtType DEF RecordCheckpoint, TypeOK, Pcs, Goto
  <2>2. PlaceMatchesState'
    BY <1>6 DEF RecordCheckpoint, TypeOK, Goto, At, PlaceMatchesState, NextRound,
           RoundsUsedUp, BaselineRan, RoundIsKnown
  <2> QED BY <1>6, <2>1, <2>2, StateKept DEF RecordCheckpoint, TypeOK
<1>7. CASE ClearRerunRequest
  <2>1. st' \in StateFile
    BY <1>7 DEF ClearRerunRequest, NextActions
  <2>2. TypeOK'
    BY <1>7, <2>1, AtType DEF ClearRerunRequest, OnlyState, Goto, Pcs
  <2>3. StateShape'
    BY <1>7 DEF ClearRerunRequest, NextActions, StateShape, RunningCarriesNoBlockers,
           InProgressIsNextRound, Continues, CanRunCurrent, CanResume,
           InterruptedResumable, ResearchResumable, FailedRoundResumable,
           FailedRoundKinds, ManualReviewResumable, HaltedResumable,
           BuilderRunningResumable, ActionIsExecutable, ValidBacktestRequest,
           BlockedForResearch, HaltedHasRound, PlaceMatchesState
  <2>4. TablesAgree' /\ StateMatchesTables'
    BY <1>7, TablesKept DEF ClearRerunRequest, OnlyState, StateMatchesTables,
           PlaceMatchesState
  <2>5. PlaceMatchesState'
    BY <1>7, TablesKept DEF ClearRerunRequest, OnlyState, NextActions,
           PlaceMatchesState, Goto, At, NextRound, RoundsUsedUp
  <2> QED BY <2>2, <2>3, <2>4, <2>5
<1>8. CASE FinalizeRetest
  <2>1. st' \in StateFile
    BY <1>8 DEF FinalizeRetest, NextActions, Sources
  <2>2. TypeOK'
    BY <1>8, <2>1, AtType DEF FinalizeRetest, OnlyState, Goto, Pcs
  <2>3. StateShape'
    BY <1>8 DEF FinalizeRetest, NextActions, StateShape, RunningCarriesNoBlockers,
           InProgressIsNextRound, Continues, CanRunCurrent, CanResume,
           InterruptedResumable, ResearchResumable, FailedRoundResumable,
           FailedRoundKinds, ManualReviewResumable, HaltedResumable,
           BuilderRunningResumable, ActionIsExecutable, ValidBacktestRequest,
           BlockedForResearch, HaltedHasRound, PlaceMatchesState
  <2>4. TablesAgree' /\ StateMatchesTables'
    BY <1>8, TablesKept DEF FinalizeRetest, OnlyState, StateMatchesTables, PlaceMatchesState
  <2>5. PlaceMatchesState'
    BY <1>8, TablesKept DEF FinalizeRetest, OnlyState, NextActions, PlaceMatchesState,
           Goto, At, NextRound, RoundsUsedUp
  <2> QED BY <2>2, <2>3, <2>4, <2>5
<1>9. CASE FinalizeRound
  <2>1. st.job >= 1 /\ UNCHANGED <<runs, rounds>> /\ PlanNextAction
    BY <1>9 DEF FinalizeRound, OnlyState, PlaceMatchesState
  <2>2. /\ st' \in StateFile /\ st'.job = st.job
        /\ StateShape' /\ TablesAgree' /\ StateMatchesTables'
    BY <2>1, PlanStep
  <2>3. TypeOK'
    BY <1>9, <2>2, AtType DEF FinalizeRound, OnlyState, Goto, Pcs
  <2>4. PlaceMatchesState'
    BY <1>9, <2>2, FreePlace DEF FinalizeRound, PlaceMatchesState, Goto
  <2> QED BY <2>2, <2>3, <2>4
<1> QED BY <1>1, <1>2, <1>3, <1>4, <1>5, <1>6, <1>7, <1>8, <1>9 DEF Backtest,
               CommandFails, MetricParseFails

\* The walkforward and the loop write no table row.
LEMMA WalkforwardStep ==
    ASSUME Consistent, Walkforward \/ Loop PROVE Consistent'
<1> USE ConstantsAssumption
<1> USE DEF Consistent, TypeOK, StateFile, Idle, NoThesis, HasBlocker, ResearchKinds
<1>1. CASE WalkforwardCompletes
  <2>1. st' \in StateFile
    BY <1>1 DEF WalkforwardCompletes
  <2>2. TypeOK'
    BY <1>1, <2>1, AtType DEF WalkforwardCompletes, OnlyState, Goto, Pcs
  <2>3. StateShape'
    BY <1>1 DEF WalkforwardCompletes, StateShape, RunningCarriesNoBlockers,
           InProgressIsNextRound, Continues, CanRunCurrent, CanResume,
           InterruptedResumable, ResearchResumable, FailedRoundResumable,
           FailedRoundKinds, ManualReviewResumable, HaltedResumable,
           BuilderRunningResumable, ActionIsExecutable, ValidBacktestRequest,
           BlockedForResearch, HaltedHasRound, PlaceMatchesState
  <2>4. TablesAgree' /\ StateMatchesTables'
    BY <1>1, TablesKept DEF WalkforwardCompletes, OnlyState, StateMatchesTables,
           PlaceMatchesState
  <2>5. PlaceMatchesState'
    <3>1. st'.job \in Nat /\ st'.job >= 1
      BY <1>1, <2>1 DEF WalkforwardCompletes, PlaceMatchesState
    <3> QED BY <1>1, <3>1, FreePlace DEF WalkforwardCompletes, OnlyState, Goto
  <2> QED BY <2>2, <2>3, <2>4, <2>5
<1>2. CASE WalkforwardFails
  <2>1. st' \in StateFile
    <3>1. Plain("terminated") \in NextActions /\ {"walkforward_failed"} \in SUBSET BlockerKinds
      BY PlainType DEF ActionTypes, BlockerKinds
    <3> QED BY <1>2, <3>1 DEF WalkforwardFails
  <2>2. TypeOK'
    BY <1>2, <2>1, AtType DEF WalkforwardFails, OnlyState, Exit, Goto, Pcs
  <2>3. StateShape'
    BY <1>2 DEF WalkforwardFails, Plain, Action, StateShape, RunningCarriesNoBlockers,
           InProgressIsNextRound, Continues, CanRunCurrent, CanResume,
           InterruptedResumable, ResearchResumable, FailedRoundResumable,
           FailedRoundKinds, ManualReviewResumable, HaltedResumable,
           BuilderRunningResumable, ActionIsExecutable, ValidBacktestRequest,
           BlockedForResearch, HaltedHasRound, PlaceMatchesState
  <2>4. TablesAgree' /\ StateMatchesTables'
    BY <1>2, TablesKept DEF WalkforwardFails, OnlyState, Exit, StateMatchesTables,
           PlaceMatchesState
  <2>5. PlaceMatchesState'
    <3>1. st'.job \in Nat /\ st'.job >= 1
      BY <1>2, <2>1 DEF WalkforwardFails, PlaceMatchesState
    <3> QED BY <1>2, <3>1, FreePlace DEF WalkforwardFails, OnlyState, Exit, Goto
  <2> QED BY <2>2, <2>3, <2>4, <2>5
<1>3. CASE Loop
  <2>1. TypeOK'
    BY <1>3, AtType DEF Loop, OnlyState, Pcs, Goto
  <2>2. PlaceMatchesState'
    BY <1>3, FreePlace DEF Loop, OnlyState, PlaceMatchesState, Goto
  <2> QED BY <1>3, <2>1, <2>2, StateKept DEF Loop, OnlyState
<1> QED BY <1>1, <1>2, <1>3 DEF Walkforward

\* An empty runtime root is consistent.
LEMMA InitConsistent == Init => Consistent
<1> SUFFICES ASSUME Init PROVE Consistent
  OBVIOUS
<1> USE ConstantsAssumption
<1> USE DEF Consistent, TypeOK, StateFile, Idle, NoThesis, HasBlocker, ResearchKinds
<1>1. Plain("none") \in NextActions
  BY PlainType DEF ActionTypes
<1>2. st \in StateFile
  BY <1>1 DEF Init, MissingState, FreshLaunchState, Thesis
<1>3. TypeOK
  BY <1>2, AtType DEF Init, Pcs
<1>4. StateShape
  BY DEF Init, MissingState, FreshLaunchState, Plain, Action, StateShape,
         RunningCarriesNoBlockers, InProgressIsNextRound, Continues, CanRunCurrent,
         CanResume, InterruptedResumable, ResearchResumable, FailedRoundResumable,
         FailedRoundKinds, ManualReviewResumable, HaltedResumable,
         BuilderRunningResumable, ActionIsExecutable, ValidBacktestRequest,
         BlockedForResearch, HaltedHasRound, PlaceMatchesState
<1>5. TablesAgree /\ StateMatchesTables /\ PlaceMatchesState
  BY DEF Init, MissingState, FreshLaunchState, Plain, Action, At, TablesAgree,
         RunRowsHaveRoundRow, RoundsAreConsecutive, StateMatchesTables, PlaceMatchesState
<1> QED BY <1>3, <1>4, <1>5

\* Consistent is inductive.
LEMMA NextConsistent == Consistent /\ [Next]_vars => Consistent'
<1> SUFFICES ASSUME Consistent, [Next]_vars PROVE Consistent'
  OBVIOUS
<1>1. CASE UNCHANGED vars
  <2>1. TypeOK' /\ PlaceMatchesState'
    BY <1>1 DEF vars, Consistent, TypeOK, PlaceMatchesState, Idle, HasBlocker,
           BaselineRan, RoundIsKnown, RoundsUsedUp, NextRound
  <2> QED BY <1>1, <2>1, StateKept DEF vars
<1> QED BY <1>1, LaunchStep, EnvironmentStep, ResolveStep, ResearchStep,
               BuilderStep, BacktestStep, WalkforwardStep DEF Next, Process

\* Consistent holds in every state the controller and its tables can reach.
THEOREM AlwaysConsistent == Spec => []Consistent
  BY InitConsistent, NextConsistent, PTL DEF Spec

\* Every variable keeps its type, however many commits, rounds and faults.
THEOREM TypeCorrect == Spec => []TypeOK
<1>1. Consistent => TypeOK
  BY DEF Consistent
<1> QED BY <1>1, AlwaysConsistent, PTL

\* No state that is written makes the controller raise when it is read again:
\* no running state carries a blocker, and every backtest request is valid.
THEOREM NoWriteIsRejected == Spec => []WritesAreLegal
<1>1. Consistent => RunningCarriesNoBlockers
  BY DEF Consistent, StateShape
<1>2. Consistent => BacktestRequestIsValid
  BY DEF Consistent, StateShape, ActionIsExecutable, PlaceMatchesState,
         BacktestRequestIsValid
<1>3. Consistent => WritesAreLegal
  BY <1>1, <1>2 DEF WritesAreLegal
<1> QED BY <1>3, AlwaysConsistent, PTL

\* No job is researched before its own baseline has a result.
THEOREM BaselineRunsFirst == Spec => []BaselineFirst
<1>1. Consistent => BaselineFirst
  BY DEF Consistent, PlaceMatchesState, BaselineFirst
<1> QED BY <1>1, AlwaysConsistent, PTL

\* Whatever stops the controller, one of its launches takes the job up again.
THEOREM JobsContinue == Spec => []NoStrandedJob
<1>1. Consistent => NoStrandedJob
  BY DEF Consistent, StateShape, NoStrandedJob
<1> QED BY <1>1, AlwaysConsistent, PTL

\* The conductor's round and the logged round are one, no backtest is filed under
\* a round that was never logged, and round numbers have no gaps.
THEOREM RoundsOnRecord == Spec => []RoundsAreOnRecord
<1>1. Consistent => RoundsAreOnRecord
  BY DEF Consistent, StateShape, TablesAgree, RoundsAreOnRecord
<1> QED BY <1>1, AlwaysConsistent, PTL

\* Only an operator or the environment acts while no controller runs.
LEMMA ProcessRuns == Process => ~Idle
  BY DEF Process, Resolve, ForceBaselineRerun, KeepRetest, ReconcileState,
         ResumeHaltedThesis, RebuildHaltedThesis, HaltedThesisIsNext, Dispatch, Research,
         FinishMaxRounds, BeginRound, LogResearchRound, HandleNeedsCode, HandleSuccess,
         HandleCompletedWithoutConfig, HandleRoundFailure, Builder, MarkBuilderRunning,
         ActivateBuilderConfig, BuilderAsksResearchRetry, BuilderFails,
         BuilderNeedsReview, BuilderActivationFails, BuilderBlocks, Backtest,
         BeginBacktest, CommandFails, MetricParseFails, BlockRound, EvaluateTimesOut,
         LogResult, LogInconclusive, LogRun, RecordCheckpoint, ClearRerunRequest,
         FinalizeRetest, FinalizeRound, Walkforward, WalkforwardCompletes,
         WalkforwardFails, Loop, Idle

\* A fresh launch never takes a job number that history already uses.
THEOREM FreshJobs == Spec => FreshJobIsUnused
<1>1. ASSUME Consistent, [Next]_vars, Idle, st'.job > st.job
      PROVE  st'.job \notin {r.job : r \in runs} \cup {r.job : r \in rounds} \cup dirs
  <2> USE DEF Consistent, TypeOK, StateFile
  <2>1. CASE FreshLaunch
    <3>1. PICK job \in {k + 1 : k \in JobsSeen} :
            IsNextFreshJob(job) /\ st' = FreshLaunchState(job)
      BY <2>1 DEF FreshLaunch
    <3>2. JobsSeen \subseteq Nat
      <4>1. \A r \in runs : r.job \in Nat
        BY <1>1 DEF RunRows
      <4>2. \A r \in rounds : r.job \in Nat
        BY <1>1 DEF RoundRows
      <4> QED BY <1>1, <4>1, <4>2 DEF JobsSeen
    <3>3. job \notin JobsSeen
      BY <3>1, <3>2 DEF IsNextFreshJob
    <3> QED BY <3>1, <3>3 DEF JobsSeen, FreshLaunchState
  <2>2. CASE ResumeInterruptedResearch
    <3>1. st'.job = st.job
      BY <1>1, <2>2 DEF ResumeInterruptedResearch
    <3> QED BY <1>1, <3>1
  <2>3. CASE ResumeRunning
    <3>1. st'.job = st.job
      BY <1>1, <2>3 DEF ResumeRunning, FreshLaunchState
    <3> QED BY <1>1, <3>1
  <2>4. CASE ResumeBlockedResearch \/ RunCurrentState
    <3>1. st'.job = st.job
      BY <1>1, <2>4 DEF ResumeBlockedResearch, RunCurrentState
    <3> QED BY <1>1, <3>1
  <2>5. CASE Environment
    <3>1. st'.job = st.job \/ st'.job = 0
      BY <1>1, <2>5 DEF Environment, Crash, Deploy, LoseStateFile, MissingState,
             FreshLaunchState, durable
    <3> QED BY <1>1, <3>1
  <2>6. CASE UNCHANGED vars
    BY <1>1, <2>6 DEF vars
  <2> QED BY <1>1, <2>1, <2>2, <2>3, <2>4, <2>5, <2>6, ProcessRuns DEF Next, Operator
<1>2. Consistent /\ [Next]_vars =>
        [st'.job > st.job /\ Idle =>
            st'.job \notin {r.job : r \in runs} \cup {r.job : r \in rounds} \cup dirs]_vars
  BY <1>1
<1> QED BY <1>2, AlwaysConsistent, PTL DEF Spec, FreshJobIsUnused

-----------------------------------------------------------------------------
(* Research on the current commit.  A commit is deployed while no process  *)
(* runs, so what a process has found out about its commit stays true; and  *)
(* without a crash the baseline row and the checkpoint are written by the  *)
(* same process, so the newest checkpoint is the current job's baseline.   *)

BaselineOn(c) == \E r \in Results(st.job) : r.round = 0 /\ r.commit = c

\* Between the row and the checkpoint the row is on the checked-out commit; at
\* any other place it is on the checkpoint's.
CheckpointIsBaseline ==
    IF proc.pc = "logged" THEN BaselineOn(commit)
    ELSE BaselineRan(st.job) => BaselineOn(ckpt)

\* A requested rerun runs on the commit it was requested for.
RerunsAreOfTheirCommit ==
    /\ \A r \in runs : r.rerun # NoCommit => r.round = 0 /\ r.commit = r.rerun
    /\ st.action.rerun # NoCommit =>
          /\ st.action.rerun = commit /\ st.state = "running"
          /\ proc.pc \in {"dispatch", "round", "backtest", "logged", "checkpointed"}

\* The places the process can still reach the conductor from without resolving
\* the next action again.
AheadOfResearch ==
    \/ proc.pc \in {"research", "conductor"}
    \/ proc.pc = "dispatch" /\ st.state = "blocked"
    \/ proc.pc \in {"build", "building"} /\ proc.caller = "resolve"

Resolved == AheadOfResearch /\ BaselineRan(st.job) => BaselineOn(commit)

Whole == faults.crashes = 0 /\ faults.losses = 0
OnCommit == Whole => CheckpointIsBaseline /\ RerunsAreOfTheirCommit /\ Resolved

\* The steps that leave the job, its runs, the checkpoint and the commit alone.
SameBaseline ==
    /\ st'.job = st.job /\ UNCHANGED <<runs, ckpt, commit>>
    /\ Whole' => Whole
    /\ proc.pc # "logged" /\ proc'.pc # "logged"
    /\ AheadOfResearch' => AheadOfResearch \/ (proc.pc = "resolve" /\ ~BaselineRerunDue)
    /\ st'.action.rerun # NoCommit =>
          \/ /\ st'.action.rerun = commit /\ st'.state = "running"
             /\ proc'.pc \in {"dispatch", "round", "backtest", "logged", "checkpointed"}
          \/ ~Whole

\* A process that need not rerun the baseline has one on its commit.
LEMMA NotDueIsOnCommit ==
    ASSUME Consistent, CheckpointIsBaseline, RerunsAreOfTheirCommit, proc.pc = "resolve",
           ~BaselineRerunDue, BaselineRan(st.job)
    PROVE  BaselineOn(commit)
<1>1. PICK r \in Results(st.job) : r.round = 0 /\ r.commit = ckpt
  BY DEF CheckpointIsBaseline, BaselineOn
<1>2. ckpt # NoCommit
  BY <1>1, ConstantsAssumption DEF Consistent, TypeOK, Results, RunRows
<1>3. CASE ckpt = commit
  BY <1>1, <1>3 DEF BaselineOn
<1>4. CASE ckpt # commit
  <2>1. PICK q \in Results(st.job) : q.rerun = commit
    BY <1>2, <1>4 DEF BaselineRerunDue
  <2>2. commit # NoCommit
    BY ConstantsAssumption DEF Consistent, TypeOK
  <2> QED
    BY <2>1, <2>2 DEF RerunsAreOfTheirCommit, Results, BaselineOn
<1> QED
  BY <1>3, <1>4

LEMMA SameBaselineStep ==
    ASSUME Consistent, OnCommit, SameBaseline
    PROVE  OnCommit'
<1>1. SUFFICES ASSUME Whole
               PROVE  (CheckpointIsBaseline /\ RerunsAreOfTheirCommit /\ Resolved)'
  BY DEF OnCommit, SameBaseline
<1>2. CheckpointIsBaseline /\ RerunsAreOfTheirCommit /\ Resolved
  BY <1>1 DEF OnCommit
<1>3. \A c : BaselineOn(c)' = BaselineOn(c)
  BY DEF SameBaseline, BaselineOn, Results
<1>4. BaselineRan(st.job)' = BaselineRan(st.job) /\ ckpt' = ckpt /\ commit' = commit
  BY DEF SameBaseline, BaselineRan
<1>5. CheckpointIsBaseline'
  <2>1. BaselineOn(ckpt)' = BaselineOn(ckpt)
    BY <1>4 DEF SameBaseline, BaselineOn, Results
  <2> QED
    BY <1>2, <1>4, <2>1 DEF CheckpointIsBaseline, SameBaseline
<1>6. RerunsAreOfTheirCommit'
  BY <1>1, <1>2 DEF RerunsAreOfTheirCommit, SameBaseline
<1>7. Resolved'
  <2>1. BaselineOn(commit)' = BaselineOn(commit)
    BY <1>4 DEF SameBaseline, BaselineOn, Results
  <2> QED
    BY <1>2, <1>4, <2>1, NotDueIsOnCommit DEF Resolved, SameBaseline
<1> QED
  BY <1>5, <1>6, <1>7

\* Everywhere else a step of the process leaves no rerun requested.
LEMMA NoRerunElsewhere ==
    ASSUME OnCommit, Whole,
           proc.pc \notin {"dispatch", "round", "backtest", "logged", "checkpointed"}
    PROVE  st.action.rerun = NoCommit
  BY DEF OnCommit, RerunsAreOfTheirCommit

\* What the planner writes asks for no rerun.
LEMMA PlanKeepsRequest ==
    ASSUME Consistent, PlanNextAction
    PROVE  st'.job = st.job /\ (st'.action = st.action \/ st'.action.rerun = NoCommit)
<1>1. st \in StateFile
  BY DEF Consistent, TypeOK
<1>2. /\ FinishedState.job = st.job /\ FinishedState.action.rerun = NoCommit
      /\ BaselineState.job = st.job /\ BaselineState.action.rerun = NoCommit
  BY <1>1 DEF FinishedState, BaselineState, BaselineAction, Plain, Action, StateFile
<1>3. /\ ResearchState.job = st.job /\ ResearchState.action.rerun = NoCommit
      /\ WalkforwardState.job = st.job /\ WalkforwardState.action.rerun = NoCommit
  BY <1>1 DEF ResearchState, WalkforwardState, Plain, Action, StateFile
<1>4. st' \in {st, FinishedState, BaselineState, ResearchState, WalkforwardState}
  BY DEF PlanNextAction
<1> QED
  BY <1>2, <1>3, <1>4

LEMMA ResolveSameBaseline == ASSUME Consistent, OnCommit, Resolve PROVE SameBaseline
<1> USE DEF OnlyState, Goto, At, Whole, SameBaseline, AheadOfResearch
<1>1. CASE ForceBaselineRerun
  BY <1>1 DEF ForceBaselineRerun, BaselineAction, Action, Consistent, TypeOK, StateFile
<1>2. CASE KeepRetest
  BY <1>2, NoRerunElsewhere DEF KeepRetest
<1>3. CASE ReconcileState
  <2>1. Whole => st.action.rerun = NoCommit
    BY <1>3, NoRerunElsewhere DEF ReconcileState
  <2>2. st'.job = st.job /\ (Whole => st'.action.rerun = NoCommit)
    BY <1>3, <2>1, PlanKeepsRequest DEF ReconcileState
  <2> QED
    BY <1>3, <2>2 DEF ReconcileState
<1>4. CASE ResumeHaltedThesis
  BY <1>4
  DEF ResumeHaltedThesis, HaltedThesisIsNext, Action, Consistent, TypeOK, StateFile
<1>5. CASE RebuildHaltedThesis
  BY <1>5, NoRerunElsewhere DEF RebuildHaltedThesis, HaltedThesisIsNext
<1>6. CASE Dispatch
  <2>1. st.action.rerun # NoCommit => st.action.type = "run_round"
    BY DEF Consistent, StateShape, ActionIsExecutable
  <2> QED
    BY <1>6, <2>1 DEF Dispatch, OnCommit, RerunsAreOfTheirCommit
<1> QED
  BY <1>1, <1>2, <1>3, <1>4, <1>5, <1>6 DEF Resolve

LEMMA ResearchSameBaseline == ASSUME Consistent, OnCommit, Research PROVE SameBaseline
<1> DEFINE Kept == /\ UNCHANGED <<runs, ckpt, commit, faults>>
                   /\ st'.job = st.job
                   /\ st'.action = st.action \/ st'.action.rerun = NoCommit
           Moved(from, to) == proc.pc = from /\ proc'.pc = to
<1> USE DEF OnlyState, Goto, At
<1>1. st \in StateFile
  BY DEF Consistent, TypeOK
<1>3. CASE FinishMaxRounds
  <2>1. Kept /\ Moved("research", "loop")
    BY <1>1, <1>3 DEF FinishMaxRounds, StateFile
  <2> QED
    BY <2>1, NoRerunElsewhere DEF SameBaseline, Whole, AheadOfResearch
<1>4. CASE BeginRound
  <2>1. Kept /\ Moved("research", "conductor")
    BY <1>1, <1>4 DEF BeginRound, StateFile
  <2> QED
    BY <2>1, NoRerunElsewhere DEF SameBaseline, Whole, AheadOfResearch
<1>5. ASSUME NEW answer \in Answers \ {"none"}, LogResearchRound(answer) PROVE SameBaseline
  <2>1. Kept /\ Moved("conductor", "answered")
    BY <1>5 DEF LogResearchRound
  <2> QED
    BY <2>1, NoRerunElsewhere DEF SameBaseline, Whole, AheadOfResearch
<1>6. CASE HandleNeedsCode
  <2>1. Kept /\ Moved("answered", "build") /\ proc'.caller = "research"
    BY <1>1, <1>6 DEF HandleNeedsCode, RoundOver, StateFile
  <2> QED
    BY <2>1, NoRerunElsewhere DEF SameBaseline, Whole, AheadOfResearch
<1>7. CASE HandleSuccess
  <2>1. Kept /\ Moved("answered", "round")
    BY <1>1, <1>7 DEF HandleSuccess, RoundOver, StateFile, Action
  <2> QED
    BY <2>1, NoRerunElsewhere DEF SameBaseline, Whole, AheadOfResearch
<1>8. CASE HandleCompletedWithoutConfig
  <2>1. Kept /\ Moved("answered", "loop")
    BY <1>1, <1>8 DEF HandleCompletedWithoutConfig, RoundOver, StateFile, Plain, Action
  <2> QED
    BY <2>1, NoRerunElsewhere DEF SameBaseline, Whole, AheadOfResearch
<1>9. CASE HandleRoundFailure
  <2>1. Kept /\ Moved("answered", "loop")
    BY <1>1, <1>9 DEF HandleRoundFailure, RoundOver, StateFile, Plain, Action
  <2> QED
    BY <2>1, NoRerunElsewhere DEF SameBaseline, Whole, AheadOfResearch
<1> QED
  BY <1>3, <1>4, <1>5, <1>6, <1>7, <1>8, <1>9 DEF Research

LEMMA BuilderSameBaseline == ASSUME Consistent, OnCommit, Builder PROVE SameBaseline
<1> USE DEF OnlyState, Goto, At, Whole, SameBaseline, AheadOfResearch
<1>1. CASE MarkBuilderRunning
  <2>1. proc'.pc = "building" /\ proc'.caller = proc.caller /\ proc.pc = "build"
    BY <1>1 DEF MarkBuilderRunning, Consistent, TypeOK, Processes
  <2>2. st'.job = st.job /\ st'.action.rerun = NoCommit
    BY <1>1 DEF MarkBuilderRunning, Plain, Action, Consistent, TypeOK, StateFile
  <2> QED
    BY <1>1, <2>1, <2>2 DEF MarkBuilderRunning
<1>2. CASE ~MarkBuilderRunning
  <2>1. CASE ActivateBuilderConfig
    <3>1. st'.job = st.job /\ st'.action.rerun = NoCommit
      BY <2>1 DEF ActivateBuilderConfig, Action, Consistent, TypeOK, StateFile
    <3> QED
      BY <2>1, <3>1 DEF ActivateBuilderConfig, AfterBuilder
  <2>2. ASSUME NEW kind, NEW action, NEW halted, BuilderBlocks(kind, action, halted)
        PROVE  SameBaseline
    <3>1. st'.job = st.job /\ st'.action.rerun = NoCommit
      BY <2>2 DEF BuilderBlocks, Plain, Action, Consistent, TypeOK, StateFile
    <3> QED
      BY <2>2, <3>1 DEF BuilderBlocks, AfterBuilder
  <2> QED
    BY <1>2, <2>1, <2>2
    DEF Builder, BuilderAsksResearchRetry, BuilderFails, BuilderNeedsReview,
        BuilderActivationFails
<1> QED
  BY <1>1, <1>2

LEMMA QuietBacktestSameBaseline ==
    ASSUME Consistent, OnCommit,
           BeginBacktest \/ CommandFails \/ MetricParseFails \/ EvaluateTimesOut
           \/ ClearRerunRequest \/ FinalizeRetest \/ FinalizeRound \/ Walkforward \/ Loop
    PROVE  SameBaseline
<1> USE DEF OnlyState, Goto, At, Whole, SameBaseline, AheadOfResearch
<1>1. CASE BeginBacktest
  BY <1>1 DEF BeginBacktest, OnCommit, RerunsAreOfTheirCommit
<1>2. CASE CommandFails \/ MetricParseFails \/ EvaluateTimesOut
  <2>1. CASE EvaluateTimesOut
    <3>1. st'.job = st.job /\ st'.action.rerun = NoCommit
      BY <2>1 DEF EvaluateTimesOut, Plain, Action, Consistent, TypeOK, StateFile
    <3> QED
      BY <2>1, <3>1 DEF EvaluateTimesOut, Exit
  <2>2. ASSUME NEW kind, BlockRound(kind) PROVE SameBaseline
    <3>1. st'.job = st.job /\ st'.action.rerun = NoCommit
      BY <2>2 DEF BlockRound, Plain, Action, Consistent, TypeOK, StateFile
    <3> QED
      BY <2>2, <3>1 DEF BlockRound, Exit
  <2> QED
    BY <1>2, <2>1, <2>2 DEF CommandFails, MetricParseFails
<1>3. CASE ClearRerunRequest
  <2>1. st'.job = st.job /\ st'.action.rerun = NoCommit
    BY <1>3 DEF ClearRerunRequest, Consistent, TypeOK, StateFile, NextActions
  <2> QED
    BY <1>3, <2>1 DEF ClearRerunRequest
<1>4. CASE FinalizeRetest
  <2>1. st'.job = st.job /\ st'.action.rerun = st.action.rerun
    BY <1>4 DEF FinalizeRetest, Consistent, TypeOK, StateFile, NextActions
  <2> QED
    BY <1>4, <2>1, NoRerunElsewhere DEF FinalizeRetest
<1>5. CASE FinalizeRound
  <2>1. Whole => st.action.rerun = NoCommit
    BY <1>5, NoRerunElsewhere DEF FinalizeRound
  <2>2. st'.job = st.job /\ (Whole => st'.action.rerun = NoCommit)
    BY <1>5, <2>1, PlanKeepsRequest DEF FinalizeRound
  <2> QED
    BY <1>5, <2>2 DEF FinalizeRound
<1>6. CASE Walkforward
  <2>1. CASE WalkforwardCompletes
    <3>1. st'.job = st.job /\ st'.action = st.action
      BY <2>1 DEF WalkforwardCompletes, Consistent, TypeOK, StateFile
    <3> QED
      BY <2>1, <3>1, NoRerunElsewhere DEF WalkforwardCompletes
  <2>2. CASE WalkforwardFails
    <3>1. st'.job = st.job /\ st'.action.rerun = NoCommit
      BY <2>2 DEF WalkforwardFails, Plain, Action, Consistent, TypeOK, StateFile
    <3> QED
      BY <2>2, <3>1 DEF WalkforwardFails, Exit
  <2> QED
    BY <1>6, <2>1, <2>2 DEF Walkforward
<1>7. CASE Loop
  BY <1>7, NoRerunElsewhere DEF Loop
<1> QED
  BY <1>1, <1>2, <1>3, <1>4, <1>5, <1>6, <1>7

LEMMA ResumeSameBaseline ==
    ASSUME Consistent, OnCommit,
           ResumeInterruptedResearch \/ ResumeBlockedResearch \/ ResumeRunning
           \/ RunCurrentState
    PROVE  SameBaseline
<1>1. /\ Idle /\ UNCHANGED <<runs, ckpt, commit>>
      /\ faults'.crashes = faults.crashes /\ faults'.losses = faults.losses
  BY DEF ResumeInterruptedResearch, ResumeBlockedResearch, ResumeRunning, RunCurrentState,
         Launch, Consistent, TypeOK
<1>2. proc' = At("resolve") \/ proc' = At("idle")
  BY DEF ResumeInterruptedResearch, ResumeBlockedResearch, ResumeRunning, RunCurrentState,
         EnterOrPrepare, Exit, Goto
<1>3. st'.job = st.job /\ (st'.action = st.action \/ st'.action.rerun = NoCommit)
  <2>1. CASE ResumeInterruptedResearch
    BY <2>1 DEF ResumeInterruptedResearch, Plain, Action, Consistent, TypeOK, StateFile
  <2>2. CASE ResumeRunning
    BY <2>2 DEF ResumeRunning, FreshLaunchState, Plain, Action
  <2>3. CASE ResumeBlockedResearch \/ RunCurrentState
    BY <2>3 DEF ResumeBlockedResearch, RunCurrentState
  <2> QED
    BY <2>1, <2>2, <2>3
<1>4. Whole => st.action.rerun = NoCommit
  <2>1. proc.pc \notin {"dispatch", "round", "backtest", "logged", "checkpointed"}
    BY <1>1 DEF Idle
  <2> QED
    BY <2>1, NoRerunElsewhere
<1>5. ~AheadOfResearch' /\ proc.pc # "logged" /\ proc'.pc # "logged"
  BY <1>1, <1>2 DEF AheadOfResearch, At, Idle
<1> QED
  BY <1>1, <1>3, <1>4, <1>5 DEF SameBaseline, Whole

\* The steps that do write: a run, a checkpoint, a new job and a new commit.
LEMMA LogRunOnCommit ==
    ASSUME Consistent, OnCommit, LogResult \/ LogInconclusive
    PROVE  OnCommit'
<1>1. PICK accepted \in BOOLEAN : LogRun(accepted)
  BY DEF LogResult, LogInconclusive, Decisions
<1> DEFINE row == [job |-> st.job, round |-> st.round, thesis |-> st.action.thesis,
                   accepted |-> accepted, commit |-> commit,
                   rerun |-> IF st.action.source = "baseline"
                             THEN st.action.rerun ELSE NoCommit]
           baseline == st.action.source = "baseline"
<1>2. /\ proc.pc = "backtest" /\ runs' = Upsert(runs, row)
      /\ UNCHANGED <<st, ckpt, commit, faults>>
  BY <1>1 DEF LogRun
<1>3. /\ row.job = st.job /\ row.round = st.round /\ row.commit = commit
      /\ row.rerun # NoCommit => baseline /\ row.rerun = st.action.rerun
  OBVIOUS
<1>4. /\ baseline => st.round = 0
      /\ ~baseline => st.round >= 1
      /\ st.action.rerun # NoCommit => baseline
  BY <1>2 DEF Consistent, PlaceMatchesState, StateShape, ActionIsExecutable, ValidBacktestRequest
<1>5. /\ proc'.pc = IF baseline THEN "logged" ELSE "finalize"
      /\ ~AheadOfResearch'
  <2>1. CASE LogResult
    BY <2>1 DEF LogResult, Goto, At, AheadOfResearch
  <2>2. CASE LogInconclusive
    BY <2>2 DEF LogInconclusive, At, AheadOfResearch
  <2> QED
    BY <2>1, <2>2
<1> HIDE DEF row, baseline
<1>6. SUFFICES ASSUME Whole
               PROVE  (CheckpointIsBaseline /\ RerunsAreOfTheirCommit)'
  BY <1>2, <1>5 DEF OnCommit, Whole, Resolved
<1>7. CheckpointIsBaseline /\ RerunsAreOfTheirCommit
  BY <1>6 DEF OnCommit
<1>8. row \in runs' /\ \A r \in runs' : r \in runs \/ r = row
  BY <1>2 DEF Upsert
<1>9. CheckpointIsBaseline'
  <2>1. CASE baseline
    <3>1. row \in Results(st.job)' /\ row.round = 0 /\ row.commit = commit'
      BY <1>2, <1>3, <1>4, <1>8, <2>1 DEF Results
    <3> QED
      BY <1>5, <2>1, <3>1 DEF CheckpointIsBaseline, BaselineOn
  <2>2. CASE ~baseline
    <3>1. row.round # 0
      BY <1>3, <1>4, <2>2
    <3>2. \A r \in runs : r.round = 0 => r \in runs'
      BY <1>2, <3>1 DEF Upsert, SameKey
    <3>3. BaselineRan(st.job)' => BaselineRan(st.job)
      BY <1>2, <1>8, <3>1 DEF BaselineRan
    <3>4. BaselineOn(ckpt) => BaselineOn(ckpt)'
      BY <1>2, <3>2 DEF BaselineOn, Results
    <3> QED
      BY <1>2, <1>5, <1>7, <2>2, <3>3, <3>4 DEF CheckpointIsBaseline
  <2> QED
    BY <2>1, <2>2
<1>10. RerunsAreOfTheirCommit'
  <2>1. ASSUME NEW r \in runs', r.rerun # NoCommit PROVE r.round = 0 /\ r.commit = r.rerun
    BY <1>3, <1>4, <1>7, <1>8, <2>1 DEF RerunsAreOfTheirCommit
  <2> QED
    BY <1>2, <1>4, <1>5, <1>7, <2>1 DEF RerunsAreOfTheirCommit
<1> QED
  BY <1>9, <1>10

LEMMA CheckpointOnCommit == ASSUME Consistent, OnCommit, RecordCheckpoint PROVE OnCommit'
<1>1. /\ proc.pc = "logged" /\ proc'.pc = "checkpointed" /\ ckpt' = commit
      /\ UNCHANGED <<st, runs, commit, faults>>
  BY DEF RecordCheckpoint, Goto, At
<1>2. BaselineOn(commit) => BaselineOn(ckpt)'
  BY <1>1 DEF BaselineOn, Results
<1> QED
  BY <1>1, <1>2
  DEF OnCommit, Whole, CheckpointIsBaseline, RerunsAreOfTheirCommit, Resolved, AheadOfResearch

LEMMA FreshLaunchOnCommit == ASSUME Consistent, OnCommit, FreshLaunch PROVE OnCommit'
<1>1. PICK job \in {k + 1 : k \in JobsSeen} :
        IsNextFreshJob(job) /\ st' = FreshLaunchState(job)
  BY DEF FreshLaunch
<1>2. /\ UNCHANGED <<runs, ckpt, commit>> /\ proc'.pc \in {"resolve", "idle"}
      /\ faults'.crashes = faults.crashes /\ faults'.losses = faults.losses
  BY DEF FreshLaunch, Launch, EnterOrPrepare, Exit, Goto, At, Consistent, TypeOK
<1>3. st'.job = job /\ st'.action.rerun = NoCommit
  BY <1>1 DEF FreshLaunchState, Plain, Action
<1>4. \A r \in runs : r.job # job
  <2>1. \A r \in runs : r.job < job /\ r.job \in Nat
    BY <1>1 DEF IsNextFreshJob, JobsSeen, Consistent, TypeOK, RunRows
  <2> QED
    BY <2>1
<1>5. ~BaselineRan(st.job)'
  BY <1>2, <1>3, <1>4 DEF BaselineRan
<1> QED
  BY <1>2, <1>3, <1>5
  DEF OnCommit, Whole, CheckpointIsBaseline, RerunsAreOfTheirCommit, Resolved

LEMMA EnvironmentOnCommit == ASSUME Consistent, OnCommit, Environment PROVE OnCommit'
<1>1. CASE Crash \/ LoseStateFile
  <2>1. ~Whole'
    BY <1>1 DEF Crash, LoseStateFile, Whole, Consistent, TypeOK
  <2> QED
    BY <2>1 DEF OnCommit
<1>2. CASE Deploy
  <2>1. /\ Idle /\ UNCHANGED <<st, runs, ckpt, proc>>
        /\ faults'.crashes = faults.crashes /\ faults'.losses = faults.losses
    BY <1>2 DEF Deploy, Consistent, TypeOK
  <2>2. BaselineOn(ckpt)' = BaselineOn(ckpt) /\ BaselineRan(st.job)' = BaselineRan(st.job)
    BY <2>1 DEF BaselineOn, BaselineRan, Results
  <2> QED
    BY <2>1, <2>2
    DEF OnCommit, Whole, CheckpointIsBaseline, RerunsAreOfTheirCommit, Resolved,
        AheadOfResearch, Idle
<1> QED
  BY <1>1, <1>2 DEF Environment

LEMMA NextOnCommit == Consistent /\ OnCommit /\ [Next]_vars => OnCommit'
<1>1. SUFFICES ASSUME Consistent, OnCommit, [Next]_vars PROVE OnCommit'
  OBVIOUS
<1>2. CASE Operator
  BY <1>1, <1>2, FreshLaunchOnCommit, ResumeSameBaseline, SameBaselineStep DEF Operator
<1>3. CASE Environment
  BY <1>1, <1>3, EnvironmentOnCommit
<1>4. CASE Resolve \/ Research \/ Builder
  BY <1>1, <1>4, ResolveSameBaseline, ResearchSameBaseline, BuilderSameBaseline,
     SameBaselineStep
<1>5. CASE LogResult \/ LogInconclusive \/ RecordCheckpoint
  BY <1>1, <1>5, LogRunOnCommit, CheckpointOnCommit
<1>6. CASE BeginBacktest \/ CommandFails \/ MetricParseFails \/ EvaluateTimesOut
           \/ ClearRerunRequest \/ FinalizeRetest \/ FinalizeRound \/ Walkforward \/ Loop
  BY <1>1, <1>6, QuietBacktestSameBaseline, SameBaselineStep
<1>7. CASE UNCHANGED vars
  BY <1>1, <1>7
  DEF vars, OnCommit, Whole, CheckpointIsBaseline, RerunsAreOfTheirCommit, Resolved,
      AheadOfResearch, BaselineOn, BaselineRan, Results
<1> QED
  BY <1>1, <1>2, <1>3, <1>4, <1>5, <1>6, <1>7 DEF Next, Process, Backtest

\* Research is asked for on a commit this job's baseline ran on, as long as no
\* process died and no state file was lost, whatever is deployed meanwhile.
THEOREM CurrentCommit == Spec => []ResearchOnCurrentCommit
<1>1. Init => OnCommit
  BY DEF Init, MissingState, FreshLaunchState, Plain, Action, At, OnCommit,
         CheckpointIsBaseline, RerunsAreOfTheirCommit, Resolved, AheadOfResearch, BaselineRan
<1>2. Consistent /\ OnCommit => ResearchOnCurrentCommit
  BY DEF ResearchOnCurrentCommit, OnCommit, Whole, Resolved, AheadOfResearch, BaselineOn,
         Consistent, PlaceMatchesState
<1> QED
  BY <1>1, <1>2, NextOnCommit, AlwaysConsistent, PTL DEF Spec
=============================================================================
