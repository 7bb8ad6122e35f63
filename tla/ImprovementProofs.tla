------------------------- MODULE ImprovementProofs -------------------------
(***************************************************************************)
(* What the self-improvement loop keeps apart, for any families, flags,    *)
(* suites and intervals, any number of rounds, launches and evaluations,   *)
(* and controllers that die anywhere.                                      *)
(***************************************************************************)
EXTENDS Improvement, SequenceTheorems, TLAPS

Decisions == {"revert", "inconclusive", "keep"}
Applying == {"edit", "eval", "decide"}
Holding == Applying \cup {"release", "unlink"}
Afterwards == {"release", "unlink", "ratchet", "report"}

Stored == Trialled \cup CliResults

\* What the properties need of the types.
Typed ==
    /\ evals \in Seq(Stored)
    /\ at \in [Families -> Places] /\ round \in [Families -> Nat]
    /\ exported \in [Families -> SUBSET Nat] /\ fed \in [Families -> Nat]
    /\ trial \in [Families -> Trials]
    /\ verdict \in [Families -> [decision : {None} \cup Decisions, trial : Trials]]
    /\ DOMAIN own = Families /\ DOMAIN batches = Families

\* A payload is known only while its lock may be held, and a round has a decision only
\* from the end of the apply until the reports.
OwnIsHeld == \A f \in Families : own[f] # None => at[f] \in Holding
DecisionsAreOfTheRound ==
    \A f \in Families : at[f] \notin Afterwards => trial[f].status = None

-----------------------------------------------------------------------------
LEMMA RankIsOfDecisions == DOMAIN Rank = Decisions
BY DEF Rank, Decisions

LEMMA NothingIsTyped ==
    /\ NotRun \in Trials /\ NotRun.status = None
    /\ NoVerdict \in [decision : {None} \cup Decisions, trial : Trials]
    /\ NoVerdict.decision = None /\ NoVerdict.trial = NotRun
BY RankIsOfDecisions DEF NotRun, NoVerdict, Trials, Statuses

LEMMA InitTyped == Init => Typed /\ OwnIsHeld /\ DecisionsAreOfTheRound
<1> SUFFICES ASSUME Init PROVE Typed /\ OwnIsHeld /\ DecisionsAreOfTheRound
  OBVIOUS
<1>1. evals \in Seq(Stored)
  BY EmptySeq DEF Init
<1>2. exported \in [Families -> SUBSET Nat] /\ round \in [Families -> Nat]
  BY ConstantsAssumption DEF Init
<1>3. at \in [Families -> Places] /\ fed \in [Families -> Nat]
  BY DEF Init, Places
<1>4. trial \in [Families -> Trials]
      /\ verdict \in [Families -> [decision : {None} \cup Decisions, trial : Trials]]
  BY NothingIsTyped DEF Init
<1>5. Typed
  BY <1>1, <1>2, <1>3, <1>4 DEF Init, Typed
<1> QED
  BY <1>5, NothingIsTyped DEF Init, OwnIsHeld, DecisionsAreOfTheRound

LEMMA ClassifiedIsADecision == \A c, p : Classified(c, p) \in Decisions
BY DEF Classified, Decisions

LEMMA ComparisonIsAStatus ==
    \A c, p : Comparison(c, p) \in Decisions \cup {"aborted"}
BY ClassifiedIsADecision DEF Comparison, Decisions

\* The trial a hook leaves behind.
LEMMA TrialsAreTyped ==
    ASSUME Typed, NEW f \in Families
    PROVE  /\ LatestEval \in Nat
           /\ Aborted(f) \in Trials /\ Aborted(f).status = "aborted"
           /\ Decided(f) \in Trials
           /\ Decided(f).status = Comparison(trial[f].mine, trial[f].prior)
           /\ Decided(f).mine = trial[f].mine /\ Decided(f).prior = trial[f].prior
<1>1. trial[f] \in Trials
  BY DEF Typed
<1>2. LatestEval \in Nat
  BY LenProperties DEF Typed, LatestEval
<1>3. Statuses = {None, "aborted"} \cup Decisions
  BY RankIsOfDecisions DEF Statuses
<1>4. Aborted(f) \in Trials /\ Aborted(f).status = "aborted"
  BY <1>1, <1>3 DEF Aborted, Trials
<1>5. PICK status \in Statuses : status = Comparison(trial[f].mine, trial[f].prior)
  BY <1>3, ComparisonIsAStatus
<1>6. PICK path \in Nat : Decided(f) = [trial[f] EXCEPT !.status = status, !.path = path]
  BY <1>2, <1>5 DEF Decided
<1>7. Decided(f) \in Trials /\ Decided(f).status = status
      /\ Decided(f).mine = trial[f].mine /\ Decided(f).prior = trial[f].prior
  BY <1>1, <1>2, <1>6 DEF Trials
<1> QED
  BY <1>2, <1>4, <1>5, <1>7

LEMMA NumbersOfTrials ==
    ASSUME NEW t \in Trials, NEW n \in Nat
    PROVE  /\ [t EXCEPT !.prior = n] \in Trials
           /\ [t EXCEPT !.prior = n].status = t.status /\ [t EXCEPT !.prior = n].prior = n
           /\ [t EXCEPT !.mine = n] \in Trials
           /\ [t EXCEPT !.mine = n].status = t.status /\ [t EXCEPT !.mine = n].mine = n
           /\ [t EXCEPT !.mine = n].prior = t.prior
BY DEF Trials

\* The end of the try block: the trial is the decision.
LEMMA Released ==
    ASSUME Typed, NEW f \in Families, NEW t \in Trials, Release(f, t)
    PROVE  /\ trial' \in [Families -> Trials] /\ trial'[f] = t
           /\ \A g \in Families : g # f => trial'[g] = trial[g]
           /\ own' = own
           /\ at' \in [Families -> Places] /\ at'[f] = "release"
           /\ \A g \in Families : g # f => at'[g] = at[g]
BY DEF Release, lockVars, Tries, Goes, Typed, Places

\* A result that is stored leaves those before it alone.
LEMMA StoredEvals ==
    ASSUME Typed, NEW r \in Stored, evals' = Append(evals, r)
    PROVE  /\ evals' \in Seq(Stored) /\ Len(evals') = Len(evals) + 1 /\ Len(evals) \in Nat
           /\ \A i \in 1 .. Len(evals) : evals'[i] = evals[i]
BY AppendProperties, LenProperties DEF Typed

\* The steps of a controller, at its place and at its trial.
Moves(f, place) ==
    at' \in [Families -> Places] /\ at'[f] = place /\ \A g \in Families : g # f => at'[g] = at[g]

LEMMA GoesMoves ==
    ASSUME Typed, NEW f \in Families, NEW place \in Places, Goes(f, place)
    PROVE  Moves(f, place)
BY DEF Goes, Moves, Typed

LEMMA TriesTrial ==
    ASSUME Typed, NEW f \in Families, NEW t \in Trials, Tries(f, t)
    PROVE  /\ trial' \in [Families -> Trials] /\ trial'[f] = t
           /\ \A g \in Families : g # f => trial'[g] = trial[g]
BY DEF Tries, Typed

LEMMA ExportIsTyped ==
    ASSUME Typed, NEW f \in Families
    PROVE  [exported EXCEPT ![f] = @ \cup {round[f]}] \in [Families -> SUBSET Nat]
BY DEF Typed

Held == OwnIsHeld /\ DecisionsAreOfTheRound

LEMMA StepTyped == ASSUME Typed, Held, [Next]_vars PROVE Typed' /\ Held'
<1> USE DEF Held
<1> DEFINE Done == Typed' /\ Held'
<1>1. ASSUME NEW f \in Families, StartRound(f) PROVE Done
  <2>1. Moves(f, "round") /\ at[f] = "idle"
    BY <1>1, GoesMoves DEF StartRound, Places
  <2>2. Feedback(f) \in Nat
    BY DEF Feedback, Typed
  <2>3. fed' \in [Families -> Nat]
    BY <1>1, <2>2 DEF StartRound, Typed
  <2>4. UNCHANGED <<evals, round, exported, trial, verdict, own, batches>>
    BY <1>1 DEF StartRound, hookVars, lockVars
  <2> QED
    BY <2>1, <2>3, <2>4
    DEF Moves, Typed, OwnIsHeld, DecisionsAreOfTheRound,
        Holding, Applying, Afterwards
<1>2. ASSUME NEW f \in Families, EndRound(f) PROVE Done
  <2>1. (Moves(f, "acquire") \/ Moves(f, "ratchet")) /\ at[f] = "round"
    BY <1>2, GoesMoves DEF EndRound, Mine, Places
  <2>2. exported' \in [Families -> SUBSET Nat]
    BY <1>2, ExportIsTyped DEF EndRound, Typed
  <2>3. fed' \in [Families -> Nat]
    BY <1>2 DEF EndRound, Typed
  <2>4. UNCHANGED <<evals, round, trial, verdict, own, batches>>
    BY <1>2 DEF EndRound, hookVars, lockVars
  <2> QED
    BY <2>1, <2>2, <2>3, <2>4
    DEF Moves, Typed, OwnIsHeld, DecisionsAreOfTheRound,
        Holding, Applying, Afterwards
<1>3. ASSUME NEW f \in Families, NEW t \in Trials, Release(f, t), at[f] \in Holding,
             evals' \in Seq(Stored), UNCHANGED <<roundVars, verdict>>
      PROVE  Done
  BY <1>3, Released
  DEF roundVars, Typed, OwnIsHeld, DecisionsAreOfTheRound, Holding, Applying, Afterwards
<1>4. ASSUME NEW f \in Families, Acquire(f) PROVE Done
  <2>1. UNCHANGED <<evals, roundVars, verdict>> /\ at[f] = "acquire"
    BY <1>4 DEF Acquire
  <2>2. CASE CreateLock(f)
    <3>1. Moves(f, "write") /\ UNCHANGED <<own, trial>>
      BY <2>2, GoesMoves DEF CreateLock, Places
    <3> QED
      BY <2>1, <3>1
      DEF lockVars, roundVars, Moves, Typed, OwnIsHeld, DecisionsAreOfTheRound,
          Holding, Applying, Afterwards
  <2>4. CASE LockHeld(f)
    <3>1. Moves(f, "ratchet") /\ own' = own
      BY <2>4, GoesMoves DEF LockHeld, lockVars, Places
    <3>2. trial' \in [Families -> Trials] /\ \A g \in Families : g # f => trial'[g] = trial[g]
      BY <2>4, TriesTrial, TrialsAreTyped DEF LockHeld
    <3> QED
      BY <2>1, <3>1, <3>2
      DEF lockVars, roundVars, Moves, Typed, OwnIsHeld, DecisionsAreOfTheRound,
          Holding, Applying, Afterwards
  <2> QED
    BY <1>4, <2>2, <2>4 DEF Acquire
<1>16. ASSUME NEW f \in Families, WriteLock(f) PROVE Done
  <2>1. Moves(f, "read") \/ Moves(f, "ratchet")
    BY <1>16, GoesMoves DEF WriteLock, Places
  <2>2. at[f] = "write" /\ UNCHANGED <<own, trial, evals, roundVars, verdict>>
    BY <1>16 DEF WriteLock
  <2> QED
    BY <2>1, <2>2
    DEF lockVars, roundVars, Moves, Typed, OwnIsHeld, DecisionsAreOfTheRound,
        Holding, Applying, Afterwards
<1>17. ASSUME NEW f \in Families, ReadBack(f) PROVE Done
  <2>1. Moves(f, "edit") /\ at[f] = "read" /\ UNCHANGED <<trial, evals, roundVars, verdict>>
    BY <1>17, GoesMoves DEF ReadBack, Places
  <2>2. DOMAIN own' = Families /\ \A g \in Families : g # f => own'[g] = own[g]
    BY <1>17 DEF ReadBack, Typed
  <2> QED
    BY <2>1, <2>2
    DEF lockVars, roundVars, Moves, Typed, OwnIsHeld, DecisionsAreOfTheRound,
        Holding, Applying, Afterwards
<1>18. ASSUME NEW f \in Families, Compare(f) \/ Unlink(f) PROVE Done
  <2>1. at[f] \in {"release", "unlink"} /\ UNCHANGED <<trial, evals, roundVars, verdict>>
    BY <1>18 DEF Compare, Unlink
  <2>2. \/ Moves(f, "unlink") /\ own' = own
        \/ /\ Moves(f, "ratchet") /\ DOMAIN own' = Families /\ own'[f] = None
           /\ \A g \in Families : g # f => own'[g] = own[g]
    BY <1>18, GoesMoves DEF Compare, Unlink, Places, Typed
  <2> QED
    BY <2>1, <2>2
    DEF lockVars, roundVars, Moves, Typed, OwnIsHeld, DecisionsAreOfTheRound,
        Holding, Applying, Afterwards
<1>5. ASSUME NEW f \in Families, Edit(f) PROVE Done
  <2>1. UNCHANGED <<evals, roundVars, verdict>> /\ at[f] = "edit"
    BY <1>5 DEF Edit
  <2>2. CASE Release(f, Aborted(f))
    BY <1>3, <2>1, <2>2, TrialsAreTyped DEF Typed, Holding, Applying, Afterwards
  <2>3. CASE Goes(f, "eval") /\ Tries(f, [trial[f] EXCEPT !.prior = LatestEval])
             /\ UNCHANGED lockVars
    <3>1. Moves(f, "eval")
      BY <2>3, GoesMoves DEF Places
    <3>2. [trial[f] EXCEPT !.prior = LatestEval] \in Trials
          /\ [trial[f] EXCEPT !.prior = LatestEval].status = trial[f].status
      BY TrialsAreTyped, NumbersOfTrials DEF Typed
    <3>3. /\ trial' \in [Families -> Trials] /\ trial'[f].status = trial[f].status
          /\ \A g \in Families : g # f => trial'[g] = trial[g]
      BY <2>3, <3>2, TriesTrial
    <3> QED
      BY <2>1, <2>3, <3>1, <3>3
      DEF lockVars, roundVars, Moves, Typed, OwnIsHeld, DecisionsAreOfTheRound,
          Holding, Applying, Afterwards
  <2> QED
    BY <1>5, <2>2, <2>3 DEF Edit
<1>6. ASSUME NEW f \in Families, Evaluate(f) PROVE Done
  <2>1. UNCHANGED <<roundVars, verdict>> /\ at[f] = "eval"
    BY <1>6 DEF Evaluate
  <2>2. CASE Release(f, Aborted(f)) /\ UNCHANGED evals
    BY <1>3, <2>1, <2>2, TrialsAreTyped DEF Typed, Holding, Applying, Afterwards
  <2>3. ASSUME NEW r \in Trialled, evals' = Append(evals, r), Goes(f, "decide"),
               Tries(f, [trial[f] EXCEPT !.mine = LatestEval + 1]), UNCHANGED lockVars
        PROVE  Done
    <3>1. Moves(f, "decide")
      BY <2>3, GoesMoves DEF Places
    <3>a. LatestEval + 1 \in Nat /\ trial[f] \in Trials
      BY TrialsAreTyped DEF Typed
    <3>2. [trial[f] EXCEPT !.mine = LatestEval + 1] \in Trials
          /\ [trial[f] EXCEPT !.mine = LatestEval + 1].status = trial[f].status
      BY <3>a, NumbersOfTrials
    <3>3. /\ trial' \in [Families -> Trials] /\ trial'[f].status = trial[f].status
          /\ \A g \in Families : g # f => trial'[g] = trial[g]
      BY <2>3, <3>2, TriesTrial
    <3>4. evals' \in Seq(Stored)
      BY <2>3, StoredEvals DEF Stored
    <3> QED
      BY <2>1, <2>3, <3>1, <3>3, <3>4
      DEF lockVars, roundVars, Moves, Typed, OwnIsHeld, DecisionsAreOfTheRound,
          Holding, Applying, Afterwards
  <2> QED
    BY <1>6, <2>2, <2>3 DEF Evaluate
<1>7. ASSUME NEW f \in Families, Decide(f) PROVE Done
  <2>1. UNCHANGED <<evals, roundVars, verdict>> /\ at[f] = "decide"
    BY <1>7 DEF Decide
  <2>2. PICK t \in {Decided(f), Aborted(f), NotRun} : Release(f, t)
    BY <1>7 DEF Decide
  <2>3. t \in Trials
    BY TrialsAreTyped, NothingIsTyped
  <2> QED
    BY <1>3, <2>1, <2>2, <2>3 DEF Typed, Holding, Applying, Afterwards
<1>8. ASSUME NEW f \in Families, Ratchet(f) PROVE Done
  <2>1. Moves(f, "report") /\ at[f] = "ratchet" /\ UNCHANGED <<hookVars, roundVars>>
    BY <1>8, GoesMoves DEF Ratchet, Places
  <2>2. verdict' \in [Families -> [decision : {None} \cup Decisions, trial : Trials]]
    <3>1. CASE UNCHANGED verdict
      BY <3>1 DEF Typed
    <3>2. ASSUME NEW v \in Decisions,
                 verdict' = [verdict EXCEPT ![f] =
                     [decision |-> Combined(v, trial[f].status), trial |-> trial[f]]]
          PROVE  verdict' \in [Families -> [decision : {None} \cup Decisions, trial : Trials]]
      <4>1. trial[f].status \in {None, "aborted"} \cup Decisions
        BY RankIsOfDecisions DEF Typed, Trials, Statuses
      <4>2. Combined(v, trial[f].status) \in Decisions
        BY <4>1 DEF Combined, Contribution, Decisions
      <4> QED
        BY <3>2, <4>2 DEF Typed
    <3>3. \A c \in BOOLEAN : KeptIfCompiled(c) \in Decisions
      BY DEF KeptIfCompiled, Decisions
    <3>4. Benchmark(trial[f].path) \in Decisions /\ "inconclusive" \in Decisions
      BY ClassifiedIsADecision DEF Benchmark, Decisions
    <3> QED
      BY <1>8, <3>1, <3>2, <3>3, <3>4 DEF Ratchet
  <2> QED
    BY <2>1, <2>2
    DEF hookVars, lockVars, roundVars, Moves, Typed, OwnIsHeld, DecisionsAreOfTheRound,
        Holding, Applying, Afterwards
<1>9. ASSUME NEW f \in Families, Report(f) PROVE Done
  <2>1. Moves(f, "advance") /\ at[f] = "report"
    BY <1>9, GoesMoves DEF Report, Places
  <2>2. /\ trial' \in [Families -> Trials] /\ trial'[f] = NotRun
        /\ \A g \in Families : g # f => trial'[g] = trial[g]
    BY <1>9, TriesTrial, NothingIsTyped DEF Report
  <2>3. verdict' \in [Families -> [decision : {None} \cup Decisions, trial : Trials]]
    BY <1>9, NothingIsTyped DEF Report, Typed
  <2>4. UNCHANGED <<round, exported, fed, evals, own>> /\ DOMAIN batches' = Families
    BY <1>9 DEF Report, WritesBatch, lockVars, Typed
  <2> QED
    BY <2>1, <2>2, <2>3, <2>4, NothingIsTyped
    DEF Moves, Typed, OwnIsHeld, DecisionsAreOfTheRound, Holding, Applying, Afterwards
<1>10. ASSUME NEW f \in Families, Advance(f) PROVE Done
  <2>1. Moves(f, "idle") /\ at[f] = "advance"
    BY <1>10, GoesMoves DEF Advance, Places
  <2>2. round' \in [Families -> Nat]
    BY <1>10 DEF Advance, Typed
  <2> QED
    BY <1>10, <2>1, <2>2
    DEF Advance, hookVars, lockVars, Moves, Typed, OwnIsHeld, DecisionsAreOfTheRound,
        Holding, Applying, Afterwards
<1>11. CASE EvalCli
  <2>1. evals' \in Seq(Stored)
    BY <1>11, StoredEvals DEF EvalCli, Stored
  <2> QED
    BY <1>11, <2>1 DEF EvalCli, lockVars, roundVars, Typed, OwnIsHeld, DecisionsAreOfTheRound
<1>12. CASE RemoveLock
  BY <1>12 DEF RemoveLock, Typed, OwnIsHeld, DecisionsAreOfTheRound
<1>13. ASSUME NEW f \in Families, Die(f) PROVE Done
  <2>1. Moves(f, "dead")
    BY <1>13, GoesMoves DEF Die, Places
  <2>2. /\ trial' \in [Families -> Trials] /\ trial'[f] = NotRun
        /\ \A g \in Families : g # f => trial'[g] = trial[g]
    BY <1>13, TriesTrial, NothingIsTyped DEF Die
  <2>3. verdict' \in [Families -> [decision : {None} \cup Decisions, trial : Trials]]
        /\ fed' \in [Families -> Nat]
    BY <1>13, NothingIsTyped DEF Die, Typed
  <2>4. DOMAIN own' = Families /\ own'[f] = None /\ \A g \in Families : g # f => own'[g] = own[g]
    BY <1>13 DEF Die, Typed
  <2> QED
    BY <1>13, <2>1, <2>2, <2>3, <2>4, NothingIsTyped
    DEF Die, Moves, Typed, OwnIsHeld, DecisionsAreOfTheRound, Holding, Applying, Afterwards
<1>14. ASSUME NEW f \in Families, Relaunch(f) PROVE Done
  <2>1. Moves(f, "idle") /\ at[f] = "dead"
    BY <1>14, GoesMoves DEF Relaunch, Places
  <2> QED
    BY <1>14, <2>1
    DEF Relaunch, hookVars, lockVars, Moves, Typed, OwnIsHeld, DecisionsAreOfTheRound,
        Holding, Applying, Afterwards
<1>15. CASE UNCHANGED vars
  BY <1>15 DEF vars, lockVars, Typed, OwnIsHeld, DecisionsAreOfTheRound
<1> QED
  BY <1>1, <1>2, <1>4, <1>5, <1>6, <1>7, <1>8, <1>9, <1>10, <1>11, <1>12, <1>13, <1>14, <1>15,
     <1>16, <1>17, <1>18
  DEF Next, Hook

-----------------------------------------------------------------------------
(* Decisions to keep.                                                      *)

\* What a decision to keep was made of.
Earned(t) ==
    /\ t.prior > 0 /\ t.prior < t.mine /\ t.mine <= Len(evals)
    /\ Better(evals[t.mine], evals[t.prior])

\* The prior was stored before the trial's own result, and both are stored.
Measured ==
    \A f \in Families :
        /\ at[f] = "eval" => trial[f].prior <= Len(evals)
        /\ at[f] = "decide" => trial[f].prior < trial[f].mine /\ trial[f].mine <= Len(evals)
        /\ trial[f].status = "keep" => Earned(trial[f])
        /\ verdict[f].decision = "keep" /\ verdict[f].trial.status # None =>
              verdict[f].trial.status = "keep" /\ Earned(verdict[f].trial)

\* Results are only added.
LEMMA EvalsGrow ==
    ASSUME Typed, [Next]_vars
    PROVE  /\ Len(evals) \in Nat /\ Len(evals') \in Nat /\ Len(evals) <= Len(evals')
           /\ \A i \in 1 .. Len(evals) : evals'[i] = evals[i]
<1>1. Len(evals) \in Nat
  BY LenProperties DEF Typed
<1>2. CASE UNCHANGED evals
  BY <1>1, <1>2
<1>3. ASSUME NEW r \in Stored, evals' = Append(evals, r)
      PROVE  /\ Len(evals') \in Nat /\ Len(evals) <= Len(evals')
             /\ \A i \in 1 .. Len(evals) : evals'[i] = evals[i]
  BY <1>1, <1>3, StoredEvals
<1>4. UNCHANGED evals \/ \E r \in Stored : evals' = Append(evals, r)
  BY DEF Next, StartRound, EndRound, Hook, Acquire, WriteLock, ReadBack, Compare, Unlink, Edit,
     Evaluate, Decide, Ratchet, Report,
     Advance, EvalCli, RemoveLock, Die, Relaunch, hookVars, vars, Stored
<1> QED
  BY <1>1, <1>2, <1>3, <1>4

LEMMA EarnedStays ==
    ASSUME Typed, [Next]_vars, NEW t \in Trials, Earned(t)
    PROVE  Earned(t)'
<1>1. t.mine \in Nat /\ t.prior \in Nat
  BY DEF Trials
<1>2. t.mine \in 1 .. Len(evals) /\ t.prior \in 1 .. Len(evals)
  BY <1>1, EvalsGrow DEF Earned
<1>3. evals'[t.mine] = evals[t.mine] /\ evals'[t.prior] = evals[t.prior]
  BY <1>2, EvalsGrow
<1>4. t.mine <= Len(evals')
  BY <1>1, EvalsGrow DEF Earned
<1> QED
  BY <1>3, <1>4 DEF Earned

\* The comparison that ends in "keep".
LEMMA KeptIsEarned ==
    ASSUME Typed, NEW f \in Families, at[f] = "decide", Measured, Decided(f).status = "keep"
    PROVE  Earned(Decided(f))
<1> DEFINE current == evals[trial[f].mine]
           prior == evals[trial[f].prior]
<1>1. Comparison(trial[f].mine, trial[f].prior) = "keep"
  BY TrialsAreTyped
<1>2. trial[f].prior # 0 /\ current.metric = prior.metric /\ Classified(current, prior) = "keep"
  BY <1>1 DEF Comparison
<1>3. Better(current, prior)
  BY <1>2 DEF Classified, Better
<1>4. trial[f].prior \in Nat
  BY DEF Typed, Trials
<1> QED
  BY <1>2, <1>3, <1>4, TrialsAreTyped DEF Measured, Earned

\* The ratchet only lowers its own verdict to that of the apply.
LEMMA CombinedIsKept ==
    ASSUME NEW v \in Decisions, NEW status \in {"aborted"} \cup Decisions,
           Combined(v, status) = "keep", status # None
    PROVE  status = "keep"
BY DEF Combined, Contribution, Rank, Decisions

LEMMA StepMeasured ==
    ASSUME Typed, Held, Measured, [Next]_vars
    PROVE  Measured'
<1>1. Len(evals) \in Nat /\ Len(evals') \in Nat /\ Len(evals) <= Len(evals')
  BY EvalsGrow
<1>2. \A f \in Families : trial[f] \in Trials /\ verdict[f].trial \in Trials
  BY DEF Typed
<1> DEFINE
      Stays(g) ==
        /\ at'[g] \in {"eval", "decide"} => at'[g] = at[g] /\ trial'[g] = trial[g]
        /\ trial'[g] = trial[g] \/ trial'[g].status # "keep"
        /\ verdict'[g] = verdict[g]
      Fine(g) ==
        /\ at'[g] = "eval" => trial'[g].prior <= Len(evals')
        /\ at'[g] = "decide" => trial'[g].prior < trial'[g].mine /\ trial'[g].mine <= Len(evals')
        /\ trial'[g].status = "keep" => \A t \in Trials : t = trial'[g] => Earned(t)'
        /\ verdict'[g].decision = "keep" /\ verdict'[g].trial.status # None =>
              /\ verdict'[g].trial.status = "keep"
              /\ \A t \in Trials : t = verdict'[g].trial => Earned(t)'
<1>3. ASSUME NEW g \in Families
      PROVE  /\ trial[g].status = "keep" => \A t \in Trials : t = trial[g] => Earned(t)'
             /\ verdict[g].decision = "keep" /\ verdict[g].trial.status # None =>
                  /\ verdict[g].trial.status = "keep"
                  /\ \A t \in Trials : t = verdict[g].trial => Earned(t)'
  <2>1. ASSUME NEW t \in Trials, t = trial[g], trial[g].status = "keep" PROVE Earned(t)'
    BY <2>1, EarnedStays DEF Measured
  <2>2. ASSUME NEW t \in Trials, t = verdict[g].trial, verdict[g].decision = "keep",
               verdict[g].trial.status # None
        PROVE  Earned(t)'
    BY <2>2, EarnedStays DEF Measured
  <2> QED
    BY <2>1, <2>2 DEF Measured
<1>4. ASSUME NEW g \in Families, Stays(g) PROVE Fine(g)
  <2>1. trial[g].prior \in Nat /\ trial[g].mine \in Nat
    BY <1>2 DEF Trials
  <2>2. at'[g] = "eval" => trial'[g].prior <= Len(evals')
    BY <1>1, <1>4, <2>1 DEF Measured
  <2>3. at'[g] = "decide" => trial'[g].prior < trial'[g].mine /\ trial'[g].mine <= Len(evals')
    BY <1>1, <1>4, <2>1 DEF Measured
  <2> QED
    BY <1>3, <1>4, <2>2, <2>3
<1>5. SUFFICES \A g \in Families : Fine(g)
  <2>1. Typed'
    BY StepTyped
  <2>2. \A g \in Families : trial'[g] \in Trials /\ verdict'[g].trial \in Trials
    BY <2>1 DEF Typed
  <2> QED
    BY <1>5, <2>2 DEF Measured
<1> HIDE DEF Fine
<1>6. /\ None # "keep"
      /\ \A g \in Families : at[g] \notin Afterwards => trial[g].status # "keep"
  BY ConstantsAssumption DEF Held, DecisionsAreOfTheRound
<1>7. ASSUME NEW f \in Families, NEW t \in Trials, Release(f, t), t.status # "keep",
             UNCHANGED verdict
      PROVE  \A g \in Families : Stays(g)
  BY <1>7, Released
<1>8. ASSUME NEW f \in Families, NEW place \in Places \ {"eval", "decide"}, Goes(f, place),
             UNCHANGED <<trial, verdict>>
      PROVE  \A g \in Families : Stays(g)
  BY <1>8, GoesMoves DEF Moves
<1>9. ASSUME NEW f \in Families,
             \/ StartRound(f) \/ EndRound(f) \/ Advance(f) \/ Relaunch(f)
             \/ CreateLock(f) \/ WriteLock(f) \/ ReadBack(f) \/ Compare(f) \/ Unlink(f),
             UNCHANGED <<trial, verdict>>
      PROVE  \A g \in Families : Stays(g)
  BY <1>8, <1>9
  DEF StartRound, EndRound, Mine, Advance, Relaunch, CreateLock, WriteLock, ReadBack, Compare,
      Unlink, Places
<1>10. ASSUME NEW f \in Families, Acquire(f) PROVE \A g \in Families : Stays(g)
  <2>1. CASE LockHeld(f)
    <3>1. Moves(f, "ratchet") /\ UNCHANGED verdict
      BY <1>10, <2>1, GoesMoves DEF Acquire, LockHeld, Places
    <3>2. trial'[f].status = "aborted" /\ \A g \in Families : g # f => trial'[g] = trial[g]
      BY <2>1, TriesTrial, TrialsAreTyped DEF LockHeld
    <3> QED
      BY <3>1, <3>2 DEF Moves
  <2> QED
    BY <1>9, <1>10, <2>1 DEF Acquire, CreateLock
<1>11. ASSUME NEW f \in Families, Edit(f) PROVE \A g \in Families : Fine(g)
  <2>1. CASE Release(f, Aborted(f))
    BY <1>4, <1>7, <1>11, <2>1, TrialsAreTyped DEF Edit
  <2>2. CASE Goes(f, "eval") /\ Tries(f, [trial[f] EXCEPT !.prior = LatestEval])
    <3>1. Moves(f, "eval") /\ UNCHANGED <<evals, verdict>> /\ at[f] = "edit"
      BY <1>11, <2>2, GoesMoves DEF Edit, Places
    <3> DEFINE t == [trial[f] EXCEPT !.prior = LatestEval]
    <3>a. t \in Trials /\ t.status = trial[f].status /\ t.prior = LatestEval
      BY <1>2, NumbersOfTrials, TrialsAreTyped
    <3> HIDE DEF t
    <3>b. Tries(f, t)
      BY <2>2 DEF t
    <3>c. trial'[f] = t /\ \A g \in Families : g # f => trial'[g] = trial[g]
      BY <3>a, <3>b, TriesTrial
    <3>2. /\ trial'[f].status = trial[f].status /\ trial'[f].prior = Len(evals)
          /\ \A g \in Families : g # f => trial'[g] = trial[g]
      BY <3>a, <3>c DEF LatestEval
    <3>3. \A g \in Families : g # f => Fine(g)
      BY <1>4, <3>1, <3>2 DEF Moves
    <3>4. trial'[f].status # "keep" /\ verdict'[f] = verdict[f]
      BY <1>6, <3>1, <3>2 DEF Afterwards
    <3>5. at'[f] = "eval" /\ trial'[f].prior <= Len(evals')
      BY <1>1, <3>1, <3>2 DEF Moves
    <3>6. Fine(f)
      BY <1>3, <3>4, <3>5 DEF Fine
    <3> QED
      BY <3>3, <3>6
  <2> QED
    BY <1>11, <2>1, <2>2 DEF Edit
<1>12. ASSUME NEW f \in Families, Evaluate(f) PROVE \A g \in Families : Fine(g)
  <2>1. CASE Release(f, Aborted(f))
    BY <1>4, <1>7, <1>12, <2>1, TrialsAreTyped DEF Evaluate
  <2>2. ASSUME NEW r \in Trialled, evals' = Append(evals, r), Goes(f, "decide"),
               Tries(f, [trial[f] EXCEPT !.mine = LatestEval + 1])
        PROVE  \A g \in Families : Fine(g)
    <3>1. Moves(f, "decide") /\ UNCHANGED verdict /\ at[f] = "eval"
      BY <1>12, <2>2, GoesMoves DEF Evaluate, Places
    <3>2. Len(evals) + 1 \in Nat /\ Len(evals') = Len(evals) + 1
      BY <2>2, StoredEvals DEF Stored
    <3> DEFINE t == [trial[f] EXCEPT !.mine = LatestEval + 1]
    <3>a. /\ t \in Trials /\ t.status = trial[f].status
          /\ t.prior = trial[f].prior /\ t.mine = LatestEval + 1
      BY <1>2, <3>2, NumbersOfTrials DEF LatestEval
    <3> HIDE DEF t
    <3>b. Tries(f, t)
      BY <2>2 DEF t
    <3>c. trial'[f] = t /\ \A g \in Families : g # f => trial'[g] = trial[g]
      BY <3>a, <3>b, TriesTrial
    <3>3. /\ trial'[f].status = trial[f].status /\ trial'[f].mine = Len(evals) + 1
          /\ trial'[f].prior = trial[f].prior
          /\ \A g \in Families : g # f => trial'[g] = trial[g]
      BY <3>a, <3>c DEF LatestEval
    <3>4. \A g \in Families : g # f => Fine(g)
      BY <1>4, <3>1, <3>3 DEF Moves
    <3>5. trial[f].prior <= Len(evals) /\ trial[f].prior \in Nat
      BY <1>2, <3>1 DEF Measured, Trials
    <3>6. trial'[f].status # "keep" /\ verdict'[f] = verdict[f]
      BY <1>6, <3>1, <3>3 DEF Afterwards
    <3>7. /\ at'[f] = "decide" /\ trial'[f].prior < trial'[f].mine
          /\ trial'[f].mine <= Len(evals')
      BY <1>1, <3>1, <3>2, <3>3, <3>5 DEF Moves
    <3>8. Fine(f)
      BY <1>3, <3>6, <3>7 DEF Fine
    <3> QED
      BY <3>4, <3>8
  <2> QED
    BY <1>12, <2>1, <2>2 DEF Evaluate
<1>13. ASSUME NEW f \in Families, Decide(f) PROVE \A g \in Families : Fine(g)
  <2>1. PICK t \in {Decided(f), Aborted(f), NotRun} : Release(f, t)
    BY <1>13 DEF Decide
  <2>2. t \in Trials /\ UNCHANGED <<evals, verdict>> /\ at[f] = "decide"
    BY <1>13, TrialsAreTyped, NothingIsTyped DEF Decide
  <2>3. CASE t.status # "keep"
    BY <1>4, <1>7, <2>1, <2>2, <2>3
  <2>4. CASE t.status = "keep"
    <3>1. t = Decided(f)
      BY <1>6, <2>1, <2>4, TrialsAreTyped, NothingIsTyped
    <3>2. Earned(t)
      BY <2>2, <2>4, <3>1, KeptIsEarned
    <3>3. Earned(t)'
      BY <2>2, <3>2, EarnedStays
    <3>4. \A g \in Families : g # f => Fine(g)
      BY <1>4, <2>1, <2>2, Released
    <3>5. Fine(f)
      BY <1>3, <2>1, <2>2, <3>3, Released DEF Fine
    <3> QED
      BY <3>4, <3>5
  <2> QED
    BY <2>3, <2>4
<1>14. ASSUME NEW f \in Families, Ratchet(f) PROVE \A g \in Families : Fine(g)
  <2>1. Moves(f, "report") /\ UNCHANGED <<trial, evals>>
    BY <1>14, GoesMoves DEF Ratchet, hookVars, Places
  <2>2. CASE UNCHANGED verdict
    BY <1>4, <2>1, <2>2 DEF Moves
  <2>3. ASSUME NEW v \in Decisions,
               verdict' = [verdict EXCEPT ![f] =
                   [decision |-> Combined(v, trial[f].status), trial |-> trial[f]]]
        PROVE  \A g \in Families : Fine(g)
    <3>1. /\ verdict'[f].decision = Combined(v, trial[f].status) /\ verdict'[f].trial = trial[f]
          /\ \A g \in Families : g # f => verdict'[g] = verdict[g]
      BY <2>3 DEF Typed
    <3>2. \A g \in Families : g # f => Fine(g)
      BY <1>4, <2>1, <3>1 DEF Moves
    <3>3. trial[f].status \in {None, "aborted"} \cup Decisions
      BY <1>2, RankIsOfDecisions DEF Trials, Statuses
    <3>4. verdict'[f].decision = "keep" /\ trial[f].status # None => trial[f].status = "keep"
      BY <3>1, <3>3, CombinedIsKept
    <3>5. Fine(f)
      BY <1>3, <2>1, <3>1, <3>4 DEF Fine, Moves
    <3> QED
      BY <3>2, <3>5
  <2>4. \A c \in BOOLEAN : KeptIfCompiled(c) \in Decisions
    BY DEF KeptIfCompiled, Decisions
  <2>5. Benchmark(trial[f].path) \in Decisions /\ "inconclusive" \in Decisions
    BY ClassifiedIsADecision DEF Benchmark, Decisions
  <2> QED
    BY <1>14, <2>2, <2>3, <2>4, <2>5 DEF Ratchet
<1>15. ASSUME NEW f \in Families, NEW place \in {"advance", "dead"}, Goes(f, place),
              Tries(f, NotRun), verdict' = [verdict EXCEPT ![f] = NoVerdict]
       PROVE  \A g \in Families : Fine(g)
  <2>1. Moves(f, place)
    BY <1>15, GoesMoves DEF Places
  <2>2. /\ trial'[f].status = None /\ \A g \in Families : g # f => trial'[g] = trial[g]
        /\ verdict'[f].trial.status = None
        /\ \A g \in Families : g # f => verdict'[g] = verdict[g]
    BY <1>15, NothingIsTyped, TriesTrial DEF Typed
  <2>3. \A g \in Families : g # f => Fine(g)
    BY <1>4, <2>1, <2>2 DEF Moves
  <2>4. Fine(f)
    BY <1>6, <1>15, <2>1, <2>2 DEF Fine, Moves
  <2> QED
    BY <2>3, <2>4
<1>16. CASE EvalCli \/ RemoveLock \/ UNCHANGED vars
  <2>1. UNCHANGED <<at, trial, verdict>>
    BY <1>16 DEF EvalCli, RemoveLock, vars
  <2> QED
    BY <1>4, <2>1
<1>17. ASSUME NEW f \in Families,
              \/ StartRound(f) \/ EndRound(f) \/ Advance(f) \/ Relaunch(f)
              \/ WriteLock(f) \/ ReadBack(f) \/ Compare(f) \/ Unlink(f)
       PROVE  \A g \in Families : Fine(g)
  <2>1. UNCHANGED <<trial, verdict>>
    BY <1>17 DEF StartRound, EndRound, Advance, Relaunch, WriteLock, ReadBack, Compare, Unlink,
       hookVars
  <2> QED
    BY <1>4, <1>9, <1>17, <2>1
<1>18. ASSUME NEW f \in Families, Report(f) \/ Die(f) PROVE \A g \in Families : Fine(g)
  BY <1>15, <1>18 DEF Report, Die
<1> QED
  BY <1>4, <1>10, <1>11, <1>12, <1>13, <1>14, <1>16, <1>17, <1>18 DEF Next, Hook

-----------------------------------------------------------------------------
(* What the next rounds are told.                                          *)

\* Report batches are of rounds that have ended.
BatchesAreEnded == \A f \in Families : \A n \in DOMAIN batches[f] : n \in Nat /\ n <= round[f]

Window(f, n) == {r \in exported[f] : r > n - Interval /\ r <= n}

LEMMA TracesAreTheWindow ==
    ASSUME Typed, NEW f \in Families, NEW n \in Nat
    PROVE  Traces(f, n) = Window(f, n)
<1>1. exported[f] \subseteq Nat /\ Interval \in Nat
  BY ConstantsAssumption DEF Typed
<1>2. \A r \in Nat : r \in FirstOfBatch(n) .. n <=> r > n - Interval /\ r <= n
  BY <1>1 DEF FirstOfBatch
<1> QED
  BY <1>1, <1>2 DEF Traces, Window

Memories == BatchesAreEnded /\ MemoriesMatchRounds

LEMMA StepMemories ==
    ASSUME Typed, Memories, [Next]_vars
    PROVE  Memories'
<1> USE DEF Memories
<1> DEFINE
      FedIsLast(f) == at'[f] = "round" /\ fed'[f] > 0 => fed'[f] = round'[f] - 1
      BatchesMatch(f) ==
        \A n \in DOMAIN batches'[f] :
            /\ n \in Nat /\ n <= round'[f]
            /\ batches'[f][n] \in {Window(f, n)', Window(f, n)' \ {n}}
<1>1. SUFFICES \A f \in Families : FedIsLast(f) /\ BatchesMatch(f)
  BY <1>1 DEF BatchesAreEnded, MemoriesMatchRounds, Window
<1>2. \A f \in Families : round[f] \in Nat /\ exported[f] \subseteq Nat
  BY DEF Typed
<1>3. \A f \in Families : /\ at[f] = "round" /\ fed[f] > 0 => fed[f] = round[f] - 1
                          /\ \A n \in DOMAIN batches[f] :
                                /\ n \in Nat /\ n <= round[f]
                                /\ batches[f][n] \in {Window(f, n), Window(f, n) \ {n}}
  BY DEF BatchesAreEnded, MemoriesMatchRounds, Window
<1>4. ASSUME NEW g \in Families, batches'[g] = batches[g], exported'[g] = exported[g],
             round'[g] = round[g] \/ round'[g] = round[g] + 1
      PROVE  BatchesMatch(g)
  <2>1. \A n : Window(g, n)' = Window(g, n)
    BY <1>4 DEF Window
  <2> QED
    BY <1>2, <1>3, <1>4, <2>1
<1>5. ASSUME NEW g \in Families, round'[g] = round[g],
             (fed'[g] = fed[g] /\ at'[g] = at[g]) \/ at'[g] # "round"
      PROVE  FedIsLast(g)
  BY <1>3, <1>5
<1> HIDE DEF FedIsLast, BatchesMatch
<1>6. ASSUME NEW f \in Families, StartRound(f)
      PROVE  \A g \in Families : FedIsLast(g) /\ BatchesMatch(g)
  <2>1. Moves(f, "round") /\ UNCHANGED <<round, exported, batches>>
    BY <1>6, GoesMoves DEF StartRound, Places
  <2>2. fed' = [fed EXCEPT ![f] = IF On("reflexion") THEN Feedback(f) ELSE 0]
    BY <1>6 DEF StartRound
  <2>3. fed'[f] \in {0, round[f] - 1} /\ \A g \in Families : g # f => fed'[g] = fed[g]
    BY <2>2 DEF Feedback, Typed
  <2>4. FedIsLast(f)
    BY <2>1, <2>3 DEF FedIsLast
  <2> QED
    BY <1>4, <1>5, <2>1, <2>3, <2>4 DEF Moves
<1>7. ASSUME NEW f \in Families, EndRound(f)
      PROVE  \A g \in Families : FedIsLast(g) /\ BatchesMatch(g)
  <2>1. (Moves(f, "acquire") \/ Moves(f, "ratchet")) /\ UNCHANGED <<round, batches>>
    BY <1>7, GoesMoves DEF EndRound, Mine, Places
  <2>2. \A g \in Families : g # f => fed'[g] = fed[g] /\ exported'[g] = exported[g]
    BY <1>7 DEF EndRound, Typed
  <2>3. exported'[f] \in {exported[f], exported[f] \cup {round[f]}}
    BY <1>7 DEF EndRound, Typed
  <2>4. ASSUME NEW n \in DOMAIN batches[f]
        PROVE  batches[f][n] \in {Window(f, n)', Window(f, n)' \ {n}}
    <3>1. n \in Nat /\ n <= round[f] /\ batches[f][n] \in {Window(f, n), Window(f, n) \ {n}}
      BY <1>3
    <3>2. Window(f, n)' \in {Window(f, n), Window(f, n) \cup {n}}
      BY <1>2, <2>3, <3>1, ConstantsAssumption DEF Window
    <3> QED
      BY <3>1, <3>2
  <2>5. BatchesMatch(f)
    BY <1>3, <2>1, <2>4 DEF BatchesMatch
  <2> QED
    BY <1>4, <1>5, <2>1, <2>2, <2>5 DEF Moves
<1>8. ASSUME NEW f \in Families, Report(f) PROVE \A g \in Families : FedIsLast(g) /\ BatchesMatch(g)
  <2>1. Moves(f, "advance") /\ UNCHANGED <<round, exported, fed>>
    BY <1>8, GoesMoves DEF Report, Places
  <2>2. CASE UNCHANGED batches
    BY <1>4, <1>5, <2>1, <2>2 DEF Moves
  <2>3. CASE WritesBatch(f)
    <3>1. /\ \A g \in Families : g # f => batches'[g] = batches[g]
          /\ batches'[f] = [n \in DOMAIN batches[f] \cup {round[f]} |->
                               IF n = round[f] THEN Traces(f, n) ELSE batches[f][n]]
      BY <2>3 DEF WritesBatch, Typed
    <3>2. ASSUME NEW n \in DOMAIN batches'[f]
          PROVE  /\ n \in Nat /\ n <= round'[f]
                 /\ batches'[f][n] \in {Window(f, n)', Window(f, n)' \ {n}}
      <4>1. Window(f, n)' = Window(f, n)
        BY <2>1 DEF Window
      <4>2. CASE n = round[f]
        BY <1>2, <2>1, <3>1, <4>1, <4>2, TracesAreTheWindow
      <4>3. CASE n # round[f]
        BY <1>3, <2>1, <3>1, <4>1, <4>3
      <4> QED
        BY <4>2, <4>3
    <3>3. BatchesMatch(f)
      BY <3>2 DEF BatchesMatch
    <3> QED
      BY <1>4, <1>5, <2>1, <3>1, <3>3 DEF Moves
  <2> QED
    BY <1>8, <2>2, <2>3 DEF Report
<1>9. ASSUME NEW f \in Families, Advance(f)
      PROVE  \A g \in Families : FedIsLast(g) /\ BatchesMatch(g)
  <2>1. Moves(f, "idle") /\ UNCHANGED <<exported, fed, batches>>
    BY <1>9, GoesMoves DEF Advance, Places
  <2>2. round'[f] = round[f] + 1 /\ \A g \in Families : g # f => round'[g] = round[g]
    BY <1>9 DEF Advance, Typed
  <2>3. FedIsLast(f)
    BY <2>1 DEF Moves, FedIsLast
  <2> QED
    BY <1>4, <1>5, <2>1, <2>2, <2>3 DEF Moves
<1>10. ASSUME NEW f \in Families, Die(f) PROVE \A g \in Families : FedIsLast(g) /\ BatchesMatch(g)
  <2>1. Moves(f, "dead") /\ UNCHANGED <<round, exported, batches>>
    BY <1>10, GoesMoves DEF Die, Places
  <2>2. \A g \in Families : g # f => fed'[g] = fed[g]
    BY <1>10 DEF Die, Typed
  <2> QED
    BY <1>4, <1>5, <2>1, <2>2 DEF Moves
<1>11. ASSUME UNCHANGED <<round, exported, fed, batches>>,
              \A g \in Families : at'[g] = at[g] \/ at'[g] # "round"
       PROVE  \A g \in Families : FedIsLast(g) /\ BatchesMatch(g)
  BY <1>4, <1>5, <1>11
<1>12. ASSUME NEW f \in Families, NEW place \in Places \ {"round"}, Goes(f, place),
              UNCHANGED <<round, exported, fed, batches>>
       PROVE  \A g \in Families : FedIsLast(g) /\ BatchesMatch(g)
  BY <1>11, <1>12, GoesMoves DEF Moves
<1>13. ASSUME NEW f \in Families,
              \/ Acquire(f) \/ WriteLock(f) \/ ReadBack(f) \/ Edit(f) \/ Evaluate(f)
              \/ Decide(f) \/ Compare(f) \/ Unlink(f) \/ Ratchet(f) \/ Relaunch(f)
       PROVE  \A g \in Families : FedIsLast(g) /\ BatchesMatch(g)
  <2>1. UNCHANGED <<round, exported, fed, batches>>
    BY <1>13 DEF Acquire, WriteLock, ReadBack, Edit, Evaluate, Decide, Compare, Unlink, Ratchet,
       Relaunch, roundVars
  <2>2. \E place \in Places \ {"round"} : Goes(f, place)
    BY <1>13 DEF Acquire, CreateLock, LockHeld, WriteLock, ReadBack, Edit, Evaluate, Decide,
       Release, Compare, Unlink, Ratchet, Relaunch, Places
  <2> QED
    BY <1>12, <2>1, <2>2
<1>14. CASE EvalCli \/ RemoveLock \/ UNCHANGED vars
  BY <1>11, <1>14 DEF EvalCli, RemoveLock, roundVars, vars
<1> QED
  BY <1>6, <1>7, <1>8, <1>9, <1>10, <1>13, <1>14 DEF Next, Hook

-----------------------------------------------------------------------------
Inv == Typed /\ Held /\ Measured /\ Memories

LEMMA InitInv == Init => Inv
<1> SUFFICES ASSUME Init PROVE Inv
  OBVIOUS
<1>1. Typed /\ Held
  BY InitTyped DEF Held
<1>2. None # "keep" /\ \A f \in Families : trial[f].status = None /\ verdict[f].decision = None
                                           /\ at[f] = "idle"
  BY NothingIsTyped, ConstantsAssumption DEF Init
<1>3. Measured
  BY <1>2 DEF Measured
<1>4. \A f \in Families : DOMAIN batches[f] = {}
  BY DEF Init
<1>5. Memories
  BY <1>2, <1>4 DEF Memories, BatchesAreEnded, MemoriesMatchRounds
<1> QED
  BY <1>1, <1>3, <1>5 DEF Inv

LEMMA StepInv == ASSUME Inv, [Next]_vars PROVE Inv'
BY StepTyped, StepMeasured, StepMemories DEF Inv

LEMMA AlwaysInv == Spec => []Inv
BY InitInv, StepInv, PTL DEF Spec

-----------------------------------------------------------------------------
(* Types.                                                                  *)

\* What the other properties do not need of the types.
TypedLocks ==
    /\ flags \in FlagSets /\ removals \in Nat
    /\ launch \in [Families -> Nat]
    /\ lock \in {None} \cup Locks /\ own \in [Families -> {None} \cup Texts]
    /\ robbed \in [Families -> BOOLEAN]

LEMMA InitLocks == Init => TypedLocks
BY ConstantsAssumption DEF Init, TypedLocks, Locks

\* The lock file goes: whoever had it and may not know is robbed.
LEMMA FileGone ==
    ASSUME TypedLocks, NEW others \in SUBSET Families, FileGoes(others)
    PROVE  /\ lock' = None /\ robbed' \in [Families -> BOOLEAN]
           /\ \A g \in others :
                robbed'[g] <=> robbed[g] \/ (IsTheOne(g) /\ at[g] \in Gaps)
BY DEF FileGoes, TypedLocks, IsTheOne

LEMMA StepLocks == ASSUME Typed, TypedLocks, [Next]_vars PROVE TypedLocks'
<1>1. \A f \in Families : Payload(f) \in Payloads /\ Payload(f) \in Texts
  BY DEF Typed, TypedLocks, Payload, Payloads, Texts
<1>2. Empty \in Texts
  BY DEF Texts
<1>3. \A f \in Families : [own EXCEPT ![f] = None] \in [Families -> {None} \cup Texts]
  BY DEF TypedLocks
<1>4. ASSUME UNCHANGED <<flags, removals, launch, lockVars>> PROVE TypedLocks'
  BY <1>4 DEF TypedLocks, lockVars
<1>5. ASSUME NEW f \in Families, Acquire(f) PROVE TypedLocks'
  <2>1. CASE CreateLock(f)
    <3>1. [by |-> Payload(f), text |-> Empty] \in Locks
      BY <1>1, <1>2 DEF Locks
    <3>2. /\ lock' \in {None} \cup Locks /\ UNCHANGED <<flags, removals, launch, own>>
          /\ robbed' = [robbed EXCEPT ![f] = FALSE]
      BY <1>5, <2>1, <3>1 DEF CreateLock, Acquire, roundVars
    <3> QED
      BY <3>2 DEF TypedLocks
  <2>2. CASE LockHeld(f)
    BY <1>4, <1>5, <2>2 DEF LockHeld, Acquire, roundVars
  <2> QED
    BY <1>5, <2>1, <2>2 DEF Acquire
<1>6. ASSUME NEW f \in Families, Edit(f) \/ Evaluate(f) \/ Decide(f) PROVE TypedLocks'
  <2>1. UNCHANGED <<flags, removals, launch>>
    BY <1>6 DEF Edit, Evaluate, Decide, roundVars
  <2>2. UNCHANGED lockVars
    BY <1>6 DEF Edit, Evaluate, Decide, Release
  <2> QED
    BY <1>4, <2>1, <2>2
<1>7. ASSUME NEW f \in Families,
             StartRound(f) \/ EndRound(f) \/ Ratchet(f) \/ Report(f) \/ Advance(f)
      PROVE  TypedLocks'
  BY <1>4, <1>7 DEF StartRound, EndRound, Ratchet, Report, Advance, roundVars, hookVars
<1>8. ASSUME NEW f \in Families, Die(f) PROVE TypedLocks'
  BY <1>3, <1>8 DEF Die, TypedLocks
<1>9. ASSUME NEW f \in Families, Relaunch(f) PROVE TypedLocks'
  BY <1>9 DEF Relaunch, TypedLocks, hookVars, lockVars
<1>10. CASE EvalCli \/ UNCHANGED vars
  BY <1>4, <1>10 DEF EvalCli, roundVars, lockVars, vars
<1>11. CASE RemoveLock
  <2>1. lock' \in {None} \cup Locks /\ robbed' \in [Families -> BOOLEAN]
    BY <1>2, <1>11, FileGone DEF RemoveLock
  <2> QED
    BY <1>11, <2>1 DEF RemoveLock, TypedLocks
<1>12. ASSUME NEW f \in Families, WriteLock(f) PROVE TypedLocks'
  <2>1. UNCHANGED <<flags, removals, launch, own>>
    BY <1>12 DEF WriteLock, roundVars
  <2>2. CASE FileGoes(Families \ {f})
    BY <1>2, <2>1, <2>2, FileGone DEF TypedLocks
  <2>3. CASE /\ lock' = IF IsTheOne(f) THEN [lock EXCEPT !.text = Payload(f)] ELSE lock
             /\ UNCHANGED robbed
    <3>1. IsTheOne(f) => [lock EXCEPT !.text = Payload(f)] \in Locks
      BY <1>1 DEF TypedLocks, IsTheOne, Locks
    <3>2. lock' \in {None} \cup Locks
      BY <2>3, <3>1 DEF TypedLocks
    <3> QED
      BY <2>1, <2>3, <3>2 DEF TypedLocks
  <2> QED
    BY <1>12, <2>2, <2>3 DEF WriteLock
<1>13. ASSUME NEW f \in Families, ReadBack(f) PROVE TypedLocks'
  <2>1. UNCHANGED <<flags, removals, launch, lock, robbed>>
    BY <1>13 DEF ReadBack, roundVars
  <2>2. lock # None => lock.text \in Texts
    BY DEF TypedLocks, Locks
  <2>3. own' \in [Families -> {None} \cup Texts]
    BY <1>3, <1>13, <2>2 DEF ReadBack, TypedLocks
  <2> QED
    BY <2>1, <2>3 DEF TypedLocks
<1>14. ASSUME NEW f \in Families, Compare(f) PROVE TypedLocks'
  <2>1. UNCHANGED <<flags, removals, launch, lock>>
    BY <1>14 DEF Compare, roundVars
  <2>2. own' \in [Families -> {None} \cup Texts] /\ robbed' \in [Families -> BOOLEAN]
    BY <1>3, <1>14 DEF Compare, TypedLocks
  <2> QED
    BY <2>1, <2>2 DEF TypedLocks
<1>15. ASSUME NEW f \in Families, Unlink(f) PROVE TypedLocks'
  <2>1. lock' \in {None} \cup Locks /\ robbed' \in [Families -> BOOLEAN]
    BY <1>2, <1>15, FileGone DEF Unlink
  <2> QED
    BY <1>3, <1>15, <2>1 DEF Unlink, roundVars, TypedLocks
<1> QED
  BY <1>5, <1>6, <1>7, <1>8, <1>9, <1>10, <1>11, <1>12, <1>13, <1>14, <1>15 DEF Next, Hook

\* The lock, the results, the controllers and what they know keep their types: in
\* particular a lock is one that some controller took for its own round.
THEOREM TypeCorrect == Spec => []TypeOK
<1>1. Typed /\ TypedLocks => TypeOK
  BY RankIsOfDecisions DEF Typed, TypedLocks, TypeOK, Stored, Payloads, Locks
<1>2. Inv /\ TypedLocks /\ [Next]_vars => Inv' /\ TypedLocks'
  BY StepInv, StepLocks DEF Inv
<1>3. Inv => Typed
  BY DEF Inv
<1> QED
  BY InitInv, InitLocks, <1>1, <1>2, <1>3, PTL DEF Spec

-----------------------------------------------------------------------------
\* A round of which an apply is known logs "keep" only if that apply has measured it.
THEOREM KeepTheorem == Spec => []KeepIsEarned
<1>1. Inv => KeepIsEarned
  BY DEF Inv, Measured, Earned, KeepIsEarned
<1> QED
  BY <1>1, AlwaysInv, PTL

\* Reflexions are of the round before, and report batches of their rounds.
THEOREM MemoriesTheorem == Spec => []MemoriesMatchRounds
<1>1. Inv => MemoriesMatchRounds
  BY DEF Inv, Memories
<1> QED
  BY <1>1, AlwaysInv, PTL
-----------------------------------------------------------------------------
(* Locks.                                                                  *)

\* A lock holds the payload of whoever created it, once that is written.
TextIsOfCreator == lock # None => lock.text \in {Empty, lock.by}

\* A controller that was not robbed in a gap: in the gaps the lock file is its own,
\* and in between the payload it read back is.
KnowsItsLock ==
    \A f \in Families :
        ~robbed[f] =>
            /\ at[f] \in {"write", "read"} => IsTheOne(f)
            /\ at[f] = "read" => lock.text = Payload(f)
            /\ at[f] \in Applying \cup {"release"} => own[f] \in {None, Payload(f)}
            /\ at[f] = "unlink" /\ own[f] # None => IsTheOne(f)

Locked == TextIsOfCreator /\ KnowsItsLock

LEMMA InitLocked == Init => Locked
BY DEF Init, Locked, TextIsOfCreator, KnowsItsLock, Applying

LEMMA PayloadsDiffer ==
    \A f, g \in Families : Payload(f) # Empty /\ (f # g => Payload(f) # Payload(g))
BY DEF Payload, Empty

LEMMA StepLocked == ASSUME Inv, TypedLocks, Locked, [Next]_vars PROVE Locked'
<1> DEFINE
      Knows(g) ==
        ~robbed'[g] =>
            /\ at'[g] \in {"write", "read"} => IsTheOne(g)'
            /\ at'[g] = "read" => lock'.text = Payload(g)'
            /\ at'[g] \in Applying \cup {"release"} => own'[g] \in {None, Payload(g)'}
            /\ at'[g] = "unlink" /\ own'[g] # None => IsTheOne(g)'
      Minds(g) == at'[g] \in {"write", "read", "release", "unlink"} \cup Applying
      Done == TextIsOfCreator' /\ \A g \in Families : Knows(g)
<1>1. Typed /\ Held
  BY DEF Inv
<1>2. /\ TextIsOfCreator
      /\ \A g \in Families : ~robbed[g] =>
            /\ at[g] \in {"write", "read"} => IsTheOne(g)
            /\ at[g] = "read" => lock.text = Payload(g)
            /\ at[g] \in Applying \cup {"release"} => own[g] \in {None, Payload(g)}
            /\ at[g] = "unlink" /\ own[g] # None => IsTheOne(g)
  BY DEF Locked, KnowsItsLock
<1>3. SUFFICES Done
  BY <1>3 DEF Locked, KnowsItsLock
<1>4. ASSUME NEW g \in Families, UNCHANGED <<round, launch>> PROVE Payload(g)' = Payload(g)
  BY <1>4 DEF Payload
<1>5. ASSUME NEW g \in Families, UNCHANGED <<round, launch, lock>>
      PROVE  IsTheOne(g)' = IsTheOne(g)
  BY <1>4, <1>5 DEF IsTheOne
<1>6. ASSUME NEW g \in Families, UNCHANGED <<round, launch, lock>>,
             UNCHANGED <<at[g], own[g], robbed[g]>>
      PROVE  Knows(g)
  BY <1>2, <1>4, <1>5, <1>6
<1>7. ASSUME NEW g \in Families, ~Minds(g) PROVE Knows(g)
  BY <1>7
<1>8. UNCHANGED lock => TextIsOfCreator'
  BY <1>2 DEF TextIsOfCreator
<1> HIDE DEF Knows
<1>9. ASSUME NEW f \in Families, NEW place \in Places, Goes(f, place),
             UNCHANGED <<round, launch, lockVars>>, Knows(f)
      PROVE  Done
  <2>1. \A g \in Families : g # f => Knows(g)
    BY <1>1, <1>6, <1>9, GoesMoves DEF Moves, lockVars
  <2> QED
    BY <1>8, <1>9, <2>1 DEF lockVars
<1>10. ASSUME NEW f \in Families, NEW place \in Places, Goes(f, place),
              place \notin {"write", "read", "release", "unlink"} \cup Applying,
              UNCHANGED <<round, launch, lockVars>>
       PROVE  Done
  BY <1>1, <1>7, <1>9, <1>10, GoesMoves DEF Moves
<1>11. ASSUME NEW f \in Families, StartRound(f) \/ EndRound(f) \/ Ratchet(f) \/ Report(f)
       PROVE  Done
  <2>1. UNCHANGED <<round, launch, lockVars>>
    BY <1>11 DEF StartRound, EndRound, Ratchet, Report, hookVars, roundVars
  <2>2. \E place \in {"round", "acquire", "ratchet", "report", "advance"} : Goes(f, place)
    BY <1>11 DEF StartRound, EndRound, Mine, Ratchet, Report
  <2> QED
    BY <1>10, <2>1, <2>2 DEF Places, Applying
<1>12. ASSUME NEW f \in Families, Advance(f) \/ Relaunch(f) PROVE Done
  <2>1. UNCHANGED lockVars /\ at[f] \in {"advance", "dead"} /\ Moves(f, "idle")
    BY <1>1, <1>12, GoesMoves DEF Advance, Relaunch, hookVars, Places
  <2>2. \A g \in Families : g # f => round'[g] = round[g] /\ launch'[g] = launch[g]
    BY <1>1, <1>12 DEF Advance, Relaunch, Typed, TypedLocks
  <2>3. \A g \in Families : g # f => Payload(g)' = Payload(g) /\ IsTheOne(g)' = IsTheOne(g)
    BY <2>1, <2>2 DEF Payload, IsTheOne, lockVars
  <2>4. \A g \in Families : g # f => Knows(g)
    BY <1>2, <2>1, <2>3 DEF Knows, Moves, lockVars
  <2>5. Knows(f)
    BY <1>7, <2>1 DEF Moves, Applying
  <2> QED
    BY <1>8, <2>1, <2>4, <2>5 DEF lockVars
<1>13. ASSUME NEW f \in Families, Acquire(f) PROVE Done
  <2>1. UNCHANGED <<round, launch>> /\ at[f] = "acquire"
    BY <1>13 DEF Acquire, roundVars
  <2>2. CASE LockHeld(f)
    BY <1>10, <2>1, <2>2 DEF LockHeld, Places, Applying
  <2>3. CASE CreateLock(f)
    <3>1. /\ Moves(f, "write") /\ own' = own /\ lock = None
          /\ lock' = [by |-> Payload(f), text |-> Empty]
          /\ \A g \in Families : g # f => robbed'[g] = robbed[g]
      BY <1>1, <2>3, GoesMoves DEF CreateLock, Places, TypedLocks
    <3>2. lock' # None /\ lock'.by = Payload(f) /\ lock'.text = Empty
      BY <1>1, <3>1, ConstantsAssumption DEF Typed, TypedLocks, Payload, Payloads, Texts, Locks
    <3>3. IsTheOne(f)'
      BY <1>4, <2>1, <3>2 DEF IsTheOne
    <3>4. Knows(f)
      BY <3>1, <3>3 DEF Knows, Moves, Applying
    <3>5. ASSUME NEW g \in Families, g # f PROVE Knows(g)
      BY <1>2, <1>4, <2>1, <3>1, <3>5 DEF Knows, Moves, IsTheOne
    <3> QED
      BY <3>2, <3>4, <3>5 DEF TextIsOfCreator
  <2> QED
    BY <1>13, <2>2, <2>3 DEF Acquire
<1>14. ASSUME NEW f \in Families, FileGoes(Families \ {f}), Moves(f, "ratchet"),
              UNCHANGED <<round, launch>>, \A g \in Families : g # f => own'[g] = own[g]
       PROVE  Done
  <2>1. ASSUME NEW g \in Families, g # f PROVE Knows(g)
    BY <1>2, <1>4, <1>14, <2>1, FileGone DEF Knows, Moves, Gaps
  <2>2. Knows(f)
    BY <1>7, <1>14 DEF Moves, Applying
  <2>3. TextIsOfCreator'
    BY <1>14 DEF FileGoes, TextIsOfCreator
  <2> QED
    BY <2>1, <2>2, <2>3
<1>15. ASSUME NEW f \in Families, WriteLock(f) PROVE Done
  <2>1. UNCHANGED <<round, launch, own>> /\ at[f] = "write"
    BY <1>15 DEF WriteLock, roundVars
  <2>2. CASE FileGoes(Families \ {f}) /\ Goes(f, "ratchet")
    BY <1>1, <1>14, <2>1, <2>2, GoesMoves DEF Places
  <2>3. CASE /\ lock' = IF IsTheOne(f) THEN [lock EXCEPT !.text = Payload(f)] ELSE lock
             /\ Goes(f, "read") /\ UNCHANGED robbed
    <3>1. Moves(f, "read")
      BY <1>1, <2>3, GoesMoves DEF Places
    <3>2. CASE ~IsTheOne(f)
      <4>1. UNCHANGED <<round, launch, lockVars>>
        BY <2>1, <2>3, <3>2 DEF lockVars
      <4>2. robbed'[f]
        BY <1>2, <2>1, <2>3, <3>2
      <4>3. Knows(f)
        BY <4>2 DEF Knows
      <4> QED
        BY <1>9, <2>3, <4>1, <4>3 DEF Places
    <3>3. CASE IsTheOne(f)
      <4>1. lock \in Locks
        BY <3>3 DEF IsTheOne, TypedLocks, Locks
      <4>a. Payload(f) \in Texts
        BY <1>1 DEF Typed, TypedLocks, Payload, Payloads, Texts
      <4>2. /\ lock' = [lock EXCEPT !.text = Payload(f)] /\ lock' \in Locks
            /\ lock'.by = Payload(f) /\ lock'.text = Payload(f)
        BY <2>3, <3>3, <4>1, <4>a DEF IsTheOne, Locks
      <4>3. lock' # None
        BY <4>2, ConstantsAssumption
      <4>4. IsTheOne(f)' /\ lock'.text = Payload(f)'
        BY <1>4, <2>1, <4>2, <4>3 DEF IsTheOne
      <4>5. Knows(f)
        BY <3>1, <4>4 DEF Knows, Moves, Applying
      <4>6. ASSUME NEW g \in Families, g # f PROVE Knows(g)
        <5>1. ~IsTheOne(g)
          BY <3>3, <4>6, PayloadsDiffer DEF IsTheOne
        <5>2. at'[g] = at[g] /\ own'[g] = own[g] /\ robbed'[g] = robbed[g]
          BY <2>1, <2>3, <3>1, <4>6 DEF Moves
        <5> QED
          BY <1>2, <1>4, <2>1, <5>1, <5>2 DEF Knows
      <4> QED
        BY <4>2, <4>5, <4>6 DEF TextIsOfCreator
    <3> QED
      BY <3>2, <3>3
  <2> QED
    BY <1>15, <2>2, <2>3 DEF WriteLock
<1>16. ASSUME NEW f \in Families, ReadBack(f) PROVE Done
  <2>1. UNCHANGED <<round, launch, lock, robbed>> /\ at[f] = "read" /\ Moves(f, "edit")
    BY <1>1, <1>16, GoesMoves DEF ReadBack, roundVars, Places
  <2>2. own'[f] \in {None, lock.text} /\ \A g \in Families : g # f => own'[g] = own[g]
    BY <1>16 DEF ReadBack, TypedLocks
  <2>3. Knows(f)
    BY <1>2, <1>4, <2>1, <2>2 DEF Knows, Moves, Applying
  <2>4. \A g \in Families : g # f => Knows(g)
    BY <1>6, <2>1, <2>2 DEF Moves
  <2> QED
    BY <1>8, <2>1, <2>3, <2>4
<1>17. ASSUME NEW f \in Families, Edit(f) \/ Evaluate(f) \/ Decide(f) PROVE Done
  <2>1. UNCHANGED <<round, launch, lockVars>> /\ at[f] \in Applying
    BY <1>17 DEF Edit, Evaluate, Decide, Release, roundVars, Applying
  <2>2. PICK place \in Applying \cup {"release"} : Goes(f, place)
    BY <1>17 DEF Edit, Evaluate, Decide, Release, Applying
  <2>3. Moves(f, place)
    BY <1>1, <2>2, GoesMoves DEF Places, Applying
  <2>4. Knows(f)
    BY <1>2, <1>4, <2>1, <2>2, <2>3 DEF Knows, Moves, lockVars, Applying
  <2> QED
    BY <1>9, <2>1, <2>2, <2>4 DEF Places, Applying
<1>18. ASSUME NEW f \in Families, Compare(f) PROVE Done
  <2>1. UNCHANGED <<round, launch, lock>> /\ at[f] = "release"
    BY <1>18 DEF Compare, roundVars
  <2>2. CASE OwnLock(f) /\ Goes(f, "unlink") /\ UNCHANGED <<own, robbed>>
    <3>1. Moves(f, "unlink")
      BY <1>1, <2>2, GoesMoves DEF Places
    <3>2. own[f] = Payload(f) => IsTheOne(f)
      <4>1. Payload(f) # None /\ Payload(f) # Empty
        BY <1>1, PayloadsDiffer, ConstantsAssumption DEF Typed, TypedLocks, Payload, Payloads
      <4> QED
        BY <1>2, <2>2, <4>1 DEF OwnLock, TextIsOfCreator, IsTheOne
    <3>3. ~robbed[f] /\ own[f] # None => IsTheOne(f)
      BY <1>2, <2>1, <3>2
    <3>4. IsTheOne(f)' = IsTheOne(f)
      BY <1>5, <2>1
    <3>5. Knows(f)
      BY <2>2, <3>1, <3>3, <3>4 DEF Knows, Moves, Applying
    <3> QED
      BY <1>9, <2>1, <2>2, <3>5 DEF Places, lockVars
  <2>3. CASE /\ Goes(f, "ratchet")
             /\ own' = [own EXCEPT ![f] = None] /\ robbed' = [robbed EXCEPT ![f] = FALSE]
    <3>1. Moves(f, "ratchet")
      BY <1>1, <2>3, GoesMoves DEF Places
    <3>2. \A g \in Families : g # f => own'[g] = own[g] /\ robbed'[g] = robbed[g]
      BY <2>3 DEF TypedLocks
    <3>3. \A g \in Families : g # f => Knows(g)
      BY <1>6, <2>1, <3>1, <3>2 DEF Moves
    <3>4. Knows(f)
      BY <1>7, <3>1 DEF Moves, Applying
    <3> QED
      BY <1>8, <2>1, <3>3, <3>4
  <2> QED
    BY <1>18, <2>2, <2>3 DEF Compare
<1>19. ASSUME NEW f \in Families, Unlink(f) PROVE Done
  <2>1. UNCHANGED <<round, launch>> /\ FileGoes(Families \ {f}) /\ Moves(f, "ratchet")
    BY <1>1, <1>19, GoesMoves DEF Unlink, roundVars, Places
  <2>2. \A g \in Families : g # f => own'[g] = own[g]
    BY <1>19 DEF Unlink, TypedLocks
  <2> QED
    BY <1>14, <2>1, <2>2
<1>20. CASE RemoveLock
  <2>1. UNCHANGED <<round, launch, at, own>> /\ FileGoes(Families)
    BY <1>20 DEF RemoveLock
  <2>2. ASSUME NEW g \in Families PROVE Knows(g)
    BY <1>2, <1>4, <2>1, FileGone DEF Knows, Gaps
  <2> QED
    BY <2>1, <2>2 DEF FileGoes, TextIsOfCreator
<1>21. ASSUME NEW f \in Families, Die(f) PROVE Done
  <2>1. UNCHANGED <<round, launch, lock>> /\ Moves(f, "dead")
    BY <1>1, <1>21, GoesMoves DEF Die, Places
  <2>2. \A g \in Families : g # f => own'[g] = own[g] /\ robbed'[g] = robbed[g]
    BY <1>21 DEF Die, TypedLocks
  <2>3. \A g \in Families : g # f => Knows(g)
    BY <1>6, <2>1, <2>2 DEF Moves
  <2>4. Knows(f)
    BY <1>7, <2>1 DEF Moves, Applying
  <2> QED
    BY <1>8, <2>1, <2>3, <2>4
<1>22. CASE EvalCli \/ UNCHANGED vars
  <2>1. UNCHANGED <<round, launch, at, lockVars>>
    BY <1>22 DEF EvalCli, roundVars, vars, lockVars
  <2> QED
    BY <1>6, <1>8, <2>1 DEF lockVars
<1> QED
  BY <1>11, <1>12, <1>13, <1>15, <1>16, <1>17, <1>18, <1>19, <1>20, <1>21, <1>22 DEF Next, Hook

\* A controller removes the lock of another one only if its own went before it read
\* it back, or after it compared; or if it could not read it back.
THEOREM ReleaseTheorem == Spec => ReleasesAreOwn
<1> DEFINE LockInv == Inv /\ TypedLocks /\ Locked
<1>1. ASSUME LockInv, [Next]_vars, NEW f \in Families, at[f] # at'[f], at'[f] = "ratchet",
             lock # None, lock' = None
      PROVE  IsTheOne(f) \/ robbed[f] \/ (at[f] = "unlink" /\ own[f] = None)
  <2>1. at[f] \in {"write", "unlink"} => IsTheOne(f) \/ robbed[f] \/ own[f] = None
    BY <1>1 DEF Locked, KnowsItsLock
  <2>2. at[f] = "write" => IsTheOne(f) \/ robbed[f]
    BY <1>1 DEF Locked, KnowsItsLock
  <2>3. ASSUME NEW g \in Families, NEW place \in Places, Goes(g, place) PROVE g = f
    BY <1>1, <2>3, GoesMoves DEF Inv, Moves
  <2>4. ASSUME NEW g \in Families, WriteLock(g) \/ Unlink(g) PROVE at[f] \in {"write", "unlink"}
    <3>1. \E place \in Places : Goes(g, place)
      BY <2>4 DEF WriteLock, Unlink, Places
    <3> QED
      BY <2>3, <2>4, <3>1 DEF WriteLock, Unlink
  <2>5. ASSUME NEW g \in Families, Acquire(g) PROVE FALSE
    BY <1>1, <2>5 DEF Acquire, CreateLock, LockHeld, lockVars
  <2>6. ASSUME NEW g \in Families,
               \/ StartRound(g) \/ EndRound(g) \/ ReadBack(g) \/ Edit(g) \/ Evaluate(g)
               \/ Decide(g) \/ Compare(g) \/ Ratchet(g) \/ Report(g) \/ Advance(g) \/ Die(g)
               \/ Relaunch(g)
        PROVE  FALSE
    <3>1. UNCHANGED lock
      BY <2>6 DEF StartRound, EndRound, ReadBack, Edit, Evaluate, Decide, Release, Compare,
         Ratchet, Report, Advance, Die, Relaunch, hookVars, lockVars
    <3> QED
      BY <1>1, <3>1
  <2>7. CASE EvalCli \/ RemoveLock \/ UNCHANGED vars
    BY <1>1, <2>7 DEF EvalCli, RemoveLock, lockVars, vars
  <2> QED
    BY <1>1, <2>1, <2>2, <2>4, <2>5, <2>6, <2>7 DEF Next, Hook
<1>2. LockInv /\ [Next]_vars =>
        [\A f \in Families :
            at[f] # at'[f] /\ at'[f] = "ratchet" /\ lock # None /\ lock' = None =>
                \/ IsTheOne(f) \/ robbed[f]
                \/ (at[f] = "unlink" /\ own[f] = None)]_vars
  BY <1>1
<1>3. Init => LockInv
  BY InitInv, InitLocks, InitLocked
<1>4. LockInv /\ [Next]_vars => LockInv'
  BY StepInv, StepLocks, StepLocked DEF Inv
<1> HIDE DEF LockInv
<1> QED
  BY <1>2, <1>3, <1>4, PTL DEF Spec, ReleasesAreOwn
=============================================================================
